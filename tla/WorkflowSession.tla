-------------------------- MODULE WorkflowSession --------------------------
(***************************************************************************)
(* The workflow of the desktop application: the sessions, tasks and runs  *)
(* that are saved, the commands of the owner, the engine's runs with       *)
(* their model requests, the events they report, and what a restart makes *)
(* of all that.                                                            *)
(*                                                                         *)
(* JavaScript runs one turn at a time, but every transaction of a turn is  *)
(* saved on its own: "turn" holds the transactions that remain of the      *)
(* current turn, and only a crash comes between them.  "loop" holds the    *)
(* dispatches that follow each other with an await in between, "asking"    *)
(* the commands that await the model catalog, "inbox" the events of runs   *)
(* that are not handled yet.  A crash loses these and every execution.     *)
(***************************************************************************)
EXTENDS Integers, Sequences, FiniteSets

CONSTANTS
  Contracts,     \* launches: [mode, purpose, framed, ranked, batches, enforced, project]
  Problems,      \* how many problems a discovery may find, a set of numbers
  Stages,        \* model requests a run makes, one after the other
  Asks,          \* bound: requests of one stage in one run
  Side,          \* SIDE_BY_SIDE_IDEA_TASKS
  Rounds,        \* bound: fill rounds
  MaxCalls,      \* bound: requests of a run after which it is not retried
  MaxAsking,     \* bound: commands awaiting the model catalog
  MaxSessions, MaxTasks, MaxRuns, MaxCrashes   \* bounds

ASSUME BoundsAssumption ==
  /\ {Stages, Asks, Side, MaxCalls, MaxAsking, MaxSessions, MaxTasks, MaxRuns} \subseteq Nat \ {0}
  /\ {Rounds, MaxCrashes} \subseteq Nat
  /\ Problems \subseteq Nat

Contract == [mode : {"vibe", "babysit"}, purpose : {"discovery", "known", "research-followup"},
             framed : BOOLEAN, ranked : BOOLEAN, batches : Nat \ {0}, enforced : BOOLEAN, project : BOOLEAN]
ASSUME ContractsAssumption == Contracts \subseteq Contract

VARIABLES
  session,  \* the saved sessions
  task,     \* the saved work items
  run,      \* the saved runs, with their requests and the acknowledged ones
  exec,     \* what the engine of this process does with each run
  covering, \* coverage tasks under way in this process
  inbox, turn, loop, asking,
  up,       \* "down", "starting" or "up"
  crashes

saved == <<session, task, run>>
memory == <<exec, covering, inbox, turn, loop, asking>>
vars == <<session, task, run, exec, covering, inbox, turn, loop, asking, up, crashes>>

Busy == {"running", "pause-requested", "stop-requested"}
RunStates == {"running", "completed", "failed", "cancelled"}
Settled == {"succeeded", "failed", "cancelled", "skipped", "unknown"}
Initial == {"frame", "research", "known", "assess"}
Runnable == {"frame", "research", "assess", "ideas"}

Sessions == DOMAIN session
TasksOf(s) == {t \in DOMAIN task : task[t].session = s}
Pausing(s) == session[s].state = "pause-requested"  \* a mutant: another request is taken for a stop
Stopping(s) == session[s].state = "stop-requested"
Running(s) == {t \in TasksOf(s) : task[t].state = "running"}
OfKind(s, kinds) == {t \in TasksOf(s) : task[t].kind \in kinds}
First(ts) == CHOOSE t \in ts : \A u \in ts : t <= u
InOrder(ids) == [i \in 1..Cardinality(ids) |-> CHOOSE n \in ids : Cardinality({m \in ids : m <= n}) = i]
Owner(r) == {t \in DOMAIN task : task[t].run = r}
SideBySide(t) == task[t].kind = "ideas" /\ task[t].parallel

Lead(q) == IF q = <<>> THEN <<>> ELSE <<Head(q)>>
Step(do, of) == [do |-> do, of |-> of]
Each(do, ts) == [i \in 1..Len(ts) |-> Step(do, ts[i])]

(***************************************************************************)
(* Requests of a run.  "sent" is dispatched or accepted, "lost" may have   *)
(* been completed unseen, "never" was not dispatched; "failed" may simply  *)
(* be tried again, "limit" ran into the output limit, "rejected" neither.  *)
(***************************************************************************)
UnresolvedSent(r) ==  \* a mutant: what a restart interrupted is forgotten
  {i \in DOMAIN run[r].calls : run[r].calls[i].state = "sent"}
Unresolved(r) ==
  {i \in DOMAIN run[r].calls :
     /\ run[r].calls[i].state \in {"sent", "lost"}
     /\ \A j \in DOMAIN run[r].calls :
          j > i /\ run[r].calls[j].stage = run[r].calls[i].stage => run[r].calls[j].state # "done"}
UnknownCompletion(r) == Unresolved(r) \ run[r].acked # {}
StageDone(r, k) == \E i \in DOMAIN run[r].calls : run[r].calls[i].stage = k /\ run[r].calls[i].state = "done"
NextStage(r) == Cardinality({k \in 1..Stages : StageDone(r, k)}) + 1
InFlight(r) == {i \in DOMAIN run[r].calls : run[r].calls[i].state \in {"prepared", "sent"}}

\* blockingActiveRun: idea runs of one session may overlap, any other run is alone.
Blocking(ideas, s, except) ==
  \E r \in DOMAIN run \ {except} :
    run[r].status = "running" /\ ~(ideas /\ run[r].ideas /\ run[r].session = s)
RunsIdle == \A r \in DOMAIN run : run[r].status # "running"  \* a mutant: a paused session does not count
ProjectIdle ==
  /\ \A s \in Sessions : session[s].state = "finished"
  /\ \A r \in DOMAIN run : run[r].status # "running"

(***************************************************************************)
(* Saved changes.  updateSession compares the revision it was given; what  *)
(* a waiting command read is stale after any change of its session.        *)
(***************************************************************************)
Stale(s) == {[a EXCEPT !.fresh = a.fresh /\ a.session # s] : a \in asking}
Put(s, state) == session' = [session EXCEPT ![s].state = state] /\ asking' = Stale(s)
Outcome(s, outcome) ==
  session' = [session EXCEPT ![s].state = "finished", ![s].outcome = outcome] /\ asking' = Stale(s)
KeepSession == UNCHANGED <<session, asking>>

NewTask(s, kind) ==
  [session |-> s, kind |-> kind, state |-> "ready", run |-> 0, problem |-> 0, parallel |-> FALSE,
   round |-> 0, out |-> FALSE, deferred |-> FALSE, retryOf |-> 0, attempt |-> "none"]
NewSession(contract) ==
  [state |-> "running", outcome |-> "none", contract |-> contract, problems |-> 0, frame |-> "none",
   reassessed |-> FALSE]
NewRun(s, ideas) ==
  [session |-> s, ideas |-> ideas, status |-> "running", interrupted |-> FALSE,
   calls |-> <<>>, acked |-> {}, result |-> 0]

To(tasks, ts, state) == [t \in DOMAIN tasks |-> IF t \in ts THEN [tasks[t] EXCEPT !.state = state] ELSE tasks[t]]
SkipReady(tasks, s, deferred) ==
  [t \in DOMAIN tasks |->
     IF tasks[t].session = s /\ tasks[t].state = "ready"
     THEN [tasks[t] EXCEPT !.state = "skipped", !.deferred = deferred] ELSE tasks[t]]
IdeasReady(tasks, s) ==  \* a mutant: the tasks still to come instead of those that run
  \E t \in DOMAIN tasks : tasks[t].session = s /\ tasks[t].kind = "ideas" /\ tasks[t].state = "ready"
IdeasRunning(tasks, s) ==
  \E t \in DOMAIN tasks : tasks[t].session = s /\ tasks[t].kind = "ideas" /\ tasks[t].state = "running"

\* summary: problems asked for and problems with an accepted idea.
Requested(s) == {task[t].problem : t \in {u \in OfKind(s, {"ideas"}) : task[u].round = 0}}
Accepted(tasks, s) ==
  {tasks[t].problem : t \in {u \in DOMAIN tasks : /\ tasks[u].session = s /\ tasks[u].kind = "ideas"
                                                  /\ tasks[u].state = "succeeded" /\ tasks[u].out}}
TargetMet(s) == Requested(s) # {} /\ Requested(s) \subseteq Accepted(task, s)

Go(steps) == turn' = steps \o Tail(turn)
Now(steps) == turn' = steps
Idle == up = "up" /\ turn = <<>>
Quiet == Idle /\ loop = <<>> /\ inbox = <<>>   \* events and dispatches come before input and output
At(do) == up # "down" /\ turn # <<>> /\ Head(turn).do = do
Of == Head(turn).of

-----------------------------------------------------------------------------
(***************************************************************************)
(* Dispatching.                                                            *)
(***************************************************************************)
\* dispatchInitial and dispatchGeneration up to the engine; a known problem needs no run.
Dispatch ==
  /\ At("dispatch")
  /\ LET t == Of
         s == task[t].session IN
     IF session[s].state # "running" \/ task[t].state # "ready"
     THEN Go(<<>>) /\ UNCHANGED <<task, session, asking>>
     ELSE IF task[t].kind = "known"
     THEN /\ task' = [task EXCEPT ![t].state = "succeeded"]
          /\ session' = [session EXCEPT ![s].problems = 1, ![s].state =
                           IF session[s].contract.mode = "vibe" THEN "running" ELSE "waiting-for-review"]
          /\ asking' = Stale(s)
          /\ Go(IF session[s].contract.mode = "vibe" THEN <<Step("plan", s)>> ELSE <<>>)
     ELSE /\ task' = [task EXCEPT ![t].state = "running"]
          /\ Go(<<Step("create", t)>>)
          /\ KeepSession
  /\ UNCHANGED <<run, exec, covering, inbox, loop, up, crashes>>

\* The engine creates the run, unless another run has the project or the start fails.
CreateRun ==
  /\ At("create")
  /\ LET t == Of
         s == task[t].session
         ideas == task[t].kind = "ideas" IN
     \E started \in BOOLEAN :
       IF started /\ ~Blocking(ideas, s, 0) /\ Len(run) < MaxRuns
       THEN run' = Append(run, NewRun(s, ideas)) /\ Go(<<Step("link", t)>>)
       ELSE Go(<<Step("failDispatch", t)>>) /\ UNCHANGED run
  /\ UNCHANGED <<session, task, exec, covering, inbox, loop, asking, up, crashes>>

\* admitWorkflowRun: the linked run begins, or it is cancelled before any request.
AdmitRun(r, begins) ==
  IF begins THEN exec' = [exec EXCEPT ![r] = "active"] /\ UNCHANGED <<run, inbox>>
  ELSE /\ run' = [run EXCEPT ![r].status = "cancelled"]
       /\ inbox' = Append(inbox, [run |-> r, type |-> "cancelled"]) /\ UNCHANGED exec
\* linkDispatchedRun
LinkRun ==
  /\ At("link")
  /\ LET t == Of
         s == task[t].session
         linked == session[s].state # "finished" /\ task[t].state = "running" IN
     /\ task' = IF linked THEN [task EXCEPT ![t].run = Len(run)] ELSE task
     /\ AdmitRun(Len(run), linked /\ ~Stopping(s))
  /\ Go(<<>>)
  /\ UNCHANGED <<session, covering, loop, asking, up, crashes>>

FailDispatch ==
  /\ At("failDispatch")
  /\ LET t == Of
         s == task[t].session
         unknown == task[t].run # 0 /\ UnknownCompletion(task[t].run)
         failed == IF task[t].state \in {"ready", "running"}
                   THEN [task EXCEPT ![t].state = IF unknown THEN "unknown" ELSE "failed"] ELSE task
         after == SkipReady(failed, s, TRUE) IN
     IF session[s].state = "finished" THEN UNCHANGED <<session, asking, task>>
     ELSE /\ task' = after
          /\ IF SideBySide(t) /\ IdeasRunning(after, s) THEN KeepSession
             ELSE Outcome(s, IF unknown THEN "needs-attention" ELSE "failed")
  /\ Go(<<>>)
  /\ UNCHANGED <<run, exec, covering, inbox, loop, up, crashes>>

-----------------------------------------------------------------------------
(***************************************************************************)
(* Generating ideas.                                                       *)
(***************************************************************************)
IdeaTask(s, p, round) ==
  [NewTask(s, "ideas") EXCEPT !.problem = p, !.round = round, !.parallel = (round = 0)]
\* A ranked run has one task for each problem, an older one as many as its batches.
AdmitIdeas(s) ==
  LET batches == session[s].contract.batches IN
  [i \in 1..session[s].problems * batches |-> IdeaTask(s, (i - 1) \div batches + 1, 0)]

PlanGeneration ==
  /\ At("plan")
  /\ LET s == Of IN
     IF session[s].state # "running"
     THEN UNCHANGED <<task, session, asking>>
     ELSE /\ Len(task) + Len(AdmitIdeas(s)) <= MaxTasks
          /\ task' = task \o AdmitIdeas(s)
          /\ Put(s, "running")
  /\ Go(<<Step("next", Of)>>)
  /\ UNCHANGED <<run, exec, covering, inbox, loop, up, crashes>>

\* dispatchNextGeneration: "short" when less than five minutes of the session are left.
DispatchNext ==
  /\ At("next")
  /\ LET s == Of
         ideas == OfKind(s, {"ideas"})
         running == {t \in ideas : task[t].state = "running"}
         ready == {t \in ideas : task[t].state = "ready"}
         coverage == {t \in OfKind(s, {"coverage"}) : task[t].state \in {"ready", "running"}}
         batch == IF SideBySide(First(ready))
                  THEN LET all == InOrder({t \in ready : SideBySide(t)}) IN
                       SubSeq(all, 1, IF Len(all) + Cardinality(running) <= Side
                                      THEN Len(all) ELSE Side - Cardinality(running))
                  ELSE <<First(ready)>> IN
     \E short \in IF session[s].contract.enforced THEN BOOLEAN ELSE {FALSE} :
       IF session[s].state # "running" \/ \E t \in running : ~SideBySide(t)
       THEN Go(<<>>) /\ UNCHANGED <<task, loop>>
       ELSE IF TargetMet(s) \/ short
       THEN /\ task' = To(task, {t \in ready \cup coverage : task[t].state = "ready"}, "skipped")
            /\ Go(IF running = {} THEN <<Step("collect", s)>> ELSE <<>>)
            /\ UNCHANGED loop
       ELSE IF coverage # {}
       THEN /\ Go(IF running = {} /\ task[First(coverage)].state = "ready"
                  THEN <<Step("cover", First(coverage))>> ELSE <<>>)
            /\ UNCHANGED <<task, loop>>
       ELSE IF ready = {} THEN Go(IF running = {} THEN <<Step("collect", s)>> ELSE <<>>) /\ UNCHANGED <<task, loop>>
       ELSE IF batch = <<>> \/ (running # {} /\ ~SideBySide(First(ready))) THEN Go(<<>>) /\ UNCHANGED <<task, loop>>
       ELSE /\ Go(<<Step("dispatch", Head(batch))>>)
            /\ loop' = loop \o Each("dispatch", Tail(batch))
            /\ UNCHANGED task
  /\ UNCHANGED <<session, run, exec, covering, inbox, asking, up, crashes>>

\* The next task of a batch, or the next run to resume.
LoopStep ==
  /\ Idle /\ loop # <<>>
  /\ Now(<<Head(loop)>>) /\ loop' = Tail(loop)
  /\ UNCHANGED <<saved, exec, covering, inbox, asking, up, crashes>>

FinalOutcome(s) ==
  LET ideas == OfKind(s, {"ideas"}) IN
  IF \E t \in ideas : task[t].state = "unknown" THEN "needs-attention"
  ELSE IF TargetMet(s) THEN "target-met"
  ELSE IF (\E t \in ideas : task[t].state = "failed") \/ Accepted(task, s) # {} THEN "partial"
  ELSE "no-qualifying-ideas"

\* finishCollection: older runs fill toward their target, with a look for coverage gaps in between.
Fills(s) ==
  LET ideas == OfKind(s, {"ideas"}) IN
  /\ ~TargetMet(s) /\ ~session[s].contract.ranked
  /\ ideas # {} /\ \A t \in ideas : task[t].state \notin {"failed", "unknown"} /\ task[t].round < Rounds
FinishCollection ==
  /\ At("collect")
  /\ LET s == Of
         coverage == {t \in OfKind(s, {"coverage"}) : task[t].state \in {"ready", "running"}}
         round == 1 + Cardinality({task[t].round : t \in OfKind(s, {"ideas"})} \ {0}) IN
     IF session[s].state # "running" THEN Go(<<>>) /\ UNCHANGED <<task, session, asking>>
     ELSE IF coverage # {} /\ ~TargetMet(s)
     THEN /\ Go(IF task[First(coverage)].state = "ready" THEN <<Step("next", s)>> ELSE <<>>)
          /\ UNCHANGED <<task, session, asking>>
     ELSE \/ /\ Fills(s) /\ session[s].contract.project
             /\ ~\E t \in OfKind(s, {"coverage"}) : task[t].round = round
             /\ Len(task) < MaxTasks
             /\ task' = Append(task, [NewTask(s, "coverage") EXCEPT !.round = round])
             /\ Put(s, "running") /\ Go(<<Step("cover", Len(task) + 1)>>)
          \/ /\ Fills(s) /\ Len(task) < MaxTasks
             /\ \E p \in Requested(s) \ Accepted(task, s) : task' = Append(task, IdeaTask(s, p, round))
             /\ Put(s, "running") /\ Go(<<Step("next", s)>>)
          \/ /\ Outcome(s, FinalOutcome(s)) /\ Go(<<>>)
             /\ UNCHANGED task
  /\ UNCHANGED <<run, exec, covering, inbox, loop, up, crashes>>

\* dispatchCoverage: the task runs without a run, its attempt linked when it is dispatched.
Cover ==
  /\ At("cover")
  /\ IF task[Of].state = "ready" /\ session[task[Of].session].state = "running"
     THEN task' = [task EXCEPT ![Of].state = "running"] /\ covering' = covering \cup {Of}
     ELSE UNCHANGED <<task, covering>>
  /\ Go(<<>>)
  /\ UNCHANGED <<session, run, exec, inbox, loop, asking, up, crashes>>
CoverSent(t) ==
  /\ Quiet /\ t \in covering /\ task[t].attempt = "none"
  /\ task' = [task EXCEPT ![t].attempt = "sent"]
  /\ UNCHANGED <<session, run, memory, up, crashes>>
\* The call's result is saved with the attempt; the coordinator settles the task in a turn of its own.
CoverAnswered(t) ==
  /\ Quiet /\ t \in covering /\ task[t].attempt = "sent"
  /\ \E st \in {"completed", "failed", "lost"} : task' = [task EXCEPT ![t].attempt = st]
  /\ UNCHANGED <<session, run, memory, up, crashes>>
CoverSettled(t) ==
  /\ Quiet /\ t \in covering
  /\ task[t].attempt = "sent" => Stopping(task[t].session)
  /\ covering' = covering \ {t}
  /\ LET s == task[t].session
         stopped == Stopping(s)
         unknown == task[t].attempt \in {"sent", "lost"} IN
     IF session[s].state = "finished"
     THEN UNCHANGED <<task, session, asking, turn>>
     ELSE IF task[t].attempt = "completed"
     THEN /\ task' = [task EXCEPT ![t].state = "succeeded"]
          /\ CASE stopped -> Outcome(s, "cancelled")
               [] session[s].state = "pause-requested" -> Put(s, "paused")
               [] OTHER -> Put(s, "running")
          /\ Now(IF session[s].state = "running" THEN <<Step("collect", s)>> ELSE <<>>)
     ELSE /\ task' = [task EXCEPT ![t].state =
                        IF stopped THEN "cancelled" ELSE IF unknown THEN "unknown" ELSE "failed"]
          /\ Outcome(s, IF stopped THEN "cancelled" ELSE IF unknown THEN "needs-attention"
                        ELSE IF Accepted(task, s) # {} THEN "partial" ELSE "failed")
          /\ Now(<<>>)
  /\ UNCHANGED <<run, exec, inbox, loop, up, crashes>>

-----------------------------------------------------------------------------
(***************************************************************************)
(* The engine: a run asks its stages one after the other, and reports how  *)
(* it ended.                                                               *)
(***************************************************************************)
Ask(r, i, state) == run' = [run EXCEPT ![r].calls[i].state = state]
Report(r, status, type) ==
  /\ run' = [run EXCEPT ![r].status = status]
  /\ exec' = [exec EXCEPT ![r] = "none"]
  /\ inbox' = Append(inbox, [run |-> r, type |-> type])

\* findCompleted and prepare: a completed stage is reused, the next one gets a new attempt.
Prepare(r) ==
  /\ Quiet /\ exec[r] = "active" /\ InFlight(r) = {} /\ NextStage(r) <= Stages
  /\ run' = [run EXCEPT ![r].calls = Append(@, [stage |-> NextStage(r), state |-> "prepared"])]
  /\ UNCHANGED <<session, task, memory, up, crashes>>
Send(r) ==
  /\ Quiet /\ exec[r] = "active"
  /\ \E i \in InFlight(r) : run[r].calls[i].state = "prepared" /\ Ask(r, i, "sent")
  /\ UNCHANGED <<session, task, memory, up, crashes>>

\* recordTerminal, then either the run goes on, asks again by itself, or fails in the same turn.
\* A dropped stream is acknowledged and asked again, a rate limit waited out.
CallEnds(r) ==
  /\ Quiet /\ exec[r] = "active"
  /\ \E i \in InFlight(r) :
       LET c == run[r].calls[i]
           asked == Cardinality({j \in DOMAIN run[r].calls : run[r].calls[j].stage = c.stage}) IN
       \E ended \in IF c.state = "sent" THEN {"done", "failed", "limit", "rejected", "lost"} ELSE {"never"} :
         \/ /\ ended = "done" /\ Ask(r, i, "done")
            /\ UNCHANGED turn
         \/ /\ ended \in {"failed", "lost"} /\ asked < Asks
            /\ run' = [run EXCEPT ![r].calls[i].state = ended, ![r].acked = IF ended = "lost" THEN @ \cup {i} ELSE @]
            /\ UNCHANGED turn
         \/ /\ ended # "done" /\ Ask(r, i, ended)
            /\ Now(<<Step("fail", r)>>)
  /\ UNCHANGED <<session, task, exec, covering, inbox, loop, asking, up, crashes>>
FailRun ==
  /\ At("fail")
  /\ Report(Of, "failed", "failed") /\ Go(<<>>)
  /\ UNCHANGED <<session, task, covering, loop, asking, up, crashes>>

\* What the stages left behind: nothing, the problems found, or ideas settled without and with an accepted one.
Results(r) ==
  LET kinds == {task[t].kind : t \in Owner(r)} IN
  IF "research" \in kinds THEN Problems ELSE IF "ideas" \in kinds THEN 0..2 ELSE 0..1
RunEnds(r) ==
  /\ Quiet /\ exec[r] = "active" /\ InFlight(r) = {} /\ NextStage(r) > Stages
  /\ \E result \in Results(r) : run' = [run EXCEPT ![r].status = "completed", ![r].result = result]
  /\ exec' = [exec EXCEPT ![r] = "none"]
  /\ inbox' = Append(inbox, [run |-> r, type |-> "completed"])
  /\ UNCHANGED <<session, task, covering, turn, loop, asking, up, crashes>>

\* A stopped run keeps its row "cancelled", waits for the answer under way, and reports.
StoppedCall(r) ==
  /\ Quiet /\ exec[r] = "stopping"
  /\ \E i \in InFlight(r) : \E ended \in IF run[r].calls[i].state = "sent" THEN {"done", "rejected", "lost"} ELSE {"never"} :
       Ask(r, i, ended)
  /\ UNCHANGED <<session, task, memory, up, crashes>>
StoppedExit(r) ==
  /\ Quiet /\ exec[r] = "stopping" /\ InFlight(r) = {}
  /\ Report(r, run[r].status, "cancelled")
  /\ UNCHANGED <<session, task, covering, turn, loop, asking, up, crashes>>

\* cancelRunInternal: it throws for a run that ended; the first of a stop then keeps the others from being cancelled.
CancelRun ==
  /\ up # "down" /\ turn # <<>> /\ Head(turn).do \in {"cancelFirst", "cancelNext"}
  /\ LET r == Of IN
     IF run[r].status # "running"
     THEN turn' = (IF Head(turn).do = "cancelFirst" THEN <<>> ELSE Tail(turn)) /\ UNCHANGED <<run, exec, inbox>>
     ELSE /\ Go(<<>>)
          /\ run' = [run EXCEPT ![r].status = "cancelled"]
          /\ IF exec[r] = "active"
             THEN exec' = [exec EXCEPT ![r] = "stopping"] /\ UNCHANGED inbox
             ELSE inbox' = Append(inbox, [run |-> r, type |-> "cancelled"]) /\ UNCHANGED exec
  /\ UNCHANGED <<session, task, covering, loop, asking, up, crashes>>

\* resumeRun; a session's resume also closes the run it could not resume.
MayResume(r, do) ==
  /\ run[r].status \in {"running", "failed", "cancelled"} \/ do = "reassess"
  /\ ~UnknownCompletion(r)
  /\ ~Blocking(run[r].ideas, run[r].session, r)
ResumeRun ==
  /\ up # "down" /\ turn # <<>> /\ Head(turn).do \in {"resume", "recover", "reassess"}
  /\ LET r == Of IN
     CASE exec[r] = "active" -> Go(<<>>) /\ UNCHANGED <<run, exec>>
       [] exec[r] # "active" /\ MayResume(r, Head(turn).do) ->
            /\ run' = [run EXCEPT ![r].status = "running", ![r].interrupted = FALSE]
            /\ exec' = [exec EXCEPT ![r] = "active"]
            /\ Go(<<>>)
       [] OTHER ->
            /\ run' = IF Head(turn).do = "resume" /\ run[r].status = "running"
                      THEN [run EXCEPT ![r].status = "failed", ![r].interrupted = TRUE] ELSE run
            /\ Go([i \in 1..Cardinality(Owner(r)) |-> Step("failDispatch", First(Owner(r)))])
            /\ UNCHANGED exec
  /\ UNCHANGED <<session, task, covering, inbox, loop, asking, up, crashes>>

-----------------------------------------------------------------------------
(***************************************************************************)
(* handleRunEvent: a run reports once; what the session does depends on    *)
(* what the owner asked of it meanwhile.                                   *)
(***************************************************************************)
\* Only the run of a task that runs, in a session that is not over, is heard.
HeardWhileRunning(r) ==  \* a mutant: not while the session waits to pause
  /\ Owner(r) # {}
  /\ task[First(Owner(r))].state = "running"
  /\ session[task[First(Owner(r))].session].state = "running"
Heard(r) ==
  /\ Owner(r) # {}
  /\ task[First(Owner(r))].state = "running"
  /\ session[task[First(Owner(r))].session].state # "finished"
TakeEvent ==
  /\ Idle /\ inbox # <<>>
  /\ inbox' = Tail(inbox)
  /\ Now(IF Heard(Head(inbox).run) THEN <<Step(Head(inbox).type, Head(inbox).run)>> ELSE <<>>)
  /\ UNCHANGED <<saved, exec, covering, loop, asking, up, crashes>>

Handling(type, kinds) == At(type) /\ Heard(Of) /\ task[First(Owner(Of))].kind \in kinds

\* A run that ended without its result fails the task.
MissingResultIgnored ==  \* a mutant: the task keeps running
  /\ Handling("completed", {"frame", "assess"}) /\ run[Of].result = 0
  /\ Go(<<>>)
  /\ UNCHANGED <<saved, exec, covering, inbox, loop, asking, up, crashes>>
MissingResult ==
  /\ Handling("completed", {"frame", "assess"}) /\ run[Of].result = 0
  /\ Go(<<Step("failDispatch", First(Owner(Of)))>>)
  /\ UNCHANGED <<saved, exec, covering, inbox, loop, asking, up, crashes>>

\* Where a settled task leaves a session that was asked to stop or to pause, or else "next".
Rest(s, next) ==
  CASE Stopping(s) -> "finished"
    [] session[s].state = "pause-requested" -> "paused"
    [] OTHER -> next
Settle(s, state, outcome) ==
  /\ session' = [session EXCEPT ![s].state = state, ![s].outcome = IF state = "finished" THEN outcome ELSE "none"]
  /\ asking' = Stale(s)

ResearchTask(s) == NewTask(s, IF session[s].contract.purpose = "known" THEN "known" ELSE "research")
CompleteFrame ==
  /\ Handling("completed", {"frame"}) /\ run[Of].result # 0
  /\ LET t == First(Owner(Of))
         s == task[t].session
         done == [task EXCEPT ![t].state = "succeeded"]
         goesOn == session[s].state = "running" /\ session[s].contract.mode = "vibe" IN
     /\ goesOn => Len(task) < MaxTasks
     /\ task' = IF goesOn THEN Append(done, ResearchTask(s)) ELSE done
     /\ session' = [session EXCEPT
          ![s].frame = IF goesOn THEN "approved" ELSE "draft",
          ![s].state = IF goesOn THEN "running" ELSE Rest(s, "waiting-for-review"),
          ![s].outcome = IF Stopping(s) THEN "cancelled" ELSE "none"]
     /\ asking' = Stale(s)
     /\ Go(IF goesOn THEN <<Step("dispatch", Len(task) + 1)>> ELSE <<>>)
  /\ UNCHANGED <<run, exec, covering, inbox, loop, up, crashes>>

CompleteDiscovery ==
  /\ Handling("completed", {"research"})
  /\ LET t == First(Owner(Of))
         s == task[t].session
         found == run[Of].result
         vibe == session[s].contract.mode = "vibe"
         stopped == Stopping(s)
         state == IF found = 0 /\ vibe THEN "finished"
                  ELSE Rest(s, IF vibe THEN "running" ELSE "waiting-for-review") IN
     /\ task' = [task EXCEPT ![t].state = "succeeded"]
     /\ session' = [session EXCEPT ![s].state = state, ![s].problems = found, ![s].outcome =
          IF stopped THEN "cancelled" ELSE IF state = "finished" THEN "no-qualifying-ideas" ELSE "none"]
     /\ asking' = Stale(s)
     /\ Go(IF state = "running" THEN <<Step("plan", s)>> ELSE <<>>)
  /\ UNCHANGED <<run, exec, covering, inbox, loop, up, crashes>>

\* The last of the ideas tasks running side by side pauses or stops the session.
CompleteGeneration ==
  /\ Handling("completed", {"ideas"})
  /\ LET t == First(Owner(Of))
         s == task[t].session
         done == [task EXCEPT ![t].state = IF run[Of].result = 0 THEN "failed" ELSE "succeeded",
                              ![t].out = run[Of].result = 2] IN
     /\ task' = done
     /\ Settle(s, IF IdeasRunning(done, s) THEN session[s].state ELSE Rest(s, "running"), "cancelled")
     /\ Go(IF session[s].state = "running" THEN <<Step("next", s)>> ELSE <<>>)
  /\ UNCHANGED <<run, exec, covering, inbox, loop, up, crashes>>

CompleteAssessment ==
  /\ Handling("completed", {"assess"}) /\ run[Of].result # 0
  /\ LET t == First(Owner(Of)) IN
     /\ task' = [task EXCEPT ![t].state = "succeeded"]
     /\ Settle(task[t].session, Rest(task[t].session, "waiting-for-review"), "cancelled")
  /\ Go(<<>>)
  /\ UNCHANGED <<run, exec, covering, inbox, loop, up, crashes>>

RunEndedShort(type) ==
  /\ Handling(type, Runnable)
  /\ LET t == First(Owner(Of))
         s == task[t].session
         unknown == UnknownCompletion(Of)
         after == SkipReady([task EXCEPT ![t].state = IF unknown THEN "unknown" ELSE type], s, type # "cancelled") IN
     /\ task' = after
     /\ IF IdeasRunning(after, s) THEN KeepSession
        ELSE Outcome(s, IF \E u \in TasksOf(s) : after[u].state = "unknown" THEN "needs-attention"
                        ELSE IF type = "cancelled" THEN "cancelled"
                        ELSE IF Accepted(after, s) # {} THEN "partial" ELSE "failed")
  /\ Go(<<>>)
  /\ UNCHANGED <<run, exec, covering, inbox, loop, up, crashes>>
RunFailed == RunEndedShort("failed")
RunCancelled == RunEndedShort("cancelled")

-----------------------------------------------------------------------------
(***************************************************************************)
(* The owner.                                                              *)
(***************************************************************************)
Command(s, states) == Quiet /\ s \in Sessions /\ session[s].state \in states

\* Commands that look at the model catalog first await it, and are admitted with what they read still current.
Awaiting(do, s, t, i) ==
  [do |-> do, session |-> s, task |-> t, run |-> IF t = 0 THEN 0 ELSE task[t].run, attempt |-> i, fresh |-> TRUE]
Await(a) ==
  /\ a \notin asking /\ Cardinality(asking) < MaxAsking /\ asking' = asking \cup {a}
  /\ UNCHANGED <<saved, exec, covering, inbox, turn, loop, up, crashes>>
Admitting(a, do) == Quiet /\ a \in asking /\ a.do = do
Answered(a, s) == asking' = {b \in Stale(s) : b.task # a.task \/ b.session # a.session \/ b.do # a.do}
Room == Len(session) < MaxSessions /\ Len(task) < MaxTasks

Refuse(a) ==
  /\ Quiet /\ a \in asking
  /\ asking' = asking \ {a}
  /\ UNCHANGED <<saved, exec, covering, inbox, turn, loop, up, crashes>>

StartAsk == Quiet /\ Len(session) < MaxSessions /\ Await(Awaiting("start", 0, 0, 0))
\* An approved frame of the project is reused by a launch of the same kind.
FrameToReuse(c) ==
  LET framed == {s \in Sessions : session[s].frame = "approved"} IN
  framed # {} /\ LET last == CHOOSE s \in framed : \A u \in framed : u <= s IN
                 session[last].contract.purpose = c.purpose
Start(a) ==
  /\ Admitting(a, "start") /\ ProjectIdle /\ Room
  /\ \E c \in Contracts :
       /\ session' = Append(session, NewSession(c))
       /\ task' = Append(task, NewTask(Len(session) + 1,
                    IF c.framed /\ ~FrameToReuse(c) THEN "frame" ELSE IF c.purpose = "known" THEN "known" ELSE "research"))
  /\ asking' = asking \ {a}
  /\ Now(<<Step("dispatch", Len(task) + 1)>>)
  /\ UNCHANGED <<run, exec, covering, inbox, loop, up, crashes>>

\* Research on the approved frame, or a new draft of it.
Admit(s, new, frame) ==
  /\ Len(task) < MaxTasks
  /\ task' = Append(task, new)
  /\ session' = [session EXCEPT ![s].state = "running", ![s].frame = frame]
  /\ asking' = Stale(s)
  /\ Now(<<Step("dispatch", Len(task) + 1)>>)
  /\ UNCHANGED <<run, exec, covering, inbox, loop, up, crashes>>
ApproveFrame(s) ==
  /\ Command(s, {"waiting-for-review"}) /\ session[s].frame = "draft"
  /\ Admit(s, ResearchTask(s), "approved")
RegenerateFrame(s) ==
  /\ Command(s, {"waiting-for-review"}) /\ session[s].frame = "draft"
  /\ Admit(s, NewTask(s, "frame"), "draft")

GenerateAsk(s) ==
  /\ Command(s, {"waiting-for-review"}) /\ session[s].problems > 0
  /\ Await(Awaiting("generate", s, 0, 0))
Generate(a) ==
  /\ Admitting(a, "generate") /\ a.fresh /\ session[a.session].state = "waiting-for-review"
  /\ Len(task) + Len(AdmitIdeas(a.session)) <= MaxTasks
  /\ task' = task \o AdmitIdeas(a.session)
  /\ session' = [session EXCEPT ![a.session].state = "running"] /\ Answered(a, a.session)
  /\ Now(<<Step("next", a.session)>>)
  /\ UNCHANGED <<run, exec, covering, inbox, loop, up, crashes>>

\* extend-budget, select-version and edit-approved-frame change nothing here but the session's revision.
ReviseOnly(s) ==
  /\ Command(s, {"running", "pause-requested", "stop-requested", "paused", "waiting-for-review"}) /\ asking # Stale(s)
  /\ asking' = Stale(s)
  /\ UNCHANGED <<saved, exec, covering, inbox, turn, loop, up, crashes>>

Pause(s) ==
  /\ Command(s, {"running"}) /\ Put(s, "pause-requested")
  /\ UNCHANGED <<task, run, exec, covering, inbox, turn, loop, up, crashes>>

\* Several running tasks are ideas tasks that were running side by side.
Resumable(t) ==
  task[t].run # 0 /\ ~UnknownCompletion(task[t].run) /\ run[task[t].run].status \in {"running", "completed"}
RunsOf(s, statuses) ==
  LET linked == InOrder({t \in Running(s) : task[t].run # 0 /\ run[task[t].run].status \in statuses}) IN
  [i \in DOMAIN linked |-> task[linked[i]].run]
\* What a resume does once it is saved: the runs go on one after the other, completed ones are heard.
AfterResume(s) ==
  LET again == RunsOf(s, {"running"})
      over == RunsOf(s, {"completed"}) IN
  /\ Now(Each("resume", Lead(again)) \o Each("completed", over))
  /\ loop' = IF again = <<>> THEN <<>> ELSE Each("resume", Tail(again))
ResumeSaved(s) ==
  /\ Command(s, {"paused"}) /\ Running(s) # {}
  /\ \A t \in TasksOf(s) : task[t].state # "unknown"
  /\ \A t \in Running(s) : Resumable(t)
  /\ AfterResume(s)
  /\ Put(s, "running")
  /\ UNCHANGED <<task, run, exec, covering, inbox, up, crashes>>
ResumeNext(s) ==
  /\ Command(s, {"paused"}) /\ Running(s) = {}
  /\ \A t \in TasksOf(s) : task[t].state # "unknown"
  /\ LET ready == {t \in OfKind(s, Initial) : task[t].state = "ready"}
         coverage == {t \in OfKind(s, {"coverage"}) : task[t].state = "ready"}
         ideas == OfKind(s, {"ideas"}) # {}
         vibe == session[s].contract.mode = "vibe" IN
     \/ /\ ready # {} /\ Put(s, "running") /\ Now(<<Step("dispatch", First(ready))>>) /\ UNCHANGED task
     \/ /\ ready = {} /\ coverage # {} /\ Put(s, "running") /\ Now(<<Step("next", s)>>) /\ UNCHANGED task
     \/ /\ ready \cup coverage = {} /\ ~ideas /\ vibe /\ session[s].frame = "draft" /\ Len(task) < MaxTasks
        /\ task' = Append(task, ResearchTask(s))
        /\ session' = [session EXCEPT ![s].state = "running", ![s].frame = "approved"] /\ asking' = Stale(s)
        /\ Now(<<Step("dispatch", Len(task) + 1)>>)
     \/ /\ ready \cup coverage = {} /\ ~ideas /\ ~vibe
        /\ Put(s, "waiting-for-review") /\ UNCHANGED <<task, turn>>
     \/ /\ ready \cup coverage = {} /\ (ideas \/ (vibe /\ session[s].frame # "draft"))
        /\ Put(s, "running") /\ Now(<<Step(IF ideas THEN "next" ELSE "plan", s)>>) /\ UNCHANGED task
  /\ UNCHANGED <<run, exec, covering, inbox, loop, up, crashes>>

\* What a stop does once it is saved: the runs are cancelled, the first outside of the others' catch.
AfterStop(s) ==
  LET runs == RunsOf(s, RunStates) IN
  Now([i \in DOMAIN runs |-> Step(IF i = 1 THEN "cancelFirst" ELSE "cancelNext", runs[i])])
Stop(s) ==
  /\ Command(s, Busy \cup {"paused", "waiting-for-review"})
  /\ IF Running(s) = {}
     THEN /\ task' = SkipReady(task, s, FALSE) /\ Outcome(s, "cancelled")
          /\ UNCHANGED turn
     ELSE Put(s, "stop-requested") /\ AfterStop(s) /\ UNCHANGED task
  /\ UNCHANGED <<run, exec, covering, inbox, loop, up, crashes>>

\* retryTask: the failure is classified from one attempt of the task's run.
Retriable(t, i) ==
  LET c == run[task[t].run].calls[i]
      ambiguous == task[t].state = "unknown" \/ c.state \in {"sent", "lost"}
      transient == c.state \in {"never", "failed"}
      enforced == session[task[t].session].contract.enforced IN
  [retry |-> ambiguous \/ transient \/ c.state = "limit",
   recover |-> \/ task[t].kind = "assess" \/ ambiguous
               \/ ~enforced /\ (\/ task[t].kind = "research" /\ c.state = "limit"
                                \/ task[t].kind = "frame" /\ (transient \/ c.state = "limit"))]
MayRetry(t) ==
  /\ session[task[t].session].state = "finished"
  /\ task[t].kind \in Runnable /\ task[t].state \in {"failed", "unknown"} /\ task[t].run # 0
  /\ Len(run[task[t].run].calls) < MaxCalls
  /\ \A u \in DOMAIN task : task[u].retryOf # t
\* terminalAttempt: a lost request that no earlier retry acknowledged, or else the latest one.
Latest(r) ==
  LET open == Unresolved(r) \ run[r].acked
      from == IF open # {} THEN open ELSE DOMAIN run[r].calls IN
  {i \in from : \A j \in from : j <= i}
RetryAsk(t) ==
  /\ Quiet /\ t \in DOMAIN task /\ MayRetry(t)
  /\ \E i \in Latest(task[t].run) :
       LET r == task[t].run
           plan == Retriable(t, i) IN
       /\ plan.retry
       /\ IF plan.recover /\ Unresolved(r) \ (run[r].acked \cup {i}) # {}
          THEN /\ run' = [run EXCEPT ![r].acked = @ \cup {i}]   \* another lost result is not acknowledged yet
               /\ UNCHANGED <<session, task, exec, covering, inbox, turn, loop, asking, up, crashes>>
          ELSE Await(Awaiting(IF plan.recover THEN "recover" ELSE "retry", task[t].session, t, i))

\* recoverResearchTask: the session is reopened and the same run goes on.
Reopen(s, t, r, do) ==
  /\ task' = [task EXCEPT ![t].state = "running"]
  /\ session' = [session EXCEPT ![s].state = "running", ![s].outcome = "none"]
  /\ Now(<<Step(do, r)>>)
Recover(a) ==
  /\ Admitting(a, "recover") /\ a.fresh /\ ProjectIdle
  /\ session[a.session].outcome \in {"needs-attention", "failed", "partial"}
  /\ Reopen(a.session, a.task, a.run, "recover") /\ Answered(a, a.session)
  /\ run' = [run EXCEPT ![a.run].acked = @ \cup {a.attempt}]
  /\ UNCHANGED <<exec, covering, inbox, loop, up, crashes>>

\* A retry in a new session carries the ideas tasks that succeeded or were deferred.
Retry(a) ==
  /\ Admitting(a, "retry") /\ ProjectIdle /\ Room
  /\ LET t == a.task
         new == Len(session) + 1
         ideas == InOrder({u \in OfKind(a.session, {"ideas"}) :
                     u = t \/ task[u].state \in {"succeeded", "ready"} \/ task[u].deferred})
         Carried(u) == [NewTask(new, "ideas") EXCEPT !.problem = task[u].problem, !.round = task[u].round,
                          !.parallel = task[u].parallel, !.out = task[u].out,
                          !.state = IF task[u].state = "succeeded" THEN "succeeded" ELSE "ready",
                          !.retryOf = IF u = t THEN t ELSE 0] IN
     /\ session' = Append(session, [NewSession(session[a.session].contract)
                                      EXCEPT !.problems = IF task[t].kind = "ideas" THEN session[a.session].problems ELSE 0])
     /\ IF task[t].kind = "ideas"
        THEN /\ Len(task) + Len(ideas) <= MaxTasks
             /\ task' = task \o [i \in DOMAIN ideas |-> Carried(ideas[i])]
             /\ Now(<<Step("next", new)>>)
        ELSE /\ task' = Append(task, [NewTask(new, task[t].kind) EXCEPT !.retryOf = t])
             /\ Now(<<Step("dispatch", Len(task) + 1)>>)
  /\ asking' = asking \ {a}
  /\ UNCHANGED <<run, exec, covering, inbox, loop, up, crashes>>

\* reassessProblems: a discovery that found nothing is judged again, once.
ReassessAsk(t) ==
  /\ Quiet /\ t \in DOMAIN task /\ task[t].kind = "research" /\ task[t].state = "succeeded" /\ task[t].run # 0
  /\ LET s == task[t].session IN
     /\ session[s].state = "finished" /\ session[s].outcome = "no-qualifying-ideas"
     /\ ~session[s].contract.enforced /\ ~session[s].reassessed
     /\ run[task[t].run].status = "completed"
     /\ Await(Awaiting("reassess", s, t, 0))
Reassess(a) ==
  /\ Admitting(a, "reassess") /\ a.fresh /\ ProjectIdle /\ ~UnknownCompletion(a.run)
  /\ task' = [task EXCEPT ![a.task].state = "running"]
  /\ session' = [session EXCEPT ![a.session].state = "running", ![a.session].outcome = "none",
                                ![a.session].reassessed = TRUE]
  /\ Answered(a, a.session)
  /\ Now(<<Step("reassess", a.run)>>)
  /\ UNCHANGED <<run, exec, covering, inbox, loop, up, crashes>>

\* assessSavedCandidate: a candidate the discovery left out, in this session or, when it is over, in a new one.
AssessAsk(s) ==
  /\ Command(s, {"waiting-for-review", "finished"})
  /\ \E t \in OfKind(s, {"research"}) : task[t].state = "succeeded"
  /\ {t \in OfKind(s, {"assess"}) : task[t].state = "unknown" \/ (task[t].run # 0 /\ UnknownCompletion(task[t].run))} = {}
  /\ Await(Awaiting("assess", s, 0, 0))
Assess(a) ==
  /\ Admitting(a, "assess") /\ a.fresh /\ Len(task) < MaxTasks
  /\ session[a.session].state \in {"waiting-for-review", "finished"}
  /\ LET s == a.session IN
     IF session[s].state = "finished"
     THEN /\ Room /\ \A u \in Sessions : session[u].state = "finished"
          /\ session' = Append(session, [NewSession([session[s].contract EXCEPT !.mode = "babysit", !.purpose = "research-followup"])
                                           EXCEPT !.problems = session[s].problems])
          /\ task' = Append(task, NewTask(Len(session) + 1, "assess"))
          /\ asking' = asking \ {a}
     ELSE /\ task' = Append(task, NewTask(s, "assess"))
          /\ session' = [session EXCEPT ![s].state = "running"] /\ Answered(a, s)
  /\ Now(<<Step("dispatch", Len(task) + 1)>>)
  /\ UNCHANGED <<run, exec, covering, inbox, loop, up, crashes>>

-----------------------------------------------------------------------------
(***************************************************************************)
(* The process: the engine cancels what runs when it is closed, a crash    *)
(* loses memory at any transaction, and a restart decides from what was    *)
(* saved.                                                                  *)
(***************************************************************************)
CloseEngine ==
  /\ Quiet /\ \E r \in DOMAIN exec : exec[r] = "active"
  /\ Now(Each("cancelNext", InOrder({r \in DOMAIN run : exec[r] = "active"})))
  /\ UNCHANGED <<saved, exec, covering, inbox, loop, asking, up, crashes>>

Crash ==
  /\ up # "down" /\ crashes < MaxCrashes
  /\ up' = "down" /\ crashes' = crashes + 1
  /\ exec' = [r \in DOMAIN exec |-> "none"] /\ covering' = {}
  /\ inbox' = <<>> /\ turn' = <<>> /\ loop' = <<>> /\ asking' = {}
  /\ UNCHANGED saved

\* startBackend: interruptInFlight, the coverage attempts, and the runs that were under way.
Restart ==
  /\ up = "down" /\ up' = "starting"
  /\ run' = [r \in DOMAIN run |->
       [run[r] EXCEPT !.interrupted = @ \/ run[r].status = "running", !.calls =
          [i \in DOMAIN run[r].calls |->
             [run[r].calls[i] EXCEPT !.state = IF @ = "prepared" THEN "never" ELSE IF @ = "sent" THEN "lost" ELSE @]]]]
  /\ task' = [t \in DOMAIN task |-> [task[t] EXCEPT !.attempt = IF @ = "sent" THEN "lost" ELSE @]]
  /\ UNCHANGED <<session, memory, crashes>>

\* reconcileInterrupted for one session.
Unlinked(s) == {r \in DOMAIN run : run[r].session = s /\ Owner(r) = {}}
Reconcile(s) ==
  LET running == Running(s)
      coverage == {t \in running : task[t].kind = "coverage"}
      lone == {t \in running \ coverage : task[t].run = 0}
      found == Unlinked(s)
      links == Cardinality(found) = 1 /\ \A r \in found : run[r].status = "running"
      review == lone # {} /\ found # {} /\ ~links
      stop == Stopping(s)
      kept == [t \in DOMAIN task |->
                 IF t \in coverage /\ ~stop THEN [task[t] EXCEPT !.state = "ready"]
                 ELSE IF t \notin lone THEN task[t]
                 ELSE IF links /\ t = First(lone) THEN [task[t] EXCEPT !.run = CHOOSE r \in found : TRUE]
                 ELSE IF stop THEN task[t] ELSE [task[t] EXCEPT !.state = "ready"]]
      unknown == {t \in running : kept[t].state = "running" /\ kept[t].run # 0 /\ UnknownCompletion(kept[t].run)} IN
  /\ up = "starting" /\ s \in Sessions /\ session[s].state \in Busy
  /\ IF ~stop /\ \E t \in coverage : task[t].attempt \in {"failed", "lost"}
     THEN LET lost == task[First(coverage)].attempt = "lost" IN
          /\ task' = To(task, coverage, IF lost THEN "unknown" ELSE "failed")
          /\ Outcome(s, IF lost THEN "needs-attention" ELSE IF Accepted(task, s) # {} THEN "partial" ELSE "failed")
          /\ UNCHANGED run
     ELSE IF review \/ unknown # {}
     THEN /\ task' = To(kept, {t \in running : kept[t].state = "running"}, "unknown")
          /\ Outcome(s, "needs-attention")
          /\ UNCHANGED run
     ELSE IF stop
     THEN /\ task' = SkipReady(To(kept, running, "cancelled"), s, FALSE)
          /\ Outcome(s, "cancelled")
          /\ run' = [r \in DOMAIN run |->
               IF run[r].status = "running" /\ \E t \in running : kept[t].run = r
               THEN [run[r] EXCEPT !.status = "cancelled", !.interrupted = FALSE] ELSE run[r]]
     ELSE task' = kept /\ Put(s, "paused") /\ UNCHANGED run
  /\ UNCHANGED <<exec, covering, inbox, turn, loop, up, crashes>>
\* The runs of tasks that need attention no longer hold the project.
Ready ==
  /\ up = "starting" /\ \A s \in Sessions : session[s].state \notin Busy
  /\ up' = "up"
  /\ run' = [r \in DOMAIN run |->
       IF /\ run[r].status = "running" /\ run[r].interrupted
          /\ \E t \in Owner(r) : /\ task[t].state = "unknown" /\ session[task[t].session].state = "finished"
                                 /\ session[task[t].session].outcome = "needs-attention"
       THEN [run[r] EXCEPT !.status = "failed"] ELSE run[r]]
  /\ UNCHANGED <<session, task, memory, crashes>>

-----------------------------------------------------------------------------
Init ==
  /\ session = <<>> /\ task = <<>> /\ run = <<>>
  /\ exec = [r \in 1..MaxRuns |-> "none"] /\ covering = {}
  /\ inbox = <<>> /\ turn = <<>> /\ loop = <<>> /\ asking = {}
  /\ up = "up" /\ crashes = 0

Next ==
  \/ Dispatch \/ CreateRun \/ LinkRun \/ FailDispatch
  \/ PlanGeneration \/ DispatchNext \/ LoopStep \/ FinishCollection \/ Cover
  \/ \E t \in DOMAIN task : CoverSent(t)
  \/ \E t \in DOMAIN task : CoverAnswered(t)
  \/ \E t \in DOMAIN task : CoverSettled(t)
  \/ \E r \in DOMAIN run : Prepare(r)
  \/ \E r \in DOMAIN run : Send(r)
  \/ \E r \in DOMAIN run : CallEnds(r)
  \/ \E r \in DOMAIN run : RunEnds(r)
  \/ \E r \in DOMAIN run : StoppedCall(r)
  \/ \E r \in DOMAIN run : StoppedExit(r)
  \/ FailRun \/ CancelRun \/ ResumeRun
  \/ TakeEvent \/ MissingResult
  \/ CompleteFrame \/ CompleteDiscovery \/ CompleteGeneration \/ CompleteAssessment
  \/ RunFailed \/ RunCancelled
  \/ StartAsk
  \/ \E a \in asking : Refuse(a)
  \/ \E a \in asking : Start(a)
  \/ \E a \in asking : Generate(a)
  \/ \E a \in asking : Recover(a)
  \/ \E a \in asking : Retry(a)
  \/ \E a \in asking : Reassess(a)
  \/ \E a \in asking : Assess(a)
  \/ \E s \in Sessions : ApproveFrame(s)
  \/ \E s \in Sessions : RegenerateFrame(s)
  \/ \E s \in Sessions : GenerateAsk(s)
  \/ \E s \in Sessions : ReviseOnly(s)
  \/ \E s \in Sessions : Pause(s)
  \/ \E s \in Sessions : ResumeSaved(s)
  \/ \E s \in Sessions : ResumeNext(s)
  \/ \E s \in Sessions : Stop(s)
  \/ \E s \in Sessions : AssessAsk(s)
  \/ \E t \in DOMAIN task : RetryAsk(t)
  \/ \E t \in DOMAIN task : ReassessAsk(t)
  \/ CloseEngine \/ Crash \/ Restart
  \/ \E s \in Sessions : Reconcile(s)
  \/ Ready

Spec == Init /\ [][Next]_vars

-----------------------------------------------------------------------------
(***************************************************************************)
(* Properties.                                                             *)
(***************************************************************************)
SessionType ==
  [state : Busy \cup {"paused", "waiting-for-review", "finished"},
   outcome : {"none", "target-met", "partial", "no-qualifying-ideas", "failed", "cancelled", "needs-attention"},
   contract : Contract, problems : Nat, frame : {"none", "draft", "approved"}, reassessed : BOOLEAN]
\* A task names its session and, once it is linked, its run, out of those that there are.
TaskType(sessions, runs) ==
  [session : 1..sessions, kind : Runnable \cup {"known", "coverage"}, state : Settled \cup {"ready", "running"},
   run : 0..runs, problem : Nat, parallel : BOOLEAN, round : Nat, out : BOOLEAN, deferred : BOOLEAN,
   retryOf : Nat, attempt : {"none", "sent", "completed", "failed", "lost"}]
CallType ==
  [stage : 1..Stages,
   state : {"prepared", "sent", "done", "failed", "limit", "rejected", "lost", "never"}]
RunType(sessions) ==
  [session : 1..sessions, ideas : BOOLEAN, status : RunStates, interrupted : BOOLEAN,
   calls : Seq(CallType), acked : SUBSET Nat, result : Nat]
\* What a step of a turn is about: a session, a task or a run.  A run that was created is linked, and
\* one whose request failed is settled, before anything else of the turn.
SessionSteps == {"plan", "next", "collect"}
TaskSteps == {"dispatch", "create", "failDispatch", "cover"}
RunSteps == {"cancelFirst", "cancelNext", "resume", "recover", "reassess", "completed", "failed", "cancelled"}
StepType(sessions, tasks, runs) ==
  [do : SessionSteps, of : 1..sessions] \cup [do : TaskSteps, of : 1..tasks] \cup [do : RunSteps, of : 1..runs]
FirstType(tasks, runs) ==
  [do : {"link"}, of : {t \in 1..tasks : runs > 0}] \cup [do : {"fail"}, of : 1..runs]
TurnType(sessions, tasks, runs) ==
  {steps \in Seq(StepType(sessions, tasks, runs) \cup FirstType(tasks, runs)) :
     steps # <<>> => Tail(steps) \in Seq(StepType(sessions, tasks, runs))}
\* What a command that awaits the catalog is about: nothing yet, a session, or a task and its run.
AskType(sessions, tasks, runs) ==
  [do : {"start"}, session : {0}, task : {0}, run : {0}, attempt : Nat, fresh : BOOLEAN]
  \cup [do : {"generate", "assess"}, session : 1..sessions, task : {0}, run : {0}, attempt : Nat, fresh : BOOLEAN]
  \cup [do : {"recover", "retry", "reassess"}, session : 1..sessions, task : 1..tasks, run : 1..runs,
        attempt : Nat, fresh : BOOLEAN]
EventType(runs) == [run : 1..runs, type : {"completed", "failed", "cancelled"}]
MemoryType(sessions, tasks, runs) ==
  /\ exec \in [1..MaxRuns -> {"none", "active", "stopping"}]
  /\ covering \subseteq 1..tasks
  /\ inbox \in Seq(EventType(runs))
  /\ turn \in TurnType(sessions, tasks, runs) /\ loop \in Seq(StepType(sessions, tasks, runs))
  /\ asking \subseteq AskType(sessions, tasks, runs)
TypeOK ==
  /\ session \in Seq(SessionType)
  /\ task \in Seq(TaskType(Len(session), Len(run)))
  /\ run \in Seq(RunType(Len(session))) /\ Len(run) <= MaxRuns
  /\ MemoryType(Len(session), Len(task), Len(run))
  /\ up \in {"down", "starting", "up"} /\ crashes \in Nat

SettledUp == up = "up" /\ Quiet

\* A request whose answer may exist is sent again only after the owner or the engine acknowledged the lost one:
\* the engine never asks a provider twice behind the owner's back, whatever crashed, was stopped or retried.
AskedAgainOnlyIfTold ==
  \A r \in DOMAIN run : \A i, j \in DOMAIN run[r].calls :
    i < j /\ run[r].calls[i].stage = run[r].calls[j].stage /\ run[r].calls[j].state \notin {"prepared", "never"}
      => run[r].calls[i].state \in {"never", "failed", "limit", "rejected"} \/ i \in run[r].acked

\* A session that runs, or waits to pause, has a task under way in this process: nothing it waits for is lost.
BusyHasWork ==
  SettledUp => \A s \in Sessions : session[s].state \in {"running", "pause-requested"} =>
    \E t \in Running(s) : t \in covering \/ (task[t].run # 0 /\ exec[task[t].run] # "none")

\* When a session is over no task of it runs and nothing is asked in its name.
FinishedIsQuiet ==
  SettledUp => \A s \in Sessions : session[s].state = "finished" =>
    /\ Running(s) = {}
    /\ \A r \in DOMAIN run : run[r].session = s => exec[r] = "none" /\ run[r].status # "running"

\* What a session says of itself agrees with the work done in its name.
StateTellsWork == BusyHasWork /\ FinishedIsQuiet

\* A project has one session under way, and its runs overlap only as ideas runs of one session.
OneSession ==
  \A s, u \in Sessions : session[s].state # "finished" /\ session[u].state # "finished" => s = u
RunsApart ==
  \A r, q \in DOMAIN run : r # q /\ exec[r] # "none" /\ exec[q] # "none"
    => run[r].ideas /\ run[q].ideas /\ run[r].session = run[q].session
OneAtATime == OneSession /\ RunsApart

Lifecycle == INSTANCE SessionLifecycle WITH
  life <- [s \in Sessions |-> [state |-> session[s].state, outcome |-> session[s].outcome]],
  work <- [t \in DOMAIN task |-> [session |-> task[t].session, state |-> task[t].state]]

\* The sessions, through commands, run events, failures and restarts, keep to the promised lifecycle.
LifecycleSpec == Lifecycle!Spec

\* The process goes on with what it has begun: turns, events, the runs and their requests, and its start.
Progress ==
  \/ Dispatch \/ CreateRun \/ LinkRun \/ FailDispatch \/ PlanGeneration \/ DispatchNext \/ LoopStep
  \/ FinishCollection \/ Cover \/ FailRun \/ CancelRun \/ ResumeRun \/ TakeEvent \/ MissingResult
  \/ CompleteFrame \/ CompleteDiscovery \/ CompleteGeneration \/ CompleteAssessment \/ RunFailed \/ RunCancelled
  \/ \E t \in DOMAIN task : CoverSent(t) \/ CoverAnswered(t) \/ CoverSettled(t)
  \/ Restart \/ Ready \/ \E s \in Sessions : Reconcile(s)
Engine(r) == r \in DOMAIN run /\ (Prepare(r) \/ Send(r) \/ CallEnds(r) \/ RunEnds(r) \/ StoppedCall(r) \/ StoppedExit(r))
\* The event loop gives every answer a turn, however many commands come in between: hence strong fairness of a run.
FairSpec == Spec /\ WF_vars(Progress) /\ \A r \in 1..MaxRuns : SF_vars(Engine(r))

Is(s, states) == s \in Sessions /\ session[s].state \in states
\* A session under way comes to rest: it is over, waits for the owner, or is paused, whatever fails meanwhile.
EverySessionRests == \A s \in 1..MaxSessions :
  Is(s, {"running", "pause-requested"}) ~> Is(s, {"finished", "waiting-for-review", "paused"})
=============================================================================

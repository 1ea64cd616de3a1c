-------------------------- MODULE ProjectFollowUps --------------------------
(***************************************************************************)
(* What the owner may still ask of a project whose research is saved:      *)
(* requests for more research, answered one at a time and then applied to  *)
(* the findings or set aside (core/research-request-service.ts), and turns *)
(* of a conversation about an idea (core/idea-conversation-service.ts).    *)
(* Their sessions, tasks, reservations and snapshots are those of          *)
(* db/repositories/workflows.ts; commands and startup recovery come        *)
(* through core/workflow-coordinator.ts.                                   *)
(*                                                                         *)
(* A transaction is one step.  `todo` is what the process goes on to       *)
(* without giving way, in the same turn of the event loop: nothing else    *)
(* happens before it, except that the process may die.                     *)
(***************************************************************************)
EXTENDS Integers, FiniteSetsExt, SequencesExt

CONSTANTS
  Findings,     \* what the first research of the project finds
  Allowance,    \* model calls a request may use
  MaxSessions, MaxItems, MaxShots, MaxExtensions, MaxCrashes    \* bounds

\* A request resumed after a crash repeats its one call: an allowance of one would not cover it.
ASSUME FollowUpsAssumption ==
  /\ Allowance \in Nat /\ MaxCrashes \in Nat /\ Allowance > MaxCrashes
  /\ IsFiniteSet(Findings) /\ \A f \in Findings : f \notin Nat

VARIABLES session, item, shot, todo, phase, world
vars == <<session, item, shot, todo, phase, world>>

Nothing == <<"none", 0>>
Settled == {"succeeded", "failed", "cancelled", "skipped", "unknown"}
Open(s) == session[s].state # "finished"
Items(s) == {i \in DOMAIN item : item[i].session = s}
In(s, state) == {i \in Items(s) : item[i].state = state}
Running(i) == item[i].state = "running"
Active == {i \in DOMAIN item : item[i].run \in {"queued", "running"}}
Discovering == {s \in DOMAIN session : session[s].disc # "none"}
Targeted(i) == item[i].kind \in {"redo", "reevaluate"}
Snapshots(s) == {k \in DOMAIN shot : shot[k].session = s}
Applied(s) == UNION {shot[k].included : k \in Snapshots(s)}
First(set) == CHOOSE i \in set : \A j \in set : i <= j

NewSession(purpose, active) ==
  [purpose |-> purpose, state |-> "waiting-for-review", outcome |-> "none", active |-> active,
   limit |-> Allowance, disc |-> "none"]
NewItem(s, kind, target, base) ==
  [session |-> s, kind |-> kind, target |-> target, base |-> base, state |-> "ready", run |-> "none",
   exec |-> "none", call |-> "none", calls |-> 0, found |-> FALSE, kept |-> FALSE,
   budget |-> "reserved", cost |-> "none"]
NewShot(s, parent, findings, included) ==
  [session |-> s, parent |-> parent, findings |-> findings, included |-> included]

\* The research that came first is over, or awaits the owner's review, or is still under way.
Init ==
  /\ \E first \in {[NewSession("research", 1) EXCEPT !.state = "finished", !.outcome = "target-met"],
                   NewSession("research", 1),
                   [NewSession("research", 0) EXCEPT !.state = "running", !.disc = "going"]} :
       /\ session = <<first>>
       /\ shot = IF first.active = 1 THEN <<NewShot(1, 0, Findings, {})>> ELSE <<>>
  /\ item = <<>> /\ todo = Nothing /\ phase = "up" /\ world = [crashes |-> 0, extensions |-> 0]

-----------------------------------------------------------------------------
(* What transactions have in common. *)

\* getBudgetTotals: what a request holds of its session's allowance.
Units(i) == CASE item[i].budget = "spent" -> item[i].calls
              [] item[i].budget = "released" -> 0
              [] OTHER -> Allowance
Held(s) == MapThenSumSet(Units, Items(s))
Over(record, outcome) == [record EXCEPT !.state = "finished", !.outcome = outcome]

BudgetTakenAsKnown(i) == IF item[i].calls > 0 THEN "spent" ELSE "released"
\* settleRequestBudget
RequestBudget(i) ==
  IF item[i].call = "unknown" THEN "uncertain" ELSE IF item[i].calls > 0 THEN "spent" ELSE "released"
Ended(i, state) == [item[i] EXCEPT !.state = state, !.exec = "none", !.budget = RequestBudget(i)]

ReviewedWhenSettled(s, items) == \A i \in Items(s) : items[i].state \notin {"ready", "running", "unknown"}
\* followUpReviewComplete, once the tasks are `items`.
Reviewed(s, items) ==
  \A i \in Items(s) :
    /\ items[i].state \notin {"ready", "running", "unknown"}
    /\ items[i].state = "succeeded" => i \in Applied(s) \/ items[i].kept

OnwardPastStop(record, left, reviewed) ==
  IF left THEN record ELSE [record EXCEPT !.state = IF @ = "pause-requested" THEN "paused" ELSE "waiting-for-review"]
Onward(record, left, reviewed) ==
  CASE record.state = "stop-requested" -> Over(record, "cancelled")
    [] record.state = "pause-requested" -> [record EXCEPT !.state = "paused"]
    [] record.state = "running" /\ ~left ->
         IF record.purpose = "followup" /\ reviewed THEN Over(record, "partial")
                                                    ELSE [record EXCEPT !.state = "waiting-for-review"]
    [] OTHER -> record

\* settleSessionAfterRequest: the tasks become `items`, and the session goes on from them.
Settle(s, items) ==
  LET ready == {i \in Items(s) : items[i].state = "ready"} IN
  /\ item' = IF session[s].state # "stop-requested" THEN items
             ELSE [i \in DOMAIN items |->
                     IF i \in ready THEN [items[i] EXCEPT !.state = "cancelled", !.budget = "released"]
                                    ELSE items[i]]
  /\ session' = [session EXCEPT ![s] = Onward(@, ready # {}, Reviewed(s, items))]

\* The owner's commands and what comes from outside wait until the process gives way.
Gives == todo = Nothing /\ phase = "up"
Then(what, n) == todo' = <<what, n>>
Done == todo' = Nothing
Steady == UNCHANGED <<phase, world>>

-----------------------------------------------------------------------------
(* The owner's commands. *)

MayAsk(s, kind, target) ==
  /\ session[s].active = 0 => kind = "question"
  /\ IF kind = "question" THEN target = 0 ELSE target \in shot[session[s].active].findings
FitsAlone(s) == Allowance <= session[s].limit
Fits(s) == session[s].purpose = "research" \/ Held(s) + Allowance <= session[s].limit

\* admitRequest
Admit(s, kind, target) ==
  /\ Gives /\ session[s].purpose # "turn" /\ session[s].state \in {"running", "waiting-for-review"}
  /\ MayAsk(s, kind, target) /\ Fits(s) /\ Len(item) < MaxItems
  /\ item' = Append(item, NewItem(s, kind, target, session[s].active))
  /\ session' = [session EXCEPT ![s].state = "running"]
  /\ Then("dispatch", s) /\ UNCHANGED shot /\ Steady

ProjectIdle == (\A s \in DOMAIN session : ~Open(s)) /\ Active = {}

\* continueFinishedSession: the findings are copied into a session of their own.
Continue(s, kind, target) ==
  /\ Gives /\ ProjectIdle /\ session[s].active # 0 /\ MayAsk(s, kind, target)
  /\ Len(session) < MaxSessions /\ Len(item) < MaxItems /\ Len(shot) < MaxShots
  /\ LET new == Len(session) + 1
         copy == Len(shot) + 1 IN
     /\ session' = Append(session, [NewSession("followup", copy) EXCEPT !.state = "running"])
     /\ shot' = Append(shot, NewShot(new, session[s].active, shot[session[s].active].findings, {}))
     /\ item' = Append(item, NewItem(new, kind, target, copy))
     /\ Then("dispatch", new)
  /\ Steady

\* Ids are new in every snapshot: a targeted request fits the one it was asked about, and one per finding.
Fitting(s, set) ==
  /\ set # {} /\ set \subseteq Items(s)
  /\ \A i \in set : /\ item[i].state = "succeeded" /\ ~item[i].kept /\ item[i].found
                    /\ Targeted(i) => item[i].base = session[s].active
  /\ \A i, j \in set : Targeted(i) /\ Targeted(j) /\ i # j => item[i].target # item[j].target
\* A follow-up is applied once, when every request has settled and is either included or was set aside.
ReadyToApply(s, set) ==
  /\ \A i \in Items(s) : item[i].state \notin {"ready", "running", "unknown"} /\ i \notin Active
  /\ \A i \in In(s, "succeeded") : i \in set \cup Applied(s) \/ item[i].kept

\* materializeResearchSnapshot: every finding of the new snapshot is copied, with what it cites.
Carried(s, set) ==
  LET base == IF session[s].active = 0 THEN {} ELSE shot[session[s].active].findings
      replaced == {item[i].target : i \in {j \in set : Targeted(j)}} IN
  (base \ replaced) \cup set

\* applyResearch
Apply(s, set) ==
  /\ Gives /\ Open(s) /\ session[s].purpose # "turn" /\ Len(shot) < MaxShots
  /\ Fitting(s, set) /\ (session[s].purpose = "followup" => ReadyToApply(s, set))
  /\ shot' = Append(shot, NewShot(s, session[s].active, Carried(s, set), set))
  /\ session' = [session EXCEPT ![s] =
       LET applied == [@ EXCEPT !.active = Len(shot) + 1] IN
       IF @.purpose = "followup" THEN Over(applied, "partial") ELSE applied]
  /\ UNCHANGED <<item, todo>> /\ Steady

\* keepResearch
Keep(i) ==
  LET s == item[i].session
      items == [item EXCEPT ![i].kept = TRUE] IN
  /\ Gives /\ session[s].purpose # "turn" /\ session[s].state \in {"running", "waiting-for-review"}
  /\ item[i].state = "succeeded" /\ ~item[i].kept /\ i \notin Applied(s)
  /\ item' = items
  /\ session' = IF session[s].purpose = "followup" /\ Reviewed(s, items)
                THEN [session EXCEPT ![s] = Over(@, "partial")] ELSE session
  /\ UNCHANGED <<shot, todo>> /\ Steady

Extend(s) ==
  /\ Gives /\ Open(s) /\ session[s].purpose = "followup" /\ world.extensions < MaxExtensions
  /\ session' = [session EXCEPT ![s].limit = @ + Allowance]
  /\ world' = [world EXCEPT !.extensions = @ + 1]
  /\ UNCHANGED <<item, shot, todo, phase>>

Pause(s) ==
  /\ Gives /\ session[s].purpose # "turn" /\ session[s].state = "running"
  /\ session' = [session EXCEPT ![s].state = "pause-requested"]
  /\ UNCHANGED <<item, shot, todo>> /\ Steady

\* resumeRequest: a run that had ended is only heard.
Continued(i) == Then(IF item[i].run = "completed" THEN "event" ELSE "resume", i)
Resume(s) ==
  /\ Gives /\ session[s].state = "paused" /\ In(s, "unknown") = {}
  /\ \A i \in In(s, "running") : item[i].call # "unknown" /\ item[i].run \in {"completed", "queued", "running"}
  /\ LET running == In(s, "running")
         i == First(running) IN
     /\ session' = [session EXCEPT ![s].state =
          IF running = {} /\ session[s].disc = "none" /\ In(s, "ready") = {} THEN "waiting-for-review" ELSE "running",
                                   ![s].disc = IF @ = "saved" THEN "going" ELSE @]
     /\ IF running # {} THEN Continued(i)
        ELSE IF session[s].disc = "none" /\ In(s, "ready") # {} THEN Then("dispatch", s) ELSE Done
  /\ UNCHANGED <<item, shot>> /\ Steady

SkipReady(s) ==
  [i \in DOMAIN item |-> IF i \in In(s, "ready") THEN [item[i] EXCEPT !.state = "skipped", !.budget = "released"]
                                                 ELSE item[i]]
Stop(s) ==
  /\ Gives /\ Open(s) /\ session[s].purpose # "turn"
  /\ IF In(s, "running") = {} /\ session[s].disc = "none"
     THEN /\ item' = SkipReady(s) /\ session' = [session EXCEPT ![s] = Over(@, "cancelled")] /\ Done
     ELSE /\ session' = [session EXCEPT ![s].state = "stop-requested"] /\ UNCHANGED item
          /\ IF In(s, "running") = {} THEN Done ELSE Then("cancel", First(In(s, "running")))
  /\ UNCHANGED shot /\ Steady

-----------------------------------------------------------------------------
(* dispatchReady, and the work it starts. *)

BusyWithRequests(s) == In(s, "running") # {}
Busy(s) == Active # {} \/ Discovering # {} \/ In(s, "running") # {}

\* A question, or a finding to redo, has a run of the engine, which the engine has still to begin.
StartRun(i) ==
  item[i].kind # "reevaluate" /\ item' = [item EXCEPT ![i].state = "running", ![i].run = "queued"]
\* dispatchReevaluation copies the finding into a run of its own, under way from the start.
StartReevaluation(i) ==
  item[i].kind = "reevaluate" /\ item' = [item EXCEPT ![i].state = "running", ![i].run = "running", ![i].found = TRUE]
\* failUnstartedRequest
Unstarted(s) ==
  [i \in DOMAIN item |-> IF i \in In(s, "ready") THEN [item[i] EXCEPT !.state = "failed", !.budget = "released"]
                                                 ELSE item[i]]
Dispatch(s) ==
  /\ todo = <<"dispatch", s>> /\ UNCHANGED shot /\ Steady
  /\ IF \/ session[s].state \notin {"running", "waiting-for-review"}
        \/ Busy(s) \/ In(s, "ready") = {}
     THEN Done /\ UNCHANGED <<session, item>>
     ELSE IF session[s].state = "waiting-for-review"
     THEN session' = [session EXCEPT ![s].state = "running"] /\ UNCHANGED <<item, todo>>
     ELSE \/ LET i == First(In(s, "ready")) IN
             /\ StartRun(i) \/ StartReevaluation(i)
             /\ Then("launch", i) /\ UNCHANGED session
          \* Too little is left of the time a follow-up has: failUnstartedRequest for all that wait.
          \/ /\ session[s].purpose = "followup" /\ Done
             /\ Settle(s, Unstarted(s))

LaunchUnwatched(i, starts) ==
  /\ todo \in {<<"launch", i>>, <<"resume", i>>} /\ Done /\ UNCHANGED <<session, shot>> /\ Steady
  /\ item' = IF starts THEN [item EXCEPT ![i].run = "running", ![i].exec = "going"] ELSE item
\* engine.resumeRun or executeReevaluation begins; or it cannot, and failBeforeDispatch settles the request.
\* A question that was resumed hands nothing on when it fails so.
Launch(i, starts) ==
  /\ todo \in {<<"launch", i>>, <<"resume", i>>} /\ UNCHANGED shot /\ Steady
  /\ IF starts
     THEN item' = [item EXCEPT ![i].run = "running", ![i].exec = "going"] /\ Done /\ UNCHANGED session
     ELSE /\ Settle(item[i].session, [item EXCEPT ![i] = [Ended(i, "failed") EXCEPT !.run = "failed"]])
          /\ IF todo[1] = "resume" /\ item[i].kind # "reevaluate" THEN Done
             ELSE Then("dispatch", item[i].session)

\* cancelRequestRun and engine.cancelRun: work under way is told; a run nobody works on ends here.
Cancel(i) ==
  /\ todo = <<"cancel", i>> /\ UNCHANGED <<session, shot>> /\ Steady
  /\ IF item[i].exec # "none"
     THEN /\ item' = [item EXCEPT ![i].exec = "stopped",
                                  ![i].run = IF item[i].kind = "reevaluate" THEN @ ELSE "cancelled"]
          /\ Done
     ELSE IF i \in Active
     THEN item' = [item EXCEPT ![i].run = "cancelled"] /\ Then("event", i)
     ELSE UNCHANGED item /\ IF item[i].kind = "reevaluate" THEN Then("event", i) ELSE Done

\* A model call is saved, then sent, then answered.
Prepare(i) ==
  /\ Gives /\ item[i].exec = "going" /\ item[i].kind # "turn"
  /\ item[i].call \in {"none", "done"} /\ item[i].calls < Allowance
  /\ item' = [item EXCEPT ![i].call = "prepared"]
  /\ UNCHANGED <<session, shot, todo>> /\ Steady
Send(i) ==
  /\ Gives /\ item[i].exec = "going" /\ item[i].call = "prepared"
  /\ item' = [item EXCEPT ![i].call = "sent", ![i].calls = @ + 1]
  /\ UNCHANGED <<session, shot, todo>> /\ Steady
Answer(i) ==
  /\ Gives /\ item[i].exec # "none" /\ item[i].call = "sent" /\ item[i].kind \in {"question", "redo"}
  /\ item' = [item EXCEPT ![i].call = "done"]
  /\ UNCHANGED <<session, shot, todo>> /\ Steady

\* What the saved attempt says of a call that ends without a result.
Fallen(call) == CASE call = "prepared" -> {"none"} [] call = "sent" -> {"done", "unknown"} [] OTHER -> {call}

\* The engine ends a question's run, which it had cancelled already if it was told to stop.
RunEnds(i, how, call, found) ==
  /\ Gives /\ item[i].exec # "none" /\ item[i].kind \in {"question", "redo"}
  /\ how = "cancelled" <=> item[i].exec = "stopped"
  /\ how = "completed" => item[i].call = "done"
  /\ call \in Fallen(item[i].call) /\ (found => how = "completed")
  /\ item' = [item EXCEPT ![i].run = how, ![i].exec = "none", ![i].call = call, ![i].found = found]
  /\ Then("event", i) /\ UNCHANGED <<session, shot>> /\ Steady

\* handleRunEvent, reading the run's saved status; markUnknownRequest when a call may have been answered.
Event(i) ==
  /\ todo = <<"event", i>> /\ UNCHANGED shot /\ Steady
  /\ LET s == item[i].session IN
     IF ~Open(s) \/ ~Running(i) \/ i \in Active THEN Done /\ UNCHANGED <<session, item>>
     ELSE IF item[i].call = "unknown"
     THEN /\ item' = [item EXCEPT ![i] = Ended(i, "unknown")]
          /\ session' = [session EXCEPT ![s] = Over(@, "needs-attention")] /\ Done
     ELSE /\ Settle(s, [item EXCEPT ![i] =
               Ended(i, IF item[i].run = "completed" THEN "succeeded" ELSE item[i].run)])
          /\ Then("dispatch", s)

\* executeReevaluation: the new verdict, the request and its session are saved together.
Reevaluated(i) ==
  /\ Gives /\ item[i].exec = "going" /\ item[i].kind = "reevaluate" /\ item[i].call = "sent"
  /\ Settle(item[i].session, [item EXCEPT ![i] =
       [Ended(i, "succeeded") EXCEPT !.call = "done", !.run = "completed"]])
  /\ Then("dispatch", item[i].session) /\ UNCHANGED shot /\ Steady
\* Its attempt's end is saved before the request's.
ReevaluationFails(i, call) ==
  /\ Gives /\ item[i].exec # "none" /\ item[i].kind = "reevaluate" /\ call \in Fallen(item[i].call)
  /\ item' = [item EXCEPT ![i].call = call]
  /\ Then("close", i) /\ UNCHANGED <<session, shot>> /\ Steady
CloseReevaluation(i) ==
  /\ todo = <<"close", i>> /\ item[i].kind = "reevaluate"
  /\ LET s == item[i].session
         how == IF item[i].exec = "stopped" \/ session[s].state = "stop-requested" THEN "cancelled" ELSE "failed" IN
     /\ Settle(s, [item EXCEPT ![i] = [Ended(i, how) EXCEPT !.run = how]]) /\ Then("dispatch", s)
  /\ UNCHANGED shot /\ Steady

\* completeDiscovery, or the failure of the session's first research.
DiscoveryEnds(s, how) ==
  /\ Gives /\ session[s].disc # "none" /\ UNCHANGED world
  /\ session[s].disc = "saved" => session[s].state = "stop-requested" /\ how = "failed"
  /\ LET state == session[s].state
         stopped == state = "stop-requested"
         found == [session[s] EXCEPT !.disc = "none", !.active = IF how = "found" THEN Len(shot) + 1 ELSE 0] IN
     IF how = "failed"
     THEN /\ item' = SkipReady(s) /\ Done /\ UNCHANGED shot
          /\ \E outcome \in IF stopped THEN {"cancelled"} ELSE {"failed", "needs-attention"} :
               session' = [session EXCEPT ![s] = Over([@ EXCEPT !.disc = "none"], outcome)]
     ELSE /\ shot' = IF how = "found" THEN Append(shot, NewShot(s, 0, Findings, {})) ELSE shot
          /\ session' = [session EXCEPT ![s] =
               IF stopped THEN Over(found, "cancelled")
               ELSE [found EXCEPT !.state = IF state = "running" THEN "waiting-for-review" ELSE "paused"]]
          /\ (IF state = "running" THEN Then("dispatch", s) ELSE Done) /\ UNCHANGED item
  /\ UNCHANGED phase

-----------------------------------------------------------------------------
(* A turn of an idea's conversation: one session, one task, one request. *)

\* submitTurn
SubmitTurn ==
  /\ Gives /\ ProjectIdle /\ Len(session) < MaxSessions /\ Len(item) < MaxItems
  /\ session' = Append(session, [NewSession("turn", 0) EXCEPT !.state = "running"])
  /\ item' = Append(item, [NewItem(Len(session) + 1, "turn", 0, 0) EXCEPT
                             !.state = "running", !.run = "queued", !.call = "prepared"])
  /\ Then("open", Len(item) + 1) /\ UNCHANGED shot /\ Steady
OpenTurn(i) ==
  /\ todo = <<"open", i>> /\ Done
  /\ item' = [item EXCEPT ![i].exec = "going", ![i].cost = "reserved"]
  /\ UNCHANGED <<session, shot>> /\ Steady

\* The cost is settled before the turn.
TurnAnswered(i) ==
  /\ Gives /\ item[i].exec = "going" /\ item[i].kind = "turn" /\ item[i].call = "sent"
  /\ item' = [item EXCEPT ![i].call = "done", ![i].cost = "committed"]
  /\ Then("save", i) /\ UNCHANGED <<session, shot>> /\ Steady
TurnFails(i, call) ==
  /\ Gives /\ item[i].exec = "going" /\ item[i].kind = "turn" /\ call \in Fallen(item[i].call)
  /\ item' = [item EXCEPT ![i].call = call, ![i].cost = IF call = "none" THEN "released" ELSE "committed"]
  /\ Then("close", i) /\ UNCHANGED <<session, shot>> /\ Steady

TurnOver(i, record, outcome) ==
  /\ item' = [item EXCEPT ![i] = record]
  /\ session' = [session EXCEPT ![item[i].session] = Over(@, outcome)]
\* An answer that cannot be saved is put down as one whose completion is unknown.
SaveTurn(i, saved) ==
  /\ todo = <<"save", i>> /\ Done /\ UNCHANGED shot /\ Steady
  /\ IF saved THEN TurnOver(i, [Ended(i, "succeeded") EXCEPT !.run = "completed"], "target-met")
     ELSE TurnOver(i, [item[i] EXCEPT !.state = "unknown", !.exec = "none", !.budget = "uncertain",
                                      !.call = "unknown", !.run = "failed"], "needs-attention")
\* finishFailure
CloseTurn(i) ==
  /\ todo = <<"close", i>> /\ item[i].kind = "turn" /\ Done /\ UNCHANGED shot /\ Steady
  /\ LET unknown == item[i].call = "unknown" IN
     TurnOver(i, [Ended(i, IF unknown THEN "unknown" ELSE "failed") EXCEPT !.run = "failed"],
              IF unknown THEN "needs-attention" ELSE "failed")

-----------------------------------------------------------------------------
(* The process dies, and starts again. *)

Crash ==
  /\ world.crashes < MaxCrashes /\ world' = [world EXCEPT !.crashes = @ + 1]
  /\ phase' = "down" /\ Done
  /\ item' = [i \in DOMAIN item |-> [item[i] EXCEPT !.exec = "none"]]
  /\ session' = [s \in DOMAIN session |-> [session[s] EXCEPT !.disc = IF @ = "going" THEN "saved" ELSE @]]
  /\ UNCHANGED shot

\* interruptInFlight runs before anything else is settled.
Interrupt ==
  /\ phase = "down" /\ phase' = "turns"
  /\ item' = [i \in DOMAIN item |-> [item[i] EXCEPT
       !.call = CASE @ = "sent" -> "unknown" [] @ = "prepared" -> "none" [] OTHER -> @]]
  /\ UNCHANGED <<session, shot, todo, world>>

\* reconcileInterrupted of the conversations: by now no attempt reads "prepared", so every turn is unknown.
ReconcileTurns ==
  LET lost == {i \in DOMAIN item : item[i].kind = "turn" /\ Running(i)} IN
  /\ phase = "turns" /\ phase' = "sessions"
  /\ item' = [i \in DOMAIN item |-> IF i \notin lost THEN item[i] ELSE
       [item[i] EXCEPT !.state = "unknown", !.run = "failed", !.budget = "uncertain",
                       !.cost = IF @ = "reserved" THEN "committed" ELSE @]]
  /\ session' = [s \in DOMAIN session |->
       IF \E i \in lost : item[i].session = s THEN Over(session[s], "needs-attention") ELSE session[s]]
  /\ UNCHANGED <<shot, todo, world>>

\* reconcileInterrupted of the coordinator; a lost call of the first research shows as `lost`.
Reconcile(s, lost) ==
  LET running == In(s, "running")
      stopped == session[s].state = "stop-requested" IN
  /\ phase = "sessions" /\ session[s].state \in {"running", "pause-requested", "stop-requested"}
  /\ lost => session[s].disc = "saved"
  /\ IF lost \/ \E i \in running : item[i].call = "unknown"
     THEN /\ item' = [i \in DOMAIN item |-> IF i \notin running THEN item[i] ELSE
               [item[i] EXCEPT !.state = "unknown", !.budget = "uncertain",
                               !.run = IF i \in Active THEN "failed" ELSE @]]
          /\ session' = [session EXCEPT ![s] = Over([@ EXCEPT !.disc = "none"], "needs-attention")]
     ELSE IF stopped
     THEN /\ item' = [i \in DOMAIN item |-> IF i \notin running THEN SkipReady(s)[i] ELSE
               [item[i] EXCEPT !.state = "cancelled", !.budget = "spent",
                               !.run = IF i \in Active THEN "cancelled" ELSE @]]
          /\ session' = [session EXCEPT ![s] = Over([@ EXCEPT !.disc = "none"], "cancelled")]
     ELSE UNCHANGED item /\ session' = [session EXCEPT ![s].state = "paused"]
  /\ UNCHANGED <<shot, todo, phase, world>>
Ready ==
  /\ phase = "sessions" /\ phase' = "up"
  /\ \A s \in DOMAIN session : session[s].state \notin {"running", "pause-requested", "stop-requested"}
  /\ UNCHANGED <<session, item, shot, todo, world>>

Kinds == {<<"question", 0>>} \cup ({"redo", "reevaluate"} \X (Findings \cup DOMAIN item))
Next ==
  \/ \E s \in DOMAIN session, k \in Kinds : Admit(s, k[1], k[2])
  \/ \E s \in DOMAIN session, k \in Kinds : Continue(s, k[1], k[2])
  \/ \E s \in DOMAIN session : \E set \in SUBSET Items(s) : Apply(s, set)
  \/ \E i \in DOMAIN item : Keep(i)
  \/ \E s \in DOMAIN session : Extend(s)
  \/ \E s \in DOMAIN session : Pause(s)
  \/ \E s \in DOMAIN session : Resume(s)
  \/ \E s \in DOMAIN session : Stop(s)
  \/ \E s \in DOMAIN session : Dispatch(s)
  \/ \E i \in DOMAIN item, starts \in BOOLEAN : Launch(i, starts)
  \/ \E i \in DOMAIN item : Cancel(i)
  \/ \E i \in DOMAIN item : Prepare(i)
  \/ \E i \in DOMAIN item : Send(i)
  \/ \E i \in DOMAIN item : Answer(i)
  \/ \E i \in DOMAIN item, how \in {"completed", "failed", "cancelled"}, found \in BOOLEAN :
       \E call \in Fallen(item[i].call) : RunEnds(i, how, call, found)
  \/ \E i \in DOMAIN item : Event(i)
  \/ \E i \in DOMAIN item : Reevaluated(i)
  \/ \E i \in DOMAIN item : \E call \in Fallen(item[i].call) : ReevaluationFails(i, call)
  \/ \E i \in DOMAIN item : CloseReevaluation(i)
  \/ \E s \in DOMAIN session, how \in {"found", "empty", "failed"} : DiscoveryEnds(s, how)
  \/ SubmitTurn
  \/ \E i \in DOMAIN item : OpenTurn(i)
  \/ \E i \in DOMAIN item : TurnAnswered(i)
  \/ \E i \in DOMAIN item : \E call \in Fallen(item[i].call) : TurnFails(i, call)
  \/ \E i \in DOMAIN item, saved \in BOOLEAN : SaveTurn(i, saved)
  \/ \E i \in DOMAIN item : CloseTurn(i)
  \/ Crash
  \/ Interrupt
  \/ ReconcileTurns
  \/ \E s \in DOMAIN session, lost \in BOOLEAN : Reconcile(s, lost)
  \/ Ready
Spec == Init /\ [][Next]_vars

\* What the process does unasked: the rest of a turn of its event loop, its work, and recovery.
Continues ==
  \/ \E s \in DOMAIN session : Dispatch(s)
  \/ \E i \in DOMAIN item : \/ \E b \in BOOLEAN : Launch(i, b) \/ SaveTurn(i, b)
                            \/ Cancel(i) \/ Event(i) \/ CloseReevaluation(i) \/ OpenTurn(i) \/ CloseTurn(i)
  \/ Interrupt \/ ReconcileTurns \/ Ready \/ \E s \in DOMAIN session, lost \in BOOLEAN : Reconcile(s, lost)
Works ==
  \/ \E i \in DOMAIN item :
       \/ Prepare(i) \/ Send(i) \/ Answer(i) \/ Reevaluated(i) \/ TurnAnswered(i)
       \/ \E call \in Fallen(item[i].call) : \/ ReevaluationFails(i, call) \/ TurnFails(i, call)
            \/ \E how \in {"completed", "failed", "cancelled"}, found \in BOOLEAN : RunEnds(i, how, call, found)
  \/ \E s \in DOMAIN session, how \in {"found", "empty", "failed"} : DiscoveryEnds(s, how)
\* Model calls have a deadline and the engine ends its runs; commands in between cannot keep an answer away.
FairSpec == Spec /\ WF_vars(Continues) /\ SF_vars(Works)

-----------------------------------------------------------------------------
TypeOK ==
  /\ phase \in {"up", "down", "turns", "sessions"} /\ todo[2] \in Nat
  /\ \A s \in DOMAIN session : session[s].active \in 0..Len(shot) /\ (Open(s) <=> session[s].outcome = "none")
  /\ \A i \in DOMAIN item : item[i].session \in DOMAIN session /\ item[i].calls \in 0..Allowance

\* The reservation of a request says what became of it: held until it is settled, given back only
\* if nothing was sent, kept whole where an answer may be lost, and otherwise what was really used;
\* and what is settled leaves no cost reserved, and no run that would keep its project busy.
BudgetsTell == \A i \in DOMAIN item :
  /\ item[i].state \in {"ready", "running"} <=> item[i].budget = "reserved"
  /\ item[i].budget = "released" => item[i].calls = 0
  /\ item[i].call = "unknown" => item[i].budget \in {"reserved", "uncertain"}
  /\ item[i].budget = "uncertain" => item[i].call = "unknown" \/ item[i].kind = "turn"
  /\ item[i].state = "succeeded" => item[i].run = "completed"
  /\ item[i].state \in Settled => i \notin Active /\ item[i].cost # "reserved"

\* The books of requests, sessions and turns agree with each other after every step.
Accounted == TypeOK /\ BudgetsTell

\* What a follow-up sends stays within the allowance the owner gave it, extensions included.
WithinAllowance == \A s \in DOMAIN session :
  session[s].purpose = "followup" => MapThenSumSet(LAMBDA i : item[i].calls, Items(s)) <= session[s].limit

\* At most one request, turn or first research of a project is under way, whatever is queued behind it.
OneAtATime ==
  Cardinality({i \in DOMAIN item : Running(i)}) + Cardinality(Discovering)
    + Cardinality({i \in Active : ~Running(i)}) <= 1

\* Every answer a follow-up paid for is reviewed before it ends with a result: applied or set aside,
\* never both; and a finding that was redone is replaced once.
ReviewedOnce == \A s \in DOMAIN session :
  /\ session[s].purpose = "followup" /\ session[s].outcome = "partial" =>
       \A i \in Items(s) : /\ item[i].state \in {"succeeded", "failed", "cancelled", "skipped"}
                           /\ item[i].state = "succeeded" => i \in Applied(s) \/ item[i].kept
  /\ \A i \in Applied(s) : ~item[i].kept
  /\ \A i \in Applied(s) : Targeted(i) => Cardinality({k \in Snapshots(s) : i \in shot[k].included}) = 1

\* Sessions and tasks keep what the workflow promises of them.
L == INSTANCE SessionLifecycle WITH
  life <- [s \in DOMAIN session |-> [state |-> session[s].state, outcome |-> session[s].outcome]],
  work <- [i \in DOMAIN item |-> [session |-> item[i].session, state |-> item[i].state]]
LifecycleSteps == [][L!Next]_L!vars

\* A request or a turn under way is settled, or its session is paused, whatever fails meanwhile.
RequestsEnd == \A i \in 1..MaxItems :
  (i \in DOMAIN item /\ Running(i) /\ session[item[i].session].state \in {"running", "pause-requested"})
    ~> (i \in DOMAIN item /\ (~Running(i) \/ session[item[i].session].state = "paused"))
=============================================================================

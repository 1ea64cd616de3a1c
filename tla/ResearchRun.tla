----------------------------- MODULE ResearchRun -----------------------------
(***************************************************************************)
(* One run of framed research: the areas of an approved frame are scanned, *)
(* the promising ones chosen and investigated side by side, every paid     *)
(* call within the allowance of its task, and what each call brought is    *)
(* saved so that the run goes on after a failure or a restart without      *)
(* paying twice (core/research-engine.ts, core/workflow-execution.ts,      *)
(* core/discovery.ts, db/repositories/cost-ledger.ts).  Its task and its   *)
(* session are settled by core/workflow-coordinator.ts.                    *)
(*                                                                         *)
(* A call to a provider takes time; what follows an answer happens in one  *)
(* turn of the event loop, transaction by transaction, and only the end of *)
(* the process comes between (`Gives`).  Ask is a step of its own because  *)
(* the identity of a call is prepared asynchronously.  `kept` and `office` *)
(* are in the database; `lane`, `live` and `event` go with the process.    *)
(***************************************************************************)
EXTENDS Integers, FiniteSetsExt, SequencesExt

CONSTANTS
  Frame,          \* the areas, in the order of the frame
  AreaCalls,      \* the calls the investigation of each area comes to make, in their order
  Root,           \* stands for the run where an area is expected
  Reserved,       \* units a task has for model calls and for searches
  Limit,          \* what the session may spend of each
  Target,         \* kept problems after which the run looks no further
  Slots,          \* model calls that may be under way at once
  Restarts,       \* how often a call whose stream dropped is started over
  MaxTroubles,    \* bound on what goes wrong: faults, stops, crashes and retries together
  MaxCrashes      \* bound on the crashes among them

Kinds == {"model", "search"}
Areas == ToSet(Frame)

ASSUME ResearchAssumption ==
  /\ Root \notin Areas /\ IsInjective(Frame)
  /\ \A a \in Areas :
       /\ AreaCalls[a] \in Seq({"search", "read", "candidates", "verdict", "check", "gap"})
       /\ IsInjective(AreaCalls[a]) /\ "check" \in ToSet(AreaCalls[a])
  /\ \A k \in Kinds : Reserved[k] \in Nat \ {0} /\ Limit[k] \in Nat /\ Reserved[k] <= Limit[k]

VARIABLES asks, saved, area, run, task, session, units, lane, live, event, world
kept == <<asks, saved, area, run>>
office == <<task, session, units>>
vars == <<kept, office, lane, live, event, world>>

Requests == UNION {{a} \X ({"scan"} \cup ToSet(AreaCalls[a])) : a \in Areas} \cup {<<Root, "rank">>}
KindOf(r) == IF r[2] = "search" THEN "search" ELSE "model"
Of(k) == {r \in Requests : KindOf(r) = k}
Lanes == Areas \cup {Root}
Index(a) == CHOOSE n \in DOMAIN Frame : Frame[n] = a
Earlier(set) == CHOOSE a \in set : \A b \in set : Index(a) <= Index(b)

NoLane == [at |-> "over", n |-> 0, fault |-> "none", drops |-> 0, slow |-> FALSE, end |-> "none"]
LaneAt(n) == [NoLane EXCEPT !.at = "on", !.n = n]

\* What begin() finds unfinished; a run whose discovery is complete has only to say so.
Begun(areas) == [l \in Lanes |-> IF l # Root /\ areas[l].scan = "none" THEN LaneAt(0) ELSE NoLane]
Live(done) == [phase |-> IF done THEN "end" ELSE "scan", aborted |-> FALSE, failed |-> FALSE]
NotLive == [phase |-> "off", aborted |-> FALSE, failed |-> FALSE]

Init ==
  /\ asks = [r \in Requests |-> <<>>] /\ saved = {}
  /\ area = [a \in Areas |-> [scan |-> "none", found |-> "none", problems |-> "none", outcome |-> "none",
                              allowance |-> [k \in Kinds |-> 0]]]
  /\ run = [state |-> "running", made |-> FALSE, chosen |-> {}, done |-> FALSE, left |-> {}]
  /\ task = "running" /\ session = "running"
  /\ units = [k \in Kinds |-> [reserved |-> Reserved[k], spent |-> 0, uncertain |-> 0, used |-> 0, sent |-> 0]]
  /\ lane = Begun(area) /\ live = Live(FALSE) /\ event = "none"
  /\ world = [troubles |-> 0, crashes |-> 0]

-----------------------------------------------------------------------------
(* The calls of the run, and what the database says of them. *)

NewAsk == [st |-> "prepared", cost |-> "none", acked |-> FALSE]
Newest(r) == asks[r][Len(asks[r])]
WithNewest(r, st, cost) == [asks EXCEPT ![r][Len(asks[r])] = [@ EXCEPT !.st = st, !.cost = cost]]

\* unresolvedAttemptIds, unknownSearchAttempts: its answer may exist and is not saved.
UnresolvedSent(all, r, i) ==   \* mutant: an answer lost with the process is forgotten
  IF KindOf(r) = "search" THEN all[r][i].st = "sent" /\ r \notin saved
  ELSE /\ all[r][i].st \in {"sent", "dropped"}
       /\ \A j \in i + 1..Len(all[r]) : all[r][j].st # "completed"
Unresolved(all, r, i) ==
  IF KindOf(r) = "search" THEN all[r][i].st = "sent" /\ r \notin saved
  ELSE /\ all[r][i].st \in {"sent", "lost", "dropped"}
       /\ \A j \in i + 1..Len(all[r]) : all[r][j].st # "completed"
Unknown(all) ==
  {c \in UNION {{r} \X DOMAIN all[r] : r \in Requests} : Unresolved(all, c[1], c[2]) /\ ~all[c[1]][c[2]].acked}
Acknowledged(all, calls) ==
  [r \in Requests |-> [i \in DOMAIN all[r] |->
     IF <<r, i>> \in calls THEN [all[r][i] EXCEPT !.acked = TRUE] ELSE all[r][i]]]

\* workflowSearchWasDispatched; of model calls, those whose attempt says that they left.
Dispatched(r) == {i \in DOMAIN asks[r] : asks[r][i].st \notin {"prepared", "never"}}
Rows(r) == {i \in DOMAIN asks[r] : asks[r][i].cost # "none"}
AtLeast0(n) == IF n < 0 THEN 0 ELSE n

\* countProviderAttempts, searchAttemptCount
Sent(k) == MapThenSumSet(LAMBDA r : Cardinality(Dispatched(r)), Of(k))
\* remainingWorkflowTaskCalls counts searches by their rows in the cost ledger.
Used(k) == IF k = "model" THEN Sent(k) ELSE MapThenSumSet(LAMBDA r : Cardinality(Rows(r)), Of(k))
Remaining(k) == units[k].reserved - AtLeast0(Used(k) - units[k].used)

\* investigatorBudgetAvailable: a row that was settled as uncertain no longer names its area.
Charged(r) == {i \in DOMAIN asks[r] : asks[r][i].cost \in {"reserved", "committed"}}
AreaRequests(a, k) == {r \in Of(k) : r[1] = a /\ r[2] # "scan"}
UsedBy(a, k) ==
  MapThenSumSet(LAMBDA r : Cardinality(IF k = "model" THEN Dispatched(r) ELSE Charged(r)), AreaRequests(a, k))
Affordable(r) ==
  /\ Remaining(KindOf(r)) >= 1
  /\ live.phase = "areas" => UsedBy(r[1], KindOf(r)) < area[r[1]].allowance[KindOf(r)]

\* settleUncertain: what is still reserved is charged, unless the search was never sent.
Charge(r, ask) ==
  IF ask.cost # "reserved" THEN ask
  ELSE [ask EXCEPT !.cost = IF KindOf(r) = "search" /\ ask.st = "prepared" THEN "none" ELSE "uncertain"]
SettleUncertain(all) == [r \in Requests |-> [i \in DOMAIN all[r] |-> Charge(r, all[r][i])]]

-----------------------------------------------------------------------------
(* A lane: one scan, the ranking, or the investigation of one area. *)

Call(l) == IF l = Root THEN <<Root, "rank">>
           ELSE <<l, IF lane[l].n = 0 THEN "scan" ELSE AreaCalls[l][lane[l].n]>>
Busy(l) == \/ lane[l].at \in {"on", "reserved", "keep", "failed", "judged", "close"}
           \/ lane[l].at = "queued" /\ KindOf(Call(l)) = "search"
AllOver == \A l \in Lanes : lane[l].at = "over"
Gives == IF live.phase = "off" THEN event = "none"
         ELSE live.phase # "end" /\ ~AllOver /\ \A l \in Lanes : ~Busy(l)

Move(l, at) == lane' = [lane EXCEPT ![l].at = at]
End(l, end) == lane' = [lane EXCEPT ![l].at = "over", ![l].end = end]
Pass(l) == lane' = [lane EXCEPT ![l] = LaneAt(lane[l].n + 1)]

Place(a, c) == CHOOSE n \in DOMAIN AreaCalls[a] : AreaCalls[a][n] = c
\* settledProblems: what an area found counts once it is checked, or when its outcome is saved.
Found == {a \in run.chosen : area[a].found = "kept" /\ (area[a].outcome # "none" \/ lane[a].n > Place(a, "check"))}
\* researchTargetProgress
TargetMet == Cardinality(Found) >= Target

\* discoverProblems asks for candidates, then for a verdict on each that its sources may speak against.
ProblemCalls == {"candidates", "verdict"}
\* Its saved result stands for its calls; without a verdict there is nothing to check.
Passed(a, c) ==
  \/ <<a, c>> \in saved
  \/ area[a].problems # "none" /\ c \in ProblemCalls
  \/ area[a].problems = "short" /\ c = "check"

\* Saved steps are replayed without a call.
Go(l) ==
  /\ lane[l].at = "on"
  /\ IF live.phase # "areas"
     THEN IF Call(l) \in saved THEN End(l, "done") ELSE Move(l, "ask")
     ELSE LET open == {n \in lane[l].n..Len(AreaCalls[l]) : ~Passed(l, AreaCalls[l][n])} IN
          lane' = [lane EXCEPT ![l].n = IF open = {} THEN Len(AreaCalls[l]) + 1 ELSE Min(open),
                               ![l].at = IF area[l].problems = "failed" THEN "judged"
                                         ELSE IF open = {} THEN "close" ELSE "ask"]
  /\ UNCHANGED <<kept, office, live, event, world>>

Optional(r) == r[2] \in {"check", "gap"}
Recoverable(r) == KindOf(r) = "model" /\ \E i \in DOMAIN asks[r] : asks[r][i].st = "completed"
Blocked(r) == \E i \in DOMAIN asks[r] : <<r, i>> \in Unknown(asks)

\* BUDGET_TOO_SMALL, by the call that meets it.  A check or a gap round is left out when it is seen in time.
Refuse(l, intime) ==
  LET c == Call(l)[2] IN
  IF Optional(Call(l)) /\ intime
  THEN Pass(l) /\ area' = IF c = "check" THEN [area EXCEPT ![l].found = "kept"] ELSE area
  ELSE IF c = "verdict" THEN Pass(l) /\ area' = [area EXCEPT ![l].problems = "short"]
  ELSE End(l, IF c \in {"search", "read", "candidates"} THEN "budget" ELSE "app") /\ UNCHANGED area

\* discoveryClient and WorkflowExecution.search, up to the row of the attempt.
Ask(l) ==
  LET r == Call(l) IN
  /\ Gives /\ lane[l].at = "ask"
  /\ CASE live.aborted -> End(l, "app") /\ UNCHANGED <<asks, area>>
       [] ~live.aborted /\ Optional(r) /\ TargetMet -> Pass(l) /\ UNCHANGED <<asks, area>>
       [] ~live.aborted /\ Optional(r) /\ ~TargetMet /\ ~Affordable(r) -> Refuse(l, TRUE) /\ UNCHANGED asks
       [] OTHER ->
            IF Blocked(r) THEN End(l, "app") /\ UNCHANGED <<asks, area>>
            ELSE IF Recoverable(r) THEN Move(l, "keep") /\ UNCHANGED <<asks, area>>
            ELSE IF ~Affordable(r) THEN Refuse(l, TRUE) /\ UNCHANGED asks
            ELSE Move(l, "queued") /\ asks' = [asks EXCEPT ![r] = Append(@, NewAsk)] /\ UNCHANGED area
  /\ UNCHANGED <<saved, run, office, live, event, world>>

ActiveOrFailed ==   \* mutant: a call that failed keeps its slot
  {l \in Lanes : lane[l].at \in {"sent", "over"} /\ KindOf(Call(l)) = "model"
                /\ (lane[l].at = "over" => lane[l].fault # "none")}
Active == {l \in Lanes : lane[l].at = "sent" /\ KindOf(Call(l)) = "model"}
\* A model call gets its turn: what it may spend is looked at again before it leaves.
Reserve(l) ==
  LET r == Call(l) IN
  /\ lane[l].at = "queued" /\ (KindOf(r) = "search" \/ (Gives /\ Cardinality(Active) < Slots))
  /\ IF Affordable(r) THEN Move(l, "reserved") /\ asks' = WithNewest(r, "prepared", "reserved") /\ UNCHANGED area
                      ELSE Refuse(l, FALSE) /\ asks' = WithNewest(r, "never", "none")
  /\ UNCHANGED <<saved, run, office, live, event, world>>
Send(l) ==
  /\ lane[l].at = "reserved" /\ Move(l, "sent")
  /\ asks' = WithNewest(Call(l), "sent", "reserved")
  /\ UNCHANGED <<saved, area, run, office, live, event, world>>

\* The cost of a search is settled before its results are saved, a model's answer is saved before its stage.
Answer(l) ==
  LET r == Call(l) IN
  /\ Gives /\ lane[l].at = "sent" /\ Move(l, "keep")
  /\ IF KindOf(r) = "search" THEN ~live.aborted /\ asks' = WithNewest(r, "sent", "committed")
                             ELSE asks' = WithNewest(r, "completed", "committed")
  /\ UNCHANGED <<saved, area, run, office, live, event, world>>
\* persistCompletedStage, or the results of a search with its receipt.
KeepStage(r) == KindOf(r) = "model" /\ UNCHANGED asks
KeepResults(r) == KindOf(r) = "search" /\ asks' = WithNewest(r, "completed", Newest(r).cost)
\* The check of a candidate keeps it or drops it.
Record(l, found) ==
  IF Call(l)[2] = "check" THEN area' = [area EXCEPT ![l].found = found] ELSE found = "kept" /\ UNCHANGED area
Keep(l, found) ==
  LET r == Call(l) IN
  /\ lane[l].at = "keep" /\ saved' = saved \cup {r}
  /\ (KeepStage(r) \/ KeepResults(r)) /\ Record(l, found)
  /\ IF live.phase = "areas" THEN Pass(l) ELSE End(l, "done")
  /\ UNCHANGED <<run, office, live, event, world>>

ModelFailures == {"timeout", "dropped", "bad"}
\* The call ends without a result; the terminal state of the attempt is saved at once.
Fault(l, how) ==
  LET r == Call(l) IN
  /\ Gives /\ lane[l].at = "sent" /\ ~live.aborted
  /\ world.troubles < MaxTroubles
  /\ KindOf(r) = "search" => how = "failed"
  /\ asks' = WithNewest(r, how, "committed")
  /\ lane' = [lane EXCEPT ![l].at = "failed", ![l].fault = how]
  /\ world' = [world EXCEPT !.troubles = @ + 1]
  /\ UNCHANGED <<saved, area, run, office, live, event>>

\* A call that lost its stream, or took too long, is asked once more; what it lost is let go.
Asked(l) == lane[l].slow /\ Call(l)[2] # "read"
CanRestart(l) == lane[l].fault = "dropped" /\ lane[l].drops < Restarts /\ ~Asked(l)
CanRepeat(l) == lane[l].fault = "timeout" /\ ~lane[l].slow /\ (lane[l].drops = 0 \/ Call(l)[2] = "read")
AskAgain(l) ==
  LET r == Call(l) IN
  \/ /\ CanRestart(l) /\ lane' = [lane EXCEPT ![l].at = "pause", ![l].drops = @ + 1]
     /\ asks' = Acknowledged(asks, {<<r, Len(asks[r])>>}) /\ UNCHANGED <<saved, area>>
  \/ /\ CanRepeat(l)
     /\ lane' = [lane EXCEPT ![l].at = "ask", ![l].slow = TRUE, ![l].drops = IF r[2] = "read" THEN 0 ELSE @]
     /\ UNCHANGED <<asks, saved, area>>
\* Sources that could not be read are split, or left out in the end.
LeaveOut(l) ==
  /\ Call(l)[2] = "read" /\ lane[l].fault \in {"bad", "timeout"}
  /\ Pass(l) /\ saved' = saved \cup {Call(l)} /\ UNCHANGED <<asks, area>>
\* A verdict that failed keeps what was found as not assessed; any other call ends its lane.
GiveUp(l) ==
  LET how == lane[l].fault IN
  /\ UNCHANGED <<asks, saved>>
  /\ IF Call(l)[2] = "verdict" /\ how \in ModelFailures
     THEN Move(l, "judged") /\ area' = [area EXCEPT ![l].problems = "failed"]
     ELSE End(l, IF how \in ModelFailures THEN "model" ELSE "app") /\ UNCHANGED area
\* A read that cannot be taken apart any further may also fail for good, unless it took too long.
Handle(l) ==
  /\ lane[l].at = "failed" /\ UNCHANGED <<run, office, live, event, world>>
  /\ \/ AskAgain(l)
     \/ ~CanRepeat(l) /\ LeaveOut(l)
     \/ /\ ~CanRestart(l) /\ ~CanRepeat(l) /\ ~(lane[l].fault = "timeout" /\ Call(l)[2] = "read")
        /\ GiveUp(l)
Restart(l) ==
  /\ Gives /\ lane[l].at = "pause" /\ Move(l, "ask")
  /\ UNCHANGED <<kept, office, live, event, world>>

-----------------------------------------------------------------------------
(* executeFramedDiscovery: from the scans to the outcome of the run. *)

\* acknowledgeDroppedCalls: the area is over, and nobody waits for what it lost.
LostBy(a) == {c \in Unknown(asks) : c[1][1] = a /\ KindOf(c[1]) = "model"}
DroppedInScan(a) ==   \* mutant: only a scan lets go of what it lost
  live.phase = "scan" /\ lane[a].fault = "dropped" /\ LostBy(a) # {}
Dropped(a) == lane[a].fault = "dropped" /\ LostBy(a) # {}
AcknowledgeDroppedCalls(a) == asks' = Acknowledged(asks, LostBy(a)) /\ UNCHANGED <<area, lane>>

\* An initial verdict failed: the area ends here, with what its receipts say.
CloseJudged(a) ==
  /\ lane[a].at = "judged"
  /\ IF Dropped(a) THEN AcknowledgeDroppedCalls(a)
     ELSE End(a, "done") /\ area' = [area EXCEPT ![a].outcome = "partial"] /\ UNCHANGED asks
  /\ UNCHANGED <<saved, run, office, live, event, world>>
CloseArea(a) ==
  /\ lane[a].at = "close" /\ End(a, "done")
  /\ area' = [area EXCEPT ![a].outcome = "whole"]
  /\ UNCHANGED <<asks, saved, run, office, live, event, world>>

\* Scans are saved in the order of the frame, once all have ended.
SaveScan ==
  LET left == {b \in Areas : area[b].scan = "none"}
      a == Earlier(left) IN
  /\ live.phase = "scan" /\ AllOver /\ left # {} /\ UNCHANGED <<saved, run, office, event, world>>
  /\ CASE (live.aborted \/ lane[a].end = "app") ->
            live' = [live EXCEPT !.phase = "end", !.failed = TRUE] /\ UNCHANGED <<asks, area, lane>>
       [] ~live.aborted /\ lane[a].end = "model" /\ Dropped(a) -> AcknowledgeDroppedCalls(a) /\ UNCHANGED live
       [] OTHER ->
            /\ area' = [area EXCEPT ![a].scan = IF lane[a].end = "done" THEN "saved" ELSE "failed"]
            /\ UNCHANGED <<asks, lane, live>>
Scanned == {a \in Areas : area[a].scan = "saved"}

\* rankScannedAreas is asked once, unless no scan came through.
StartRanking ==
  /\ live.phase = "scan" /\ AllOver /\ (\A a \in Areas : area[a].scan # "none") /\ ~run.made
  /\ IF Scanned = {} THEN run' = [run EXCEPT !.made = TRUE] /\ UNCHANGED <<live, lane>>
     ELSE live' = [live EXCEPT !.phase = "rank"] /\ lane' = [lane EXCEPT ![Root] = LaneAt(0)] /\ UNCHANGED run
  /\ UNCHANGED <<asks, saved, area, office, event, world>>
Choose(chosen) ==
  /\ live.phase = "rank" /\ AllOver /\ ~run.made /\ chosen # {} /\ chosen \subseteq Scanned
  /\ IF lane[Root].end = "done" THEN run' = [run EXCEPT !.made = TRUE, !.chosen = chosen] /\ UNCHANGED live
     ELSE live' = [live EXCEPT !.phase = "end", !.failed = TRUE] /\ UNCHANGED run
  /\ UNCHANGED <<asks, saved, area, lane, office, event, world>>

\* The areas start side by side; what is left for the task is shared out among them once.
StartAreas ==
  LET open == {a \in run.chosen : area[a].outcome = "none"}
      started == IF TargetMet THEN {} ELSE open
      share == [k \in Kinds |-> AtLeast0(Remaining(k)) \div Cardinality(run.chosen)] IN
  /\ live.phase \in {"scan", "rank"} /\ AllOver /\ (\A a \in Areas : area[a].scan # "none") /\ run.made
  /\ live' = [live EXCEPT !.phase = "areas"]
  /\ lane' = [l \in Lanes |-> IF l \in started THEN LaneAt(1)
                              ELSE [NoLane EXCEPT !.end = IF l \in open THEN "target" ELSE "done"]]
  /\ area' = [a \in Areas |-> IF a \in started /\ area[a].allowance = [k \in Kinds |-> 0]
                              THEN [area[a] EXCEPT !.allowance = share] ELSE area[a]]
  /\ UNCHANGED <<asks, saved, run, office, event, world>>

\* A failed model call ends only its own area; anything else fails the run, once all areas are settled.
Spares(a) == lane[a].end = "model" /\ ~live.aborted
SettleArea ==
  LET failing == {b \in run.chosen : Spares(b) /\ area[b].outcome = "none"}
      a == Earlier(failing) IN
  /\ live.phase = "areas" /\ AllOver /\ failing # {}
  /\ IF Dropped(a) THEN AcknowledgeDroppedCalls(a)
     ELSE area' = [area EXCEPT ![a].outcome = "partial"] /\ UNCHANGED <<asks, lane>>
  /\ UNCHANGED <<saved, run, office, live, event, world>>
Close ==
  LET failed == \E a \in run.chosen : lane[a].end = "app" \/ (lane[a].end = "model" /\ live.aborted) IN
  /\ live.phase = "areas" /\ AllOver /\ \A a \in run.chosen : Spares(a) => area[a].outcome # "none"
  /\ run' = IF failed THEN run
            ELSE [run EXCEPT !.done = TRUE, !.left = {a \in run.chosen : area[a].outcome = "none"}]
  /\ live' = [live EXCEPT !.phase = "end", !.failed = failed]
  /\ UNCHANGED <<asks, saved, area, lane, office, event, world>>

\* execute, fail and the end of cancelRunInternal
Finish ==
  /\ live.phase = "end" /\ live' = NotLive /\ lane' = [l \in Lanes |-> NoLane]
  /\ asks' = IF live.aborted \/ live.failed THEN SettleUncertain(asks) ELSE asks
  /\ event' = CASE live.aborted -> "cancelled" [] live.failed /\ ~live.aborted -> "failed" [] OTHER -> "completed"
  /\ run' = IF live.aborted THEN run ELSE [run EXCEPT !.state = event']
  /\ UNCHANGED <<saved, area, office, world>>

-----------------------------------------------------------------------------
(* The coordinator: the task, the session and what they spent. *)

Larger(m, n) == IF m > n THEN m ELSE n
\* settleTaskBudget
Spent ==
  [k \in Kinds |-> [units[k] EXCEPT !.reserved = 0,
     !.spent = @ + AtLeast0(Sent(k) - Larger(units[k].spent, units[k].sent))]]
UncertainLeft ==   \* mutant: what may have been spent is only released
  [k \in Kinds |-> [units[k] EXCEPT !.reserved = 0]]
Uncertain == [k \in Kinds |-> [units[k] EXCEPT !.reserved = 0, !.uncertain = @ + units[k].reserved]]
Over(state, settled) == task' = state /\ session' = "over" /\ units' = settled

Hear ==
  /\ event # "none" /\ event' = "none"
  /\ IF event = "completed" THEN Over("succeeded", Spent)
     ELSE IF Unknown(asks) # {} THEN Over("unknown", Uncertain)
     ELSE Over(event, Spent)
  /\ UNCHANGED <<kept, lane, live, world>>

\* cancelRun: what waits is withdrawn, a search gives up at once, a model call sent is told to stop.
Stop ==
  /\ world.troubles < MaxTroubles /\ world' = [world EXCEPT !.troubles = @ + 1]
  /\ Gives /\ task = "running" /\ run.state = "running" /\ session \in {"running", "paused"}
  /\ session' = "stop-requested" /\ run' = [run EXCEPT !.state = "cancelled"]
  /\ LET On(l, at) == lane[l].at = at
         Withdrawn(r) == \E l \in Lanes : On(l, "queued") /\ Call(l) = r
         GivenUp(r) == KindOf(r) = "search" /\ \E l \in Lanes : On(l, "sent") /\ Call(l) = r
         stopped == [r \in Requests |-> CASE Withdrawn(r) -> WithNewest(r, "never", "none")[r]
                                          [] GivenUp(r) -> WithNewest(r, "cancelled", "reserved")[r]
                                          [] OTHER -> asks[r]] IN
     IF live.phase = "off" THEN asks' = SettleUncertain(asks) /\ event' = "cancelled" /\ UNCHANGED <<lane, live>>
     ELSE /\ asks' = stopped /\ live' = [live EXCEPT !.aborted = TRUE] /\ UNCHANGED event
          /\ lane' = [l \in Lanes |-> IF On(l, "queued") \/ On(l, "pause")
                                      THEN [lane[l] EXCEPT !.at = "over", !.end = "app"] ELSE lane[l]]
  /\ UNCHANGED <<saved, area, task, units>>
\* The native call confirms that it was cancelled, or nobody can say how it ended.
Unwind(l, how) ==
  LET r == Call(l) IN
  /\ Gives /\ live.aborted /\ lane[l].at = "sent" /\ End(l, "app")
  /\ asks' = IF KindOf(r) = "search" THEN asks ELSE WithNewest(r, how, "committed")
  /\ UNCHANGED <<saved, area, run, office, live, event, world>>

\* The process dies and starts again: interruptInFlight, then reconcileInterrupted of the coordinator.
Crash ==
  LET lost == [r \in Requests |-> [i \in DOMAIN asks[r] |->
                 IF KindOf(r) = "search" THEN asks[r][i]
                 ELSE [asks[r][i] EXCEPT !.st = CASE @ = "prepared" -> "never" [] @ = "sent" -> "lost" [] OTHER -> @]]] IN
  /\ world.troubles < MaxTroubles /\ world.crashes < MaxCrashes
  /\ task = "running" /\ session \in {"running", "stop-requested"}
  /\ world' = [troubles |-> world.troubles + 1, crashes |-> world.crashes + 1]
  /\ asks' = lost /\ lane' = [l \in Lanes |-> NoLane] /\ live' = NotLive /\ event' = "none"
  /\ IF Unknown(lost) # {}
     THEN Over("unknown", Uncertain) /\ run' = [run EXCEPT !.state = IF @ = "running" THEN "failed" ELSE @]
     ELSE /\ UNCHANGED run
          /\ IF session = "stop-requested" THEN Over("cancelled", Spent)
             ELSE session' = "paused" /\ UNCHANGED <<task, units>>
  /\ UNCHANGED <<saved, area>>

Begin == lane' = Begun(area) /\ live' = Live(run.done)
\* The owner resumes; a run that had completed only has to be heard, one that had failed is refused.
Resume ==
  /\ session = "paused" /\ task = "running" /\ Unknown(asks) = {} /\ session' = "running"
  /\ \/ run.state = "running" /\ asks' = SettleUncertain(asks) /\ Begin /\ UNCHANGED event
     \/ run.state = "completed" /\ event' = "completed" /\ UNCHANGED <<asks, lane, live>>
  /\ UNCHANGED <<saved, area, run, task, units, world>>

\* recoverResearchTask: each command lets one lost answer go; the last of them starts the run again
\* on a reservation of its own.
Available(k) == Limit[k] - units[k].spent - units[k].uncertain
Retry(c) ==
  LET all == Acknowledged(asks, {c}) IN
  /\ session = "over" /\ task = "unknown" /\ c \in Unknown(asks) /\ world.troubles < MaxTroubles
  /\ world' = [world EXCEPT !.troubles = @ + 1]
  /\ IF Unknown(all) # {} THEN asks' = all /\ UNCHANGED <<run, office, lane, live>>
     ELSE /\ \A k \in Kinds : Available(k) >= Reserved[k]
          /\ task' = "running" /\ session' = "running" /\ run' = [run EXCEPT !.state = "running"]
          /\ units' = [k \in Kinds |-> [units[k] EXCEPT !.reserved = Reserved[k], !.used = Used(k), !.sent = Sent(k)]]
          /\ asks' = SettleUncertain(all) /\ Begin
  /\ UNCHANGED <<saved, area, event>>

-----------------------------------------------------------------------------
Next ==
  \/ \E l \in Lanes : Go(l)
  \/ \E l \in Lanes : Ask(l)
  \/ \E l \in Lanes : Reserve(l)
  \/ \E l \in Lanes : Send(l)
  \/ \E l \in Lanes : Answer(l)
  \/ \E l \in Lanes, found \in {"kept", "dropped"} : Keep(l, found)
  \/ \E l \in Lanes, how \in ModelFailures \cup {"failed"} : Fault(l, how)
  \/ \E l \in Lanes : Handle(l)
  \/ \E l \in Lanes : Restart(l)
  \/ \E a \in Areas : CloseJudged(a)
  \/ \E a \in Areas : CloseArea(a)
  \/ SaveScan
  \/ StartRanking
  \/ \E chosen \in SUBSET Areas : Choose(chosen)
  \/ StartAreas
  \/ SettleArea
  \/ Close
  \/ Finish
  \/ Hear
  \/ Stop
  \/ \E l \in Lanes, how \in {"cancelled", "lost"} : Unwind(l, how)
  \/ Crash
  \/ Resume
  \/ \E c \in Unknown(asks) : Retry(c)
Spec == Init /\ [][Next]_vars

\* What the process does unasked; a model call has a time limit, or its connection says how it ended.
Works ==
  \/ \E l \in Lanes : \/ Go(l) \/ Ask(l) \/ Reserve(l) \/ Send(l) \/ Answer(l) \/ Handle(l) \/ Restart(l)
                      \/ \E found \in {"kept", "dropped"} : Keep(l, found)
                      \/ \E how \in ModelFailures \cup {"failed"} : Fault(l, how)
                      \/ \E how \in {"cancelled", "lost"} : Unwind(l, how)
  \/ \E a \in Areas : CloseJudged(a) \/ CloseArea(a)
  \/ SaveScan \/ StartRanking \/ (\E chosen \in SUBSET Areas : Choose(chosen))
  \/ StartAreas \/ SettleArea \/ Close \/ Finish \/ Hear
FairSpec == Spec /\ WF_vars(Works)

-----------------------------------------------------------------------------
TypeOK ==
  /\ saved \subseteq Requests /\ run.chosen \subseteq Areas /\ run.left \subseteq run.chosen
  /\ task \in {"running", "succeeded", "failed", "cancelled", "unknown"}
  /\ session \in {"running", "paused", "stop-requested", "over"}
  /\ \A k \in Kinds : units[k].reserved \in {0, Reserved[k]} /\ (task = "running" <=> units[k].reserved # 0)

\* A question is asked again only if its earlier call ended without an answer that could still be
\* used, or if the owner, or the end of a dropped stream, let that answer go.
MayBeAskedAgain(ask) == ask.acked \/ ask.st \in {"prepared", "never", "failed", "timeout", "bad", "cancelled"}
AskedOnce == \A r \in Requests : \A i \in 1..Len(asks[r]) - 1 : MayBeAskedAgain(asks[r][i])

\* Whatever happened between a call and its settlement, the session is charged for every call that
\* left, within what it may spend; a run does not outspend its task, nor an area its share; and a
\* task that succeeded or failed leaves nothing reserved in the cost ledger.
CallsAccounted ==
  /\ \A k \in Kinds :
       /\ task # "running" => units[k].spent + units[k].uncertain >= Sent(k)
       /\ units[k].spent <= Sent(k)
       /\ units[k].spent + units[k].uncertain + units[k].reserved <= Limit[k]
       /\ task = "running" => Sent(k) - units[k].sent <= units[k].reserved
       /\ run.made => \A a \in Areas : UsedBy(a, "model") <= area[a].allowance["model"]
  /\ task \in {"succeeded", "failed"} =>
       \A r \in Requests : \A i \in DOMAIN asks[r] : asks[r][i].cost # "reserved"

\* When discovery is complete no area was forgotten: each was scanned, or its scan failed; each that
\* was chosen has its outcome, or was left because its share was used up or the target was met.  No
\* call is in doubt, and an area that is whole had every call before its check answered.
UsedUp(a) == \E k \in Kinds : UsedBy(a, k) >= area[a].allowance[k]
WholeIsAnswered == \A a \in Areas : area[a].outcome = "whole" =>
  \A n \in 1..Place(a, "check") - 1 : <<a, AreaCalls[a][n]>> \in saved \/ area[a].problems = "short"
DoneIsWhole == run.done =>
  /\ \A a \in Areas : area[a].scan # "none"
  /\ \A a \in run.chosen \ run.left : area[a].outcome # "none"
  /\ \A a \in run.left : UsedUp(a) \/ Cardinality({b \in run.chosen : area[b].found = "kept"}) >= Target
  /\ Unknown(asks) = {} /\ WholeIsAnswered

\* A run that goes on ends, its task is settled and its session is over, unless the process dies.
RunEnds == (session \in {"running", "stop-requested"}) ~> (session \in {"paused", "over"})
=============================================================================

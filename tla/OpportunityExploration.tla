----------------------- MODULE OpportunityExploration -----------------------
(***************************************************************************)
(* A project's exploration toward a number of business families, the       *)
(* review of its saved ideas, and the owner's edits of what they produced  *)
(* (core/research-engine.ts, core/opportunity-review.ts,                   *)
(* core/opportunity-planning.ts and the repositories they save in).  One   *)
(* task at a time works for a project.  Between two of its waits it runs   *)
(* alone: `task.at` names the wait, or the transaction it is about to make *)
(* (a crash can come in between, nothing else can).                        *)
(***************************************************************************)
EXTENDS OpportunityFamilies

CONSTANTS
  Saved,            \* the ideas a project starts with
  Target, BatchSize, MaxRaw, MaxRounds, Calls, Searches,   \* the exploration's configuration
  PerReview,        \* candidates compared in one batch of a review
  Chunks,           \* calls such a batch is compared in
  Offers,           \* the lists of gaps a coverage map may answer with
  MaxLaunches, MaxEvents    \* bounds of the owner's launches, and of what else happens

ASSUME ExplorationAssumption ==
  /\ Saved \subseteq Option /\ PerReview \in Nat \ {0} /\ Chunks \in Nat \ {0}
  /\ Calls \in Nat /\ Searches \in Nat /\ Offers \subseteq Seq([early : BOOLEAN, search : BOOLEAN])

VARIABLES option, origin, expl, gap, batch, attempt, review, task, world, asked

ideas == <<option, origin>>
stages == <<gap, batch, attempt>>
vars == <<fvars, ideas, expl, stages, review, task, world, asked>>

Terminal == {"target-reached", "useful-partial", "budget-exhausted", "paused", "failed"}
NoTask == [kind |-> "none", stop |-> "no", at |-> "idle", ack |-> FALSE, key |-> <<"none", 0>>,
           then |-> <<"none", 0>>, todo |-> <<>>, view |-> <<>>, chunk |-> 0, fix |-> 0, call |-> 0,
           error |-> "none"]
NoKey == NoTask.key
NoResult == [gaps |-> <<>>, ok |-> TRUE, count |-> 0]

Init ==
  /\ FamiliesInit
  /\ option = Saved /\ origin = {}
  /\ expl = [status |-> "none", calls |-> 0, searches |-> 0, raw |-> 0, rounds |-> 0,
             maxCalls |-> Calls, maxSearches |-> Searches]
  /\ gap = <<>> /\ batch = <<>> /\ attempt = <<>> /\ review = <<>>
  /\ task = NoTask
  /\ world = [late |-> FALSE, launches |-> 0, events |-> 0, session |-> {}]
  /\ asked = <<>>

-----------------------------------------------------------------------------
Accepted == Cardinality(Counted(decision, family))
Unreviewed == option \ Decided(decision)
\* find: a target that later edits took away shows as a useful part.
Status == IF expl.status = "target-reached" /\ Accepted < Target THEN "useful-partial"
                                                                   ELSE expl.status
Quiet == task.at \in {"idle", "away", "identity", "asking", "answering"}
EditingAllowed == task.kind = "none" /\ \A i \in DOMAIN review : review[i].status # "sent"

Launched(kind, ack) == [NoTask EXCEPT !.kind = kind, !.ack = ack,
                                      !.at = IF kind = "experiment" THEN "away" ELSE "begin"]
At(place) == [task EXCEPT !.at = place]
Throw(error) == [task EXCEPT !.at = "throw", !.error = error]

\* syncOpportunityInventory: ideas that came from elsewhere count as raw candidates.
Synced(e) == [e EXCEPT !.raw = @ + Cardinality(option \ origin)]

\* markInterruptedDispatchesUnknown
Interrupted(as) == [k \in DOMAIN as |-> IF as[k].status = "sent"
                                        THEN [as[k] EXCEPT !.status = "unknown"] ELSE as[k]]
\* recoverInFlightReviewCalls
Recovered(calls) ==
  [i \in DOMAIN calls |->
     [calls[i] EXCEPT !.status = CASE @ = "prepared" -> "never"
                                   [] @ = "sent" -> "unknown"
                                   [] OTHER -> @]]
\* acknowledgeAmbiguousReviewCalls
Acknowledged(calls) ==
  [i \in DOMAIN calls |-> [calls[i] EXCEPT !.status = IF @ = "unknown" THEN "acknowledged" ELSE @]]

(***************************************************************************)
(* The review: reviewSavedOpportunities.  A call's request is its batch of *)
(* candidates, what they are compared with, the chunk of it, and for the   *)
(* one correction the call it corrects.                                    *)
(***************************************************************************)
View ==
  [shown |-> {<<f, family[f].rep, Members(decision, f)>> : f \in Shown(decision, family)},
   unsure |-> Unresolved(decision)]

Place(o, set) == Cardinality({x \in set : x <= o})
BatchesCutShort(set) ==
  [i \in 1..(Cardinality(set) \div PerReview) |->
     {o \in set : Place(o, set) \in (i - 1) * PerReview + 1..i * PerReview}]
Batches(set) ==
  [i \in 1..((Cardinality(set) + PerReview - 1) \div PerReview) |->
     {o \in set : Place(o, set) \in (i - 1) * PerReview + 1..i * PerReview}]

\* Up to the first wait: calls left over are settled, and one that may have been answered
\* stops the review unless the owner allows it again.
OpenReview(then) ==
  LET calls == IF task.ack THEN Acknowledged(Recovered(review)) ELSE Recovered(review) IN
  /\ review' = calls
  /\ task' = IF \E i \in DOMAIN calls : calls[i].status = "unknown"
             THEN [Throw("other") EXCEPT !.then = then]
             ELSE [At("next") EXCEPT !.then = then, !.todo = Batches(Unreviewed)]

Begin ==
  /\ task.at = "begin"
  /\ OpenReview(IF task.kind = "review" THEN <<"saved", 0>> ELSE <<"open", 0>>)
  /\ UNCHANGED <<fvars, ideas, expl, stages, world, asked>>

StartBatch ==
  /\ task.at = "next" /\ task.todo # <<>>
  /\ task' = IF task.stop # "no" THEN Throw("other")
             ELSE [At("identity") EXCEPT !.view = View, !.chunk = 1, !.fix = 0]
  /\ UNCHANGED <<fvars, ideas, expl, stages, review, world, asked>>

Request == [candidates |-> Head(task.todo), view |-> task.view, chunk |-> task.chunk, fix |-> task.fix]
ChunkDone == IF task.chunk < Chunks THEN [At("identity") EXCEPT !.chunk = @ + 1, !.fix = 0]
                                    ELSE At("apply")
Budgeted == task.kind = "exploration"
NoBudget == world.late \/ expl.calls >= expl.maxCalls

ReusableFirstOnly ==
  {i \in DOMAIN review : review[i].status = "completed" /\ review[i].request = Request}
\* reusableReviewCall and reusableSuccessfulCorrection
Reusable ==
  {i \in DOMAIN review :
     /\ review[i].status = "completed"
     /\ \/ review[i].request = Request
        \/ /\ task.fix = 0 /\ review[i].request.fix # 0
           /\ review[review[i].request.fix].request = Request
           /\ review[review[i].request.fix].status = "invalid"}

\* prepareReviewCall, which may fail before it is sent.
NewCall(status) == Append(review, [request |-> Request, status |-> status])
\* markReviewDispatched, completeReviewCall, failReviewCall
CallIs(status) == [review EXCEPT ![task.call].status = status]

\* dispatchOrReuse, after the runtime's identity is known.
AskReview ==
  /\ task.at = "identity"
  /\ IF Reusable # {} THEN task' = ChunkDone /\ UNCHANGED review
     ELSE /\ review' = NewCall(IF Budgeted /\ (task.stop # "no" \/ NoBudget) THEN "failed" ELSE "prepared")
          /\ task' = IF Budgeted /\ task.stop # "no" THEN Throw("other")
                     ELSE IF Budgeted /\ NoBudget THEN Throw("budget")
                     ELSE [At("asking") EXCEPT !.call = Len(review) + 1]
  /\ UNCHANGED <<fvars, ideas, expl, stages, world, asked>>

\* completeReviewCall, and the one correction of an answer that does not cover its request.
AnswerReview(valid) ==
  /\ task.at = "answering" /\ task.call # 0 /\ task.stop = "no"
  /\ review' = CallIs(IF valid THEN "completed" ELSE "invalid")
  /\ LET t == IF valid THEN ChunkDone
              ELSE IF task.fix = 0 THEN [At("identity") EXCEPT !.fix = task.call] ELSE Throw("other") IN
     task' = [t EXCEPT !.call = 0]
  /\ UNCHANGED <<fvars, ideas, expl, stages, world, asked>>

\* resolveBatchDecisions: a candidate joins a family it was compared with, or one founded
\* for an earlier candidate, or founds its own, or stays undecided.
Choices ==
  LET cs == Head(task.todo)
      shown == {f \in DOMAIN family : \E v \in task.view.shown : v[1] = f}
      all == {Unsure, Own} \cup {Joins(f) : f \in 1..(Len(family) + Cardinality(cs))} IN
  {as \in [cs -> all] :
     \A o \in cs, f \in 1..(Len(family) + Cardinality(cs)) : as[o] = Joins(f) =>
        f \in shown \/ \E x \in Founders(as) : x < o /\ f = Len(family) + Rank(as, x)}

Apply ==
  /\ task.at = "apply"
  /\ \E as \in Choices : MayApply(as) /\ ApplyDecisions(as)
  /\ task' = [At("next") EXCEPT !.todo = Tail(@)]
  /\ UNCHANGED <<ideas, expl, stages, review, world, asked>>

ApplyFails ==
  /\ task.at = "apply"
  /\ \E as \in Choices : ~MayApply(as)
  /\ task' = Throw("other")
  /\ UNCHANGED <<fvars, ideas, expl, stages, review, world, asked>>

\* The review returns: to the owner, to the start of an exploration, or to a batch of one.
ReviewDone ==
  /\ task.at = "next" /\ task.todo = <<>>
  /\ CASE task.then[1] = "saved" -> task' = NoTask /\ UNCHANGED <<origin, expl, gap, batch>>
       [] task.then[1] = "open" ->
            /\ expl' = Synced(expl) /\ origin' = option
            /\ task' = IF task.stop = "no" THEN [At("plan") EXCEPT !.then = NoKey] ELSE Throw("other")
            /\ UNCHANGED <<gap, batch>>
       [] task.then[1] = "batch" ->
            LET b == task.then[2] IN
            /\ expl' = [Synced(expl) EXCEPT !.status = "mapping-coverage"] /\ origin' = option
            /\ batch' = [batch EXCEPT ![b].status = "reviewed", ![b].after = Accepted]
            /\ gap' = [gap EXCEPT ![batch[b].gap].status = "covered"]
            /\ task' = [At("plan") EXCEPT !.then = NoKey]
  /\ UNCHANGED <<fvars, option, attempt, review, world, asked>>

(***************************************************************************)
(* A request: counted against the budget, recorded, sent, answered.        *)
(***************************************************************************)
\* budgetedOpportunityModel's countDispatch; the owner's review has no budget.
Count ==
  /\ task.at = "asking" /\ task.stop = "no"
  /\ Budgeted => expl.calls < expl.maxCalls
  /\ expl' = IF Budgeted THEN [expl EXCEPT !.calls = @ + 1] ELSE expl
  /\ task' = At("counted")
  /\ UNCHANGED <<fvars, ideas, stages, review, world, asked>>

\* markReviewDispatched, markAttemptDispatched; a search is counted as it is recorded.
Send ==
  /\ task.at \in {"counted", "search"}
  /\ IF task.call # 0
     THEN review' = CallIs("sent") /\ UNCHANGED <<attempt, expl>>
     ELSE /\ attempt' = [attempt EXCEPT ![task.key].status = "sent"]
          /\ expl' = IF task.at = "search" THEN [expl EXCEPT !.searches = @ + 1] ELSE expl
          /\ UNCHANGED review
  /\ asked' = Append(asked, IF task.call = 0 THEN task.key
                            ELSE <<IF Budgeted THEN "compare" ELSE "review", task.call>>)
  /\ task' = At("answering")
  /\ UNCHANGED <<fvars, ideas, gap, batch, world>>

\* The call fails, before or after it was sent; a stage's attempt counts as unknown either way.
CallFails ==
  /\ task.at \in {"asking", "answering"}
  /\ IF task.call # 0
     THEN /\ review' = CallIs(IF review[task.call].status = "sent" THEN "unknown" ELSE "failed")
          /\ UNCHANGED attempt
     ELSE attempt' = [attempt EXCEPT ![task.key].status = "unknown"] /\ UNCHANGED review
  /\ \E error \in IF task.at = "asking" /\ Budgeted /\ NoBudget THEN {"budget", "other"} ELSE {"other"} :
       task' = Throw(error)
  /\ UNCHANGED <<fvars, ideas, expl, gap, batch, world, asked>>

(***************************************************************************)
(* A stage of the exploration: prepared once under its key, answered once. *)
(***************************************************************************)
\* What a stage's saved input must still be when it is asked again.
Input(key) ==
  CASE key[1] = "map" -> <<{d \in decision : TRUE}, family, discarded, option, expl.maxCalls>>
    [] key[1] = "generate" -> <<{d \in decision : d.state = "accepted"}, family, discarded>>
    [] OTHER -> <<>>

\* prepareAttempt, and what the stage makes of an attempt it finds.
Stage(key, next) ==
  LET t == [task EXCEPT !.key = key] IN
  IF key \in DOMAIN attempt
  THEN /\ UNCHANGED attempt
       /\ task' = CASE attempt[key].status = "completed" -> [t EXCEPT !.at = "answered"]
                    [] attempt[key].status = "prepared" /\ attempt[key].input = Input(key) ->
                         [t EXCEPT !.at = next]
                    [] OTHER -> [t EXCEPT !.at = "throw", !.error = "other"]
  ELSE /\ attempt' = [k \in DOMAIN attempt \cup {key} |->
                        IF k = key THEN [status |-> "prepared", input |-> Input(key), result |-> NoResult]
                                   ELSE attempt[k]]
       /\ task' = [t EXCEPT !.at = next]

Answer(kind, result) ==
  /\ task.at = "answering" /\ task.key[1] = kind /\ task.stop = "no"
  /\ attempt' = [attempt EXCEPT ![task.key].status = "completed", ![task.key].result = result]
  /\ task' = At("answered")
  /\ UNCHANGED <<fvars, ideas, expl, gap, batch, review, world, asked>>

\* No gap, the gaps of an offer, or gaps that cannot be saved: a name the project has, or
\* hypotheses it does not allow.
AnswerMap == \E gaps \in Offers, ok \in BOOLEAN : Answer("map", [NoResult EXCEPT !.gaps = gaps, !.ok = ok])
AnswerSearch == \E found \in BOOLEAN : Answer("search", [NoResult EXCEPT !.ok = found])
AnswerGenerate ==
  /\ task.at = "answering" /\ task.key[1] = "generate"
  /\ \E n \in 0..Cardinality(Option \ option) :
      /\ n <= batch[task.key[2]].requested
      /\ Answer("generate", [NoResult EXCEPT !.count = n])

Result == attempt[task.key].result
Planning == [At("plan") EXCEPT !.key = NoKey]

\* mapOpportunityCoverage, after its call.
SaveMap ==
  /\ task.at = "answered" /\ task.key[1] = "map"
  /\ IF Result.gaps = <<>>
     THEN expl' = [expl EXCEPT !.status = "useful-partial"] /\ task' = NoTask /\ UNCHANGED gap
     ELSE IF ~Result.ok THEN task' = Throw("other") /\ UNCHANGED <<expl, gap>>
     ELSE /\ gap' = gap \o [i \in DOMAIN Result.gaps |->
                              [early |-> Result.gaps[i].early,
                               status |-> IF Result.gaps[i].search THEN "search-needed" ELSE "ready"]]
          /\ expl' = [expl EXCEPT !.rounds = @ + 1]
          /\ task' = Planning
  /\ UNCHANGED <<fvars, ideas, batch, attempt, review, world, asked>>

SearchForgotten ==
  /\ task.at = "answered" /\ task.key[1] = "search"
  /\ task' = Planning
  /\ UNCHANGED <<fvars, ideas, expl, gap, batch, attempt, review, world, asked>>
\* What the loop does with the sources of a search.
SaveSearch ==
  /\ task.at = "answered" /\ task.key[1] = "search"
  /\ gap' = [gap EXCEPT ![task.key[2]].status = IF Result.ok THEN "ready" ELSE "exhausted"]
  /\ task' = Planning
  /\ UNCHANGED <<fvars, ideas, expl, batch, attempt, review, world, asked>>

\* persistOpportunityExpansion
Persist ==
  /\ task.at = "answered" /\ task.key[1] = "generate"
  /\ LET new == {o \in Option \ option : Place(o, Option \ option) <= Result.count} IN
     /\ option' = option \cup new /\ origin' = origin \cup new
     /\ expl' = [expl EXCEPT !.raw = @ + Cardinality(new), !.status = "reviewing-batch"]
     /\ batch' = [batch EXCEPT ![task.key[2]].status = "awaiting-review", ![task.key[2]].saved = new]
  /\ task' = Planning
  /\ UNCHANGED <<fvars, gap, attempt, review, world, asked>>

(***************************************************************************)
(* executeOpportunityExploration's loop: planOpportunityStep and what      *)
(* becomes of its decision.  A stop arrives while the task waits, and ends *)
(* it there: the loop never plans on with one.                             *)
(***************************************************************************)
Lowest(set) == CHOOSE i \in set : \A j \in set : i <= j
InState(statuses) == {b \in DOMAIN batch : batch[b].status \in statuses}
Available == {g \in DOMAIN gap : gap[g].status \in {"search-needed", "ready"}}
Spare(n) == expl.calls + n <= expl.maxCalls
NoGain ==
  LET done == InState({"reviewed"}) IN
  done # {} /\ LET last == batch[CHOOSE b \in done : \A x \in done : x <= b] IN last.after = last.before

Decision ==
  IF Status \in Terminal THEN <<"stop", Status>>
  ELSE IF InState({"awaiting-review", "reviewing"}) # {}
    THEN <<"review", Lowest(InState({"awaiting-review", "reviewing"}))>>
  ELSE IF InState({"unknown-dispatch"}) # {} THEN <<"stop", "failed">>
  ELSE IF Accepted >= Target THEN <<"stop", "target-reached">>
  ELSE IF world.late \/ expl.raw >= MaxRaw \/ ~Spare(2) THEN <<"stop", "budget-exhausted">>
  ELSE IF NoGain THEN <<"stop", "useful-partial">>
  ELSE IF Available = {}
    THEN IF expl.rounds >= MaxRounds \/ ~Spare(3) THEN <<"stop", "budget-exhausted">>
                                                   ELSE <<"map", expl.rounds + 1>>
  ELSE LET g == Lowest(Available) IN
    IF gap[g].early THEN <<"stop", "failed">>
    ELSE IF gap[g].status = "ready" THEN <<"generate", g>>
    ELSE IF expl.searches >= expl.maxSearches THEN <<"stop", "budget-exhausted">> ELSE <<"search", g>>

Unfinished == InState({"planned", "generating"})
Deciding(what) == task.at = "plan" /\ Unfinished = {} /\ Decision[1] = what

\* A batch planned or under way is generated first; so is the one just planned.
Regenerate ==
  /\ task.at = "plan" /\ Unfinished # {}
  /\ LET b == Lowest(Unfinished) IN
     /\ batch' = [batch EXCEPT ![b].status = "generating"]
     /\ Stage(<<"generate", b>>, "asking")
  /\ expl' = [expl EXCEPT !.status = "generating-batch"]
  /\ UNCHANGED <<fvars, ideas, gap, review, world, asked>>

NewBatch(g) ==
  LET room == {BatchSize, MaxRaw - expl.raw, Target - Accepted, 6} IN
  [gap |-> g, requested |-> Lowest(room), status |-> "planned", saved |-> {}, before |-> Accepted, after |-> 0]
PlanBatch ==
  /\ Deciding("generate")
  /\ batch' = Append(batch, NewBatch(Decision[2]))
  /\ UNCHANGED <<fvars, ideas, expl, gap, attempt, review, task, world, asked>>

PlanStop ==
  /\ Deciding("stop")
  /\ expl' = [expl EXCEPT !.status = Decision[2]]
  /\ task' = NoTask
  /\ UNCHANGED <<fvars, ideas, stages, review, world, asked>>

PlanMap ==
  /\ Deciding("map")
  /\ Stage(<<"map", Decision[2]>>, "asking")
  /\ UNCHANGED <<fvars, ideas, expl, gap, batch, review, world, asked>>

PlanSearch ==
  /\ Deciding("search")
  /\ Stage(<<"search", Decision[2]>>, "search")
  /\ UNCHANGED <<fvars, ideas, expl, gap, batch, review, world, asked>>

PlanReview ==
  /\ Deciding("review")
  /\ batch' = [batch EXCEPT ![Decision[2]].status = "reviewing"]
  /\ OpenReview(<<"batch", Decision[2]>>)
  /\ UNCHANGED <<fvars, ideas, expl, gap, attempt, world, asked>>

\* What the task's error leaves: the batch it was generating, and the exploration's status,
\* which stays paused when the task ended because the owner paused it.
Catch ==
  /\ task.at = "throw"
  /\ batch' = IF task.key[1] # "generate" THEN batch
              ELSE [batch EXCEPT ![task.key[2]].status =
                      IF attempt[task.key].status \in {"completed", "prepared"} THEN "generating"
                                                                                 ELSE "unknown-dispatch"]
  /\ LET e == IF task.then[1] \in {"open", "batch"} THEN Synced(expl) ELSE expl
         failed == IF task.error = "budget" THEN "budget-exhausted" ELSE "failed" IN
     /\ origin' = IF task.then[1] \in {"open", "batch"} THEN option ELSE origin
     /\ expl' = IF ~Budgeted \/ (task.stop # "no" /\ e.status = "paused") THEN e
                ELSE [e EXCEPT !.status = failed]
  /\ task' = NoTask
  /\ UNCHANGED <<fvars, option, gap, attempt, review, world, asked>>

(***************************************************************************)
(* The owner.                                                              *)
(***************************************************************************)
\* Anything else that can come in between: an edit, a session's idea, a stop of the process.
Event == world.events < MaxEvents /\ world' = [world EXCEPT !.events = @ + 1]
Owner == Quiet /\ world.launches < MaxLaunches /\ world' = [world EXCEPT !.launches = @ + 1]
LaunchIf(allowed, kind, ack) == task' = IF allowed THEN Launched(kind, ack) ELSE task

ReviewSaved(ack) ==
  /\ Owner /\ EditingAllowed
  /\ LaunchIf(TRUE, "review", ack)
  /\ UNCHANGED <<fvars, ideas, expl, stages, review, asked>>

\* requestFocusedExperiment: other work of the engine that holds the project's one task.
Experiment ==
  /\ Owner /\ EditingAllowed
  /\ LaunchIf(TRUE, "experiment", FALSE)
  /\ UNCHANGED <<fvars, ideas, expl, stages, review, asked>>
ExperimentEnds ==
  /\ task.at = "away"
  /\ task' = NoTask
  /\ UNCHANGED <<fvars, ideas, expl, stages, review, world, asked>>

\* What start and resume save before the launch stays when the launch is refused.  Starting
\* again is refused once the budget was extended: the configuration is another one.
Start ==
  /\ Owner /\ expl.maxCalls = Calls
  /\ expl' = Synced([expl EXCEPT !.status = IF @ = "none" THEN "mapping-coverage" ELSE @])
  /\ origin' = option
  /\ LaunchIf(EditingAllowed, "exploration", FALSE)
  /\ UNCHANGED <<fvars, option, stages, review, asked>>

Resume ==
  /\ Owner /\ ~world.late
  /\ Status \in Terminal \ {"target-reached"}
  /\ attempt' = Interrupted(attempt)
  /\ expl' = [expl EXCEPT !.status = "mapping-coverage"]
  /\ LaunchIf(EditingAllowed, "exploration", FALSE)
  /\ UNCHANGED <<fvars, ideas, gap, batch, review, asked>>

\* applyOpportunityBudgetExtension
Extend ==
  /\ Owner /\ EditingAllowed /\ expl.status # "none"
  /\ expl' = [expl EXCEPT !.maxCalls = @ + 1, !.maxSearches = @ + 1, !.status = "mapping-coverage"]
  /\ LaunchIf(TRUE, "exploration", FALSE)
  /\ UNCHANGED <<fvars, ideas, stages, review, asked>>

Pause ==
  /\ Quiet /\ expl.status # "none"
  /\ expl' = [expl EXCEPT !.status = "paused"]
  /\ task' = IF Budgeted THEN [task EXCEPT !.stop = "pause"] ELSE task
  /\ UNCHANGED <<fvars, ideas, stages, review, world, asked>>

Edit ==
  /\ EditingAllowed /\ Event
  /\ EditMembership \/ \E o \in option : Discard(o)
  /\ UNCHANGED <<ideas, expl, stages, review, task, asked>>

(***************************************************************************)
(* The rest of the program: a workflow session saves an idea in the same   *)
(* project and later takes its own review of it over as a decision         *)
(* (materializeSolutionSetReviews); time runs out; the process quits.      *)
(***************************************************************************)
SessionSaves ==
  /\ Quiet /\ world.session = {} /\ option # Option
  /\ world.events < MaxEvents
  /\ LET new == Lowest(Option \ option) IN
     /\ option' = option \cup {new}
     /\ world' = [world EXCEPT !.session = {new}, !.events = @ + 1]
  /\ UNCHANGED <<fvars, origin, expl, stages, review, task, asked>>

Materialize ==
  /\ Quiet
  /\ \E o \in world.session \ Decided(decision) :
       \E place \in {Unsure, Own} \cup {Joins(f) : f \in Shown(decision, family)} :
         ApplyDecisions([x \in {o} |-> place])
  /\ UNCHANGED <<ideas, expl, stages, review, task, world, asked>>

TimeRunsOut ==
  /\ Quiet /\ ~world.late /\ expl.status # "none"
  /\ world.events < MaxEvents
  /\ world' = [world EXCEPT !.late = TRUE, !.events = @ + 1]
  /\ UNCHANGED <<fvars, ideas, expl, stages, review, task, asked>>

\* shutdown aborts the task and waits for it.
Quit ==
  /\ Quiet /\ task.kind \in {"exploration", "review"} /\ task.stop = "no" /\ Event
  /\ task' = [task EXCEPT !.stop = "quit"]
  /\ UNCHANGED <<fvars, ideas, expl, stages, review, asked>>

\* The process is gone and started again: recoverInFlightReviewCalls and
\* recoverInterruptedExplorations.
Restart ==
  /\ Event
  /\ review' = Recovered(review)
  /\ LET running == expl.status \notin Terminal \cup {"none"} IN
     /\ attempt' = IF running THEN Interrupted(attempt) ELSE attempt
     /\ expl' = IF running THEN [expl EXCEPT !.status = "paused"] ELSE expl
  /\ task' = NoTask
  /\ UNCHANGED <<fvars, ideas, gap, batch, asked>>

TaskStep ==
  \/ Begin \/ StartBatch \/ AskReview \/ Apply \/ ApplyFails \/ ReviewDone
  \/ Count \/ Send \/ CallFails
  \/ (\E valid \in BOOLEAN : AnswerReview(valid)) \/ AnswerMap \/ AnswerSearch \/ AnswerGenerate
  \/ SaveMap \/ SaveSearch \/ Persist
  \/ Regenerate \/ PlanBatch \/ PlanStop \/ PlanMap \/ PlanSearch \/ PlanReview
  \/ Catch \/ ExperimentEnds

Next ==
  \/ TaskStep
  \/ (\E ack \in BOOLEAN : ReviewSaved(ack)) \/ Experiment \/ Start \/ Resume \/ Extend \/ Pause
  \/ Edit \/ SessionSaves \/ Materialize \/ TimeRunsOut \/ Quit \/ Restart

Spec == Init /\ [][Next]_vars
\* The event loop runs the task on, and a call ends: by its answer, its failure or its deadline.
FairSpec == Spec /\ WF_vars(TaskStep)

-----------------------------------------------------------------------------
Sent(kinds) == {i \in DOMAIN asked : asked[i][1] \in kinds}

TypeOK ==
  /\ option \subseteq Option /\ origin \subseteq option /\ discarded \subseteq option
  /\ Decided(decision) \subseteq option
  /\ expl.status \in Terminal \cup {"none", "mapping-coverage", "generating-batch", "reviewing-batch"}
  /\ task.kind \in {"none", "review", "experiment", "exploration"}

(***************************************************************************)
(* What was asked is paid for, so nothing is asked twice: no coverage map, *)
(* search or batch goes out again, whatever was paused, cut short or       *)
(* restarted; a comparison only when its first answer is no use: its owner *)
(* accepted the loss of it, or it was incomplete and its correction did    *)
(* not complete it.  Every request an exploration sent is in its budget,   *)
(* and the budget is kept.                                                 *)
(***************************************************************************)
NothingPaidTwice ==
  /\ \A i, j \in Sent({"map", "search", "generate"}) : asked[i] = asked[j] => i = j
  /\ \A i, j \in Sent({"review", "compare"}) :
       LET first == asked[i][2]
           again == asked[j][2] IN
       i < j /\ review[first].request = review[again].request =>
         \/ review[first].status = "acknowledged"
         \/ /\ review[first].status = "invalid"
            /\ \A c \in first..again : review[c].request.fix = first => review[c].status # "completed"
  /\ Cardinality(Sent({"map", "generate", "compare"})) <= expl.calls /\ expl.calls <= expl.maxCalls
  /\ Cardinality(Sent({"search"})) = expl.searches /\ expl.searches <= expl.maxSearches

(***************************************************************************)
(* The batches are taken in turn: a new one is planned only when every     *)
(* earlier one has been generated and its ideas decided on, the target     *)
(* and the raw limit are never overrun by planning, and every idea is      *)
(* counted as raw once, whichever process counted it.                      *)
(***************************************************************************)
ReviewedInTurn ==
  /\ \A b \in DOMAIN batch : b < Len(batch) => batch[b].status = "reviewed"
  /\ \A b \in DOMAIN batch : batch[b].status = "reviewed" =>
       batch[b].saved \subseteq Decided(decision) /\ gap[batch[b].gap].status = "covered"
  /\ expl.raw = Cardinality(origin)
  /\ expl.status = "reviewing-batch" => InState({"awaiting-review", "reviewing"}) # {}

\* An exploration neither pays twice nor gets out of step, whatever interrupts it
\* (executeOpportunityExploration, reviewOpportunities).
PaidOnceInTurn == NothingPaidTwice /\ ReviewedInTurn

(***************************************************************************)
(* Whatever the review, the owner's edits and the sessions make of the     *)
(* ideas, in whatever order, each is in one place, and in a family that is *)
(* still there.                                                            *)
(***************************************************************************)
Grouped == TypeOK /\ DecidedOnce /\ MergedStaysEmpty

\* An exploration under way comes to rest: work that was launched ends by itself.
ExplorationEnds == task.kind # "none" ~> task.kind = "none"
=============================================================================

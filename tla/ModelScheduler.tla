--------------------------- MODULE ModelScheduler ---------------------------
(***************************************************************************)
(* The scheduler of model calls (src/src/core/workflow-scheduler.ts) and   *)
(* the client that puts every completion of a project through it           *)
(* (src/src/core/scheduled-model-client.ts).  Calls of all projects share  *)
(* a few slots; projects take turns; a call keeps its slot until the       *)
(* provider is done with it, even when it was aborted meanwhile.  A        *)
(* completion whose answer breaks its schema may be asked for once more,   *)
(* which is a call of its own and waits for a turn of its own.             *)
(*                                                                         *)
(* Steps are the turns of the event loop: what the code does without       *)
(* awaiting is one action.  The pump runs in a microtask, so calls may be  *)
(* scheduled, aborted and come back before it does.  Prompts, answers,     *)
(* error texts and times are left out.                                     *)
(***************************************************************************)
EXTENDS Integers, Sequences, FiniteSets, SequencesExt

CONSTANTS
  Project,        \* a project, by its thread
  Request,        \* a completion somebody may ask for, again and again
  ProjectOf(_),   \* the project of a request
  Repairs,        \* the requests whose schema may be repaired (one_retry)
  MAX_ACTIVE      \* the most slots the settings allow

ASSUME SchedulerAssumption ==
  /\ MAX_ACTIVE \in Nat \ {0}
  /\ \A r \in Request : ProjectOf(r) \in Project
  /\ Repairs \subseteq Request

VARIABLES
  pending,     \* each project's calls in the order they were scheduled
  ready,       \* the projects with calls, in the order of their turns
  active,      \* the calls that hold a slot
  running,     \* the calls the provider is working on
  aborted,     \* the calls whose own controller was aborted
  capacity,    \* the slots there are
  pumpQueued,  \* whether the pump will run
  request      \* how far each request is

queues == <<pending, ready>>
slots == <<active, running, capacity>>
vars == <<queues, slots, aborted, pumpQueued, request>>

\* A request makes a first call and perhaps one to repair its schema.
Attempt == {"initial", "schema_repair"}
Call == Request \X Attempt
Owner(c) == ProjectOf(c[1])

Waiting == {p \in Project : pending[p] # <<>>}
Queued == UNION {Range(pending[p]) : p \in Project}
ActiveProjects == {Owner(c) : c \in active}

\* The phases of a request: not asked for, the attempt it waits for, and how it ended.
Ended == {"idle", "answered", "failed"}
Phase == Ended \cup Attempt

\* cut: its caller stopped it or its deadline passed; attempts: the first attempt's
\* receipts, which its result reports with the repair's.  unreported is not in the code:
\* the receipts the provider gave that no result has reported.
RequestState == [phase : Phase, cut : BOOLEAN, attempts : Nat, unreported : Int]
NoRequest == [phase |-> "idle", cut |-> FALSE, attempts |-> 0, unreported |-> 0]

-----------------------------------------------------------------------------
(* The queues *)

\* The place of p in the turns: before the first project that has a call under way,
\* if p has none, and else at the end.
TurnOf(p) ==
  LET busy == {i \in DOMAIN ready : ready[i] \in ActiveProjects} IN
  IF p \notin ActiveProjects /\ busy # {}
  THEN CHOOSE i \in busy : \A j \in busy : i <= j
  ELSE Len(ready) + 1

\* schedule, for a call that is not aborted yet.
Enqueue(c) ==
  LET p == Owner(c) IN
  /\ pending' = [pending EXCEPT ![p] = Append(@, c)]
  /\ ready' = IF pending[p] = <<>> THEN InsertAt(ready, TurnOf(p), p) ELSE ready
  /\ pumpQueued' = TRUE

Place(s, e) == CHOOSE i \in DOMAIN s : s[i] = e
Without(s, e) == RemoveAt(s, Place(s, e))

\* removeQueued: a call that is aborted while it waits leaves without a trace.
RemoveQueued(c) ==
  LET p == Owner(c) IN
  /\ pending' = [pending EXCEPT ![p] = Without(@, c)]
  /\ ready' = IF Len(pending[p]) = 1 THEN Without(ready, p) ELSE ready

RequestPump == pumpQueued' = TRUE

-----------------------------------------------------------------------------
(* The pump *)

CanAdmit == Cardinality(active) < capacity /\ ready # <<>>

\* The next project makes one call and goes to the end if it has more.
InPlace(p) == IF Len(pending[p]) = 1 THEN Tail(ready) ELSE ready  \* a mutant: it stays first
Rotated(p) == IF Len(pending[p]) = 1 THEN Tail(ready) ELSE Append(Tail(ready), p)
Admit ==
  LET p == Head(ready) IN
  /\ pumpQueued /\ CanAdmit
  /\ pending' = [pending EXCEPT ![p] = Tail(@)]
  /\ ready' = Rotated(p)
  /\ active' = active \cup {Head(pending[p])}
  /\ running' = running \cup {Head(pending[p])}
  /\ UNCHANGED <<aborted, capacity, pumpQueued, request>>

PumpEnds ==
  /\ pumpQueued /\ ~CanAdmit
  /\ pumpQueued' = FALSE
  /\ UNCHANGED <<queues, slots, aborted, request>>

\* Mutant: new slots wait for the next call.
SetMaxActiveQuietly(n) ==
  /\ n # capacity /\ capacity' = n
  /\ UNCHANGED <<queues, active, running, aborted, request, pumpQueued>>

\* Lowering the slots leaves the calls under way running.
SetMaxActive(n) ==
  /\ n # capacity /\ capacity' = n
  /\ RequestPump
  /\ UNCHANGED <<queues, active, running, aborted, request>>

-----------------------------------------------------------------------------
(* A completion *)

\* Its earlier calls are out of the scheduler: a caller that asks at once is another
\* request of the project.
Submit(r) ==
  /\ request[r].phase \in Ended
  /\ \A a \in Attempt : <<r, a>> \notin active
  /\ request' = [request EXCEPT ![r] = [@ EXCEPT !.phase = "initial"]]
  /\ Enqueue(<<r, "initial">>)
  /\ UNCHANGED <<slots, aborted>>

\* Mutant: the first attempt's receipts are not carried over.
EndedAlone(q, phase, receipts) ==
  [phase |-> phase, cut |-> FALSE, attempts |-> 0, unreported |-> q.unreported - receipts]

\* The completion ends, and what is known of both attempts is part of its result.
EndedAs(q, phase, receipts) ==
  [phase |-> phase, cut |-> FALSE, attempts |-> 0,
   unreported |-> q.unreported - (q.attempts + receipts)]

IsAborted(c) == c \in aborted \/ request[c[1]].cut

\* The provider is done with a call: it has an answer, an answer that breaks the
\* schema, or an error, with a receipt unless it never reached the provider.
Outcome == [kind : {"value", "schema"}, receipts : {1}] \cup [kind : {"error"}, receipts : 0..1]

\* A completion racing Stop is an error that has its receipt.
Result(c, outcome) ==
  IF outcome.kind = "value" /\ IsAborted(c) THEN [outcome EXCEPT !.kind = "error"] ELSE outcome

\* A schema is repaired once, unless the request was cut or its deadline is over.
Retries(c, outcome, late) ==
  /\ outcome.kind = "schema" /\ c[2] = "initial"
  /\ c[1] \in Repairs /\ ~request[c[1]].cut /\ ~late

Settle(c, outcome, late) ==
  LET r == c[1]
      result == Result(c, outcome)
      known == [request[r] EXCEPT !.unreported = @ + outcome.receipts]
  IN
  /\ c \in running
  /\ running' = running \ {c}
  /\ IF Retries(c, result, late)
     THEN /\ request' = [request EXCEPT ![r] =
                 [known EXCEPT !.phase = "schema_repair", !.attempts = result.receipts]]
          /\ Enqueue(<<r, "schema_repair">>)
     ELSE /\ request' = [request EXCEPT ![r] =
                 EndedAs(known, IF result.kind = "value" THEN "answered" ELSE "failed",
                         result.receipts)]
          /\ UNCHANGED <<queues, pumpQueued>>
  /\ UNCHANGED <<active, capacity, aborted>>

\* Mutant: nobody is told that a slot is free.
ReleaseQuietly(c) ==
  /\ c \in active \ running
  /\ active' = active \ {c}
  /\ aborted' = aborted \ {c}
  /\ UNCHANGED <<queues, running, capacity, pumpQueued, request>>

\* Its slot is free only after its caller went on.
Release(c) ==
  /\ c \in active \ running
  /\ active' = active \ {c}
  /\ aborted' = aborted \ {c}
  /\ RequestPump
  /\ UNCHANGED <<queues, running, capacity, request>>

\* Mutant: a call that waits is not rejected.
CutLater(r) ==
  /\ request[r].phase \in Attempt /\ ~request[r].cut
  /\ request' = [request EXCEPT ![r].cut = TRUE]
  /\ UNCHANGED <<queues, slots, aborted, pumpQueued>>

\* The caller stops the request or its deadline passes.  A call that waits is rejected
\* at once; one under way goes on until the provider is done.
Cut(r) ==
  LET c == <<r, request[r].phase>> IN
  /\ request[r].phase \in Attempt /\ ~request[r].cut
  /\ IF c \in Queued
     THEN /\ RemoveQueued(c)
          /\ request' = [request EXCEPT ![r] = EndedAs(@, "failed", 0)]
     ELSE /\ request' = [request EXCEPT ![r].cut = TRUE]
          /\ UNCHANGED queues
  /\ UNCHANGED <<slots, aborted, pumpQueued>>

\* The backend closes: every call is aborted, but not the requests they are made for.
CancelAll ==
  /\ Queued # {} \/ active # {}
  /\ aborted' = aborted \cup active
  /\ request' = [r \in Request |-> IF <<r, request[r].phase>> \in Queued
                                  THEN EndedAs(request[r], "failed", 0) ELSE request[r]]
  /\ pending' = [p \in Project |-> <<>>] /\ ready' = <<>>
  /\ UNCHANGED <<slots, pumpQueued>>

-----------------------------------------------------------------------------
Init ==
  /\ pending = [p \in Project |-> <<>>] /\ ready = <<>>
  /\ active = {} /\ running = {} /\ aborted = {}
  /\ capacity \in 1..MAX_ACTIVE /\ pumpQueued = FALSE
  /\ request = [r \in Request |-> NoRequest]

Next ==
  \/ Admit \/ PumpEnds
  \/ \E n \in 1..MAX_ACTIVE : SetMaxActive(n)
  \/ \E r \in Request : Submit(r)
  \/ \E c \in Call, outcome \in Outcome, late \in BOOLEAN : Settle(c, outcome, late)
  \/ \E c \in Call : Release(c)
  \/ \E r \in Request : Cut(r)
  \/ CancelAll

Spec == Init /\ [][Next]_vars

\* Microtasks run, and a provider is done with every call some time (its request has a
\* deadline, its process may be killed).
Fairness ==
  /\ WF_vars(Admit \/ PumpEnds)
  /\ \A c \in Call : /\ WF_vars(\E outcome \in Outcome, late \in BOOLEAN : Settle(c, outcome, late))
                     /\ WF_vars(Release(c))

FairSpec == Spec /\ Fairness

-----------------------------------------------------------------------------
(* Properties *)

Once(s) == \A i, j \in DOMAIN s : s[i] = s[j] => i = j

\* Calls wait in the queue of their project, and a project has one place in the turns,
\* as long as it has calls that wait.
QueuesOK ==
  /\ pending \in [Project -> Seq(Call)]
  /\ \A p \in Project : Once(pending[p]) /\ \A c \in Range(pending[p]) : Owner(c) = p
  /\ ready \in Seq(Project) /\ Once(ready) /\ Range(ready) = Waiting

\* A request waits for the call that is queued or under way, and for no other.
PhasesOK ==
  \A r \in Request, a \in Attempt : request[r].phase = a <=> <<r, a>> \in Queued \cup running

\* Every call is in one place: in the queue of its project, under way, or gone, and
\* that is where its request says it is.
TypeOK ==
  /\ QueuesOK
  /\ active \subseteq Call /\ running \subseteq active /\ aborted \subseteq active
  /\ capacity \in 1..MAX_ACTIVE /\ pumpQueued \in BOOLEAN
  /\ request \in [Request -> RequestState]
  /\ PhasesOK

\* The scheduler does not miss that it could go on: while a slot is free and a project
\* waits, the pump will run (requestPump and its callers).
NoMissedPump == CanAdmit => pumpQueued

\* Projects take turns: a project with a call that waits is never overtaken by one that
\* was behind it, and one that made a call goes behind all that wait (pump, schedule,
\* removeQueued).
TurnsInOrder ==
  [][\A p, q \in Waiting \cap Waiting' :
       Place(ready, p) < Place(ready, q) =>
         IF \E c \in active' \ active : Owner(c) = p
         THEN Place(ready', q) < Place(ready', p)
         ELSE Place(ready', p) < Place(ready', q)]_vars

\* The provider is never given a call that leaves it with more than the slots there are,
\* whatever was aborted or lowered meanwhile (pump).
ProviderCallsBounded ==
  [][running' \subseteq running \/ Cardinality(running') <= capacity]_vars

\* A request that was stopped or ran out of time is never sent to the provider again,
\* not even to repair its schema, and never answered (schedule, completion).
StopIsFinal ==
  [][\A r \in Request : request[r].cut =>
       /\ ({r} \X Attempt) \cap running' \subseteq running
       /\ request'[r].phase # "answered"]_vars

\* The result of a request reports every receipt the provider gave for it, however it
\* ended (completion).
ReceiptsReported ==
  \A r \in Request : request[r].phase \in Ended => request[r].unreported = 0

\* Every request ends, though others keep coming (schedule, pump).
EveryRequestEnds == \A r \in Request : request[r].phase \in Attempt ~> request[r].phase \in Ended
=============================================================================

---------------------------- MODULE ResearchLoop ----------------------------
(***************************************************************************)
(* The seed-and-kill-test loop (src/src/loop/engine.ts).  advance reads    *)
(* the project, picks the one step it needs next, asks the model where the *)
(* step calls for it, and writes the answer to the ledger row by row; the  *)
(* step's entry in the step log comes last.  The loop keeps no state of    *)
(* its own, so the log is all a later command has to go by.                *)
(*                                                                         *)
(* While the model thinks and between two rows, the owner may do any step  *)
(* by hand with a command of their own, and the process may die.  A step   *)
(* works on the view it read when it started.                              *)
(*                                                                         *)
(* Data.  db holds the rows of one project, an id being a row's position.  *)
(* What the ledger checks of a verdict's evidence is the one bit `holds`,  *)
(* and the quotes a verdict cites are the one bit `stands` (EvidenceLedger *)
(* has both in full).  The time of a row is the number of rows before it.  *)
(* Texts, quotes, pages and what the model is shown of them are left out.  *)
(* The fields since and script are never read by the loop: they record     *)
(* what really happened, for the properties.                               *)
(***************************************************************************)
EXTENDS Integers, Sequences, FiniteSets, SequencesExt

CONSTANTS
  MAX_RUNS,             \* runs of one experiment
  MAX_TESTS_PER_CLAIM,  \* live tests of one claim
  Commands,             \* the flags commands are given
  CanSearch,            \* whether a search provider has a key
  Kinds,                \* kinds of claim the model states
  TestKinds,            \* kinds of test the model designs
  Asks,                 \* whether a design may ask the owner for something
  MaxQuestions,         \* bound: questions of the framing
  MaxSplit,             \* bound: claims of one split
  MaxVariants,          \* bound: variants of one write-up
  Plans,                \* bound: the edits by hand, one after the other
  MaxCrashes            \* bound: steps cut short

HAND_EDITS == {"constraint", "file", "write-up", "accept", "test", "run",
               "verdict", "review", "retract-test", "retract-claim",
               "retract-quote", "retract-note", "retract-idea"}

\* --trust, --skip-questions, --agent-findings
Flags == [trust : BOOLEAN, skipQuestions : BOOLEAN, agentFindings : BOOLEAN]

ASSUME LoopAssumption ==
  /\ MAX_RUNS \in Nat \ {0} /\ MAX_TESTS_PER_CLAIM \in Nat \ {0}
  /\ {CanSearch, Asks} \subseteq BOOLEAN
  /\ Commands \subseteq Flags /\ Commands # {}
  /\ Kinds \subseteq {"need", "gap", "mechanism", "feasibility"}
  /\ TestKinds \subseteq {"desk", "experiment"}
  /\ \A plan \in Plans : \A i \in DOMAIN plan : plan[i] \in HAND_EDITS
  /\ {MaxQuestions, MaxSplit, MaxVariants, MaxCrashes} \subseteq Nat

VARIABLES
  db,       \* the project's rows
  step,     \* the step under way: its view, its target and what it has to write
  said,     \* how the last command ended
  hands,    \* the edits by hand still to come
  crashes   \* how many more steps may be cut short

vars == <<db, step, said, hands, crashes>>

-----------------------------------------------------------------------------
(* Reading the project *)

Ids(rows) == DOMAIN rows
Newest(S) == CHOOSE i \in S \cup {0} : \A j \in S : j <= i
Now(d) == Len(d.notes) + Len(d.claims) + Len(d.ideas) + Len(d.tests)
            + Len(d.runs) + d.files + Len(d.verdicts) + Len(d.log)

LiveNotes(d, kinds) == {n \in Ids(d.notes) : d.notes[n].live /\ d.notes[n].kind \in kinds}
NewestConstraint(d) == Newest(LiveNotes(d, {"constraint"}))

Logged(d, name) == {i \in Ids(d.log) : d.log[i].step = name}
LoggedOn(d, name, target) == {i \in Logged(d, name) : d.log[i].target = target}

CurrentIdea(d) == Newest({i \in Ids(d.ideas) : d.ideas[i].live})
IdeaClaims(d) == IF CurrentIdea(d) = 0 THEN {}
                 ELSE {c \in d.ideas[CurrentIdea(d)].claims : d.claims[c].live}

LiveTests(d, c) == {t \in Ids(d.tests) : d.tests[t].claim = c /\ d.tests[t].live}
Verdicts(d, c) == {v \in Ids(d.verdicts) : d.verdicts[v].claim = c}
Runs(d, t) == {r \in Ids(d.runs) : d.runs[r].test = t}

\* A verdict is stale once a quote it cites or the test it names is retracted.
Stale(d, v) == \/ ~d.verdicts[v].stands
               \/ d.verdicts[v].test # 0 /\ ~d.tests[d.verdicts[v].test].live

ReviewedAs(d, v, result) == \E r \in d.verdicts[v].reviews : r.result = result

Status(d, c) ==
  LET v == Newest(Verdicts(d, c)) IN
  CASE ~d.claims[c].live -> "retracted"
    [] d.claims[c].live /\ v = 0 -> IF LiveTests(d, c) = {} THEN "untested" ELSE "testing"
    [] OTHER ->
       IF Stale(d, v) THEN "stale"
       ELSE IF ReviewedAs(d, v, "overturned") THEN "overturned"
       ELSE IF d.verdicts[v].result = "unclear" THEN "unclear"
       ELSE IF d.verdicts[v].result = "provisional"
            THEN IF d.verdicts[v].reviews = {} THEN "provisional" ELSE "supported"
            ELSE IF d.verdicts[v].reviews = {} THEN "kill-pending" ELSE "killed"

\* The claim's newest live test, or 0 when a verdict answers it.  A verdict
\* that names no test answers every test written before it.
OpenTest(d, c) ==
  LET t == Newest(LiveTests(d, c)) IN
  IF \E v \in Verdicts(d, c) : IF d.verdicts[v].test # 0 THEN d.verdicts[v].test = t
                               ELSE t # 0 /\ d.verdicts[v].at >= d.tests[t].at
  THEN 0 ELSE t

ClaimStatuses(d) == [c \in IdeaClaims(d) |-> Status(d, c)]

-----------------------------------------------------------------------------
(* Writing a row *)

Note(kind) == [op |-> "note", kind |-> kind]
Claim(kind) == [op |-> "claim", kind |-> kind]
Idea(reused) == [op |-> "idea", claims |-> reused]
Test(c, kind) == [op |-> "test", claim |-> c, kind |-> kind]
Run(t, ok, script) == [op |-> "run", test |-> t, ok |-> ok, script |-> script]
Verdict(c, t, result, holds) ==
  [op |-> "verdict", claim |-> c, test |-> t, result |-> result, holds |-> holds]
Review(v, result) == [op |-> "review", verdict |-> v, result |-> result]
Made == -1  \* stands for the row the step made last
Log(name, target) == [op |-> "log", entry |-> [step |-> name, target |-> target]]

NoExperiment(d, t) == ~d.tests[t].live \/ d.tests[t].kind # "experiment"

\* The rows the ledger refuses to write (EvidenceLedger).
Refuses(d, w, made) ==
  CASE w.op = "idea" -> \/ w.claims \cup Range(made) = {}
                         \/ \E c \in w.claims \cup Range(made) : ~d.claims[c].live
    [] w.op = "test" -> ~d.claims[w.claim].live
    [] w.op = "run" -> NoExperiment(d, w.test)
    [] w.op = "verdict" -> \/ ~w.holds
                           \/ ~d.claims[w.claim].live
                           \/ w.test # 0 /\ ~d.tests[w.test].live
    [] w.op = "review" -> LET c == d.verdicts[w.verdict].claim IN
                          \/ ~d.claims[c].live
                          \/ w.verdict # Newest(Verdicts(d, c))
                          \/ Stale(d, w.verdict)
                          \/ ReviewedAs(d, w.verdict, "overturned")
    [] OTHER -> FALSE

\* The project after writing w, in a step that has made the rows `made` and
\* read the project when it had `since` rows.
Written(d, w, made, since) ==
  CASE w.op = "note" ->
         [d EXCEPT !.notes = Append(@, [kind |-> w.kind, live |-> TRUE, at |-> Now(d)])]
    [] w.op = "claim" -> [d EXCEPT !.claims = Append(@, [kind |-> w.kind, live |-> TRUE])]
    [] w.op = "idea" ->
         [d EXCEPT !.ideas = Append(@, [claims |-> w.claims \cup Range(made), live |-> TRUE])]
    [] w.op = "test" ->
         [d EXCEPT !.tests = Append(@, [claim |-> w.claim, kind |-> w.kind, live |-> TRUE,
                                        at |-> Now(d)])]
    [] w.op = "run" ->
         [d EXCEPT !.runs = Append(@, [test |-> w.test, ok |-> w.ok, script |-> w.script])]
    [] w.op = "verdict" ->
         [d EXCEPT !.verdicts = Append(@, [claim |-> w.claim, test |-> w.test,
                result |-> w.result, stands |-> TRUE, reviews |-> {}, at |-> Now(d)])]
    [] w.op = "review" ->
         [d EXCEPT !.verdicts[w.verdict].reviews =
                @ \cup {[result |-> w.result, at |-> Now(d)]}]
    [] w.op = "log" ->
         [d EXCEPT !.log = Append(@, [w.entry EXCEPT
                !.target = IF @ = Made THEN Last(made) ELSE @]
                @@ [made |-> made, at |-> Now(d), since |-> since])]

\* The table whose newest row a write of this kind makes; reviews and log
\* entries are never referred to later.
RowMade(d, w) == CASE w.op = "note" -> <<Len(d.notes) + 1>>
                   [] w.op = "claim" -> <<Len(d.claims) + 1>>
                   [] w.op = "test" -> <<Len(d.tests) + 1>>
                   [] w.op = "run" -> <<Len(d.runs) + 1>>
                   [] OTHER -> <<>>

-----------------------------------------------------------------------------
(* What the model may answer, as the rows the step then writes *)

Times(n, w) == [i \in 1..n |-> w]
SeqsUpTo(kinds, max) == UNION {[1..n -> kinds] : n \in 0..max}

FrameAnswers ==
  {<<Note("framing")>> \o Times(n, Note("question")) \o <<Log("frame", 0)>> :
     n \in 0..MaxQuestions}

\* A survey that found no readable page, or had no search key, only leaves its entry.
SurveyAnswers ==
  {<<Log("survey", 0)>>} \cup
  (IF CanSearch THEN {<<Note("prior-art"), Log("survey", 0)>>} ELSE {})

\* An accepted variant may reuse claims of the idea it revises; a split into no
\* claims is refused.
SplitAnswers(view, variant) ==
  {[i \in 1..Len(kinds) |-> Claim(kinds[i])] \o <<Idea(reused), Log("split", variant)>> :
     <<kinds, reused>> \in
       {a \in SeqsUpTo(Kinds, MaxSplit)
                \X SUBSET (IF variant = 0 THEN {} ELSE IdeaClaims(view)) :
          a[1] # <<>> \/ a[2] # {}}}

\* Mutant: anything the owner ever said is an answer.
AnsweredEver(d, c) == LoggedOn(d, "blocked", c) # {} /\ NewestConstraint(d) # 0

\* The owner answered a request of this very claim: a constraint is newer than it.
Answered(d, c) ==
  \E i \in LoggedOn(d, "blocked", c) : NewestConstraint(d) > d.log[i].notes

SetAside(d) == {d.log[i].target : i \in Logged(d, "untestable")}

Testable(d) ==
  {c \in IdeaClaims(d) :
     /\ Status(d, c) \in {"untested", "overturned", "stale", "unclear"}
     /\ Cardinality(LiveTests(d, c)) < MAX_TESTS_PER_CLAIM
     /\ c \notin SetAside(d)}

\* Mutant: the request counts the notes when it is written, not when it was read.
BlockedSince(view, c) ==
  [op |-> "log", entry |-> [step |-> "blocked", target |-> c,
                            notes |-> NewestConstraint(db), files |-> db.files]]

Blocked(view, c) ==
  [op |-> "log", entry |-> [step |-> "blocked", target |-> c,
                            notes |-> NewestConstraint(view), files |-> view.files]]

Designable == {k \in TestKinds : k = "desk" => CanSearch}

\* Mutant: the entry of a design names the claim and not the test.
DesignAnswersOfClaim(view) ==
  {<<Log("untestable", c)>> : c \in {x \in Testable(view) : Answered(view, x)}}
  \cup {<<Blocked(view, c)>> : c \in {x \in Testable(view) : Asks}}
  \cup {<<Test(a[1], a[2]), Log("design", a[1])>> : a \in Testable(view) \X Designable}

DesignAnswers(view) ==
  {<<Log("untestable", c)>> : c \in {x \in Testable(view) : Answered(view, x)}}
  \cup {<<Blocked(view, c)>> : c \in {x \in Testable(view) : Asks}}
  \cup {<<Test(a[1], a[2]), Log("design", Made)>> : a \in Testable(view) \X Designable}

RunAnswers(view, t) ==
  {<<Run(t, ok, Newest(LoggedOn(view, "script", t))), Log("run", t)>> : ok \in BOOLEAN}

VerdictAnswers(view, t) ==
  {<<Verdict(view.tests[t].claim, t, a[1], a[2]), Log("verdict", t)>> :
     a \in {"killed", "unclear", "provisional"} \X BOOLEAN}

ReviewAnswers(v) == {<<Review(v, result), Log("review", v)>> : result \in {"upheld", "overturned"}}

\* The write-up's entry keeps the statuses of the view it was written from.
Findings(view) ==
  [op |-> "log", entry |-> [step |-> "findings", target |-> CurrentIdea(view),
                            statuses |-> ClaimStatuses(view)]]
FindingsAnswers(view) ==
  {<<Note("summary")>> \o Times(n, Note("variant")) \o <<Findings(view)>> : n \in 0..MaxVariants}

Answers(s) ==
  CASE s.name = "frame" -> FrameAnswers
    [] s.name = "survey" -> SurveyAnswers
    [] s.name = "split" -> SplitAnswers(s.view, s.target)
    [] s.name = "design" -> DesignAnswers(s.view)
    [] s.name \in {"gather", "script", "read"} -> {<<Log(s.name, s.target)>>}
    [] s.name = "run" -> RunAnswers(s.view, s.target)
    [] s.name = "verdict" -> VerdictAnswers(s.view, s.target)
    [] s.name = "review" -> ReviewAnswers(s.target)
    [] s.name = "findings" -> FindingsAnswers(s.view)

-----------------------------------------------------------------------------
(* One step, from its view to its last row *)

Idle == [name |-> "none"]

Say(status) == /\ said' = status
               /\ UNCHANGED <<db, step, hands, crashes>>

Start(flags, name, target) ==
  /\ step' = [name |-> name, target |-> target, trust |-> flags.trust,
              view |-> db, thinking |-> TRUE,
              todo |-> <<>>, made |-> <<>>, tries |-> 1]
  /\ said' = "continue"
  /\ UNCHANGED <<db, hands, crashes>>

\* A step that has nothing to ask and goes on to write.
Go(flags, name, todo) ==
  /\ step' = [name |-> name, target |-> 0, trust |-> flags.trust,
              view |-> db, thinking |-> FALSE,
              todo |-> todo, made |-> <<>>, tries |-> 1]
  /\ said' = "continue"
  /\ UNCHANGED <<db, hands, crashes>>

Active == step # Idle

\* The model, a search or an experiment comes back.
AnswerWith(todos) ==
  /\ Active /\ step.thinking
  /\ \E todo \in todos : step' = [step EXCEPT !.thinking = FALSE, !.todo = todo]
  /\ UNCHANGED <<db, said, hands, crashes>>
Answer == AnswerWith(Answers(step))

\* The call fails, or its answer is refused twice; the command ends with an error.
Fail ==
  /\ Active /\ step.thinking
  /\ step' = Idle /\ said' = "failed"
  /\ UNCHANGED <<db, hands, crashes>>

Ending(entry) ==
  IF entry.step \in {"blocked", "findings", "handoff"} \/ (entry.step = "script" /\ ~step.trust)
  THEN "needs-you" ELSE "continue"

Writing == Active /\ ~step.thinking
NextRow == Head(step.todo)

WriteRow ==
  /\ Writing /\ ~Refuses(db, NextRow, step.made)
  /\ db' = Written(db, NextRow, step.made, Now(step.view))
  /\ IF Len(step.todo) = 1 /\ step.name # "reopen"
     THEN /\ step' = Idle
          /\ said' = IF NextRow.op = "log" THEN Ending(NextRow.entry) ELSE "continue"
     ELSE /\ step' = IF Len(step.todo) = 1
                     THEN [step EXCEPT !.name = "findings", !.thinking = TRUE, !.todo = <<>>]
                     ELSE [step EXCEPT !.todo = Tail(@), !.made = @ \o RowMade(db, NextRow)]
          /\ UNCHANGED said
  /\ UNCHANGED <<hands, crashes>>

\* A refused verdict is asked for once more, then recorded as unclear; any other
\* refusal ends the command.
Refused ==
  /\ Writing /\ Refuses(db, NextRow, step.made)
  /\ CASE step.name = "verdict" /\ step.tries = 1 ->
            /\ step' = [step EXCEPT !.thinking = TRUE, !.todo = <<>>, !.tries = 2]
            /\ UNCHANGED said
       [] step.name = "verdict" /\ step.tries = 2 ->
            /\ step' = [step EXCEPT !.tries = 3,
                 !.todo = <<Verdict(step.view.tests[step.target].claim, step.target,
                                    "unclear", TRUE), Log("verdict", step.target)>>]
            /\ UNCHANGED said
       [] OTHER -> step' = Idle /\ said' = "failed"
  /\ UNCHANGED <<db, hands, crashes>>

Crash ==
  /\ Active /\ crashes > 0
  /\ step' = Idle /\ said' = "failed" /\ crashes' = crashes - 1
  /\ UNCHANGED <<db, hands>>

-----------------------------------------------------------------------------
(* advance: the one step the project needs next *)

LastLog(name) == Newest(Logged(db, name))

Frame(flags) == /\ LastLog("frame") = 0
         /\ Start(flags, "frame", 0)

Survey(flags) == /\ LastLog("frame") # 0 /\ LastLog("survey") = 0
          /\ Start(flags, "survey", 0)

Surveyed == LastLog("frame") # 0 /\ LastLog("survey") # 0

QuestionsAnswered ==
  LET question == Newest(LiveNotes(db, {"question"})) IN
  question = 0 \/ NewestConstraint(db) > question

AskOwner(flags) == /\ Surveyed /\ ~QuestionsAnswered /\ ~flags.skipQuestions
            /\ Say("needs-you")

\* Without answers, the assumptions of the framing become constraints, one each.
Assumptions ==
  LET asked == Len(db.log[LastLog("frame")].made) - 1 IN IF asked = 0 THEN 1 ELSE asked
Assume(flags) == /\ Surveyed /\ ~QuestionsAnswered /\ flags.skipQuestions
          /\ Go(flags, "assume", Times(Assumptions, Note("constraint")))

\* Mutant: an accepted variant is split again whenever it is the last one accepted.
AcceptedVariantAgain ==
  LET accept == LastLog("accept") IN
  IF accept = 0 \/ LastLog("findings") > accept THEN 0
  ELSE IF db.notes[db.log[accept].target].live THEN db.log[accept].target ELSE 0

\* The accepted variant that no split has answered yet, or 0.
AcceptedVariant ==
  LET accept == LastLog("accept") IN
  IF accept = 0 \/ LastLog("split") > accept THEN 0
  ELSE IF db.notes[db.log[accept].target].live THEN db.log[accept].target ELSE 0

NeedsSplit == AcceptedVariant # 0 \/ CurrentIdea(db) = 0
Split(flags) == /\ Surveyed /\ QuestionsAnswered /\ NeedsSplit
         /\ Start(flags, "split", AcceptedVariant)

\* The idea's first claim with a test no verdict answers.
OpenClaims == {c \in IdeaClaims(db) : OpenTest(db, c) # 0}
InPass == Surveyed /\ QuestionsAnswered /\ ~NeedsSplit
WorkOn(t) ==
  /\ InPass /\ OpenClaims # {}
  /\ t = OpenTest(db, CHOOSE c \in OpenClaims : \A d \in OpenClaims : c <= d)

LastLogOn(name, t) == Newest(LoggedOn(db, name, t))
Designed(t) == LastLogOn("design", t) # 0
WorkByHand(t) == /\ WorkOn(t) /\ ~Designed(t)
                 /\ Say("needs-you")

DeskStep(flags, t) ==
  /\ WorkOn(t) /\ Designed(t) /\ db.tests[t].kind = "desk"
  /\ CASE LastLogOn("gather", t) = 0 -> Start(flags, "gather", t)
       [] LastLogOn("gather", t) # 0 /\ LastLogOn("read", t) = 0 -> Start(flags, "read", t)
       [] OTHER -> Start(flags, "verdict", t)

LastFailed(t) == Runs(db, t) # {} /\ ~db.runs[Newest(Runs(db, t))].ok
NeedsScript(t) ==
  \/ LastLogOn("script", t) = 0
  \/ /\ LastLogOn("run", t) > LastLogOn("script", t)
     /\ LastFailed(t)
     /\ Cardinality(Runs(db, t)) < MAX_RUNS
NeedsRun(t) == ~NeedsScript(t) /\ LastLogOn("run", t) < LastLogOn("script", t)
NeedsRead(t) == /\ \E r \in Runs(db, t) : db.runs[r].ok
                /\ LastLogOn("read", t) < LastLogOn("run", t)

ExperimentStep(flags, t) ==
  /\ WorkOn(t) /\ Designed(t) /\ db.tests[t].kind = "experiment"
  /\ CASE NeedsScript(t) -> Start(flags, "script", t)
       [] NeedsRun(t) -> IF flags.trust THEN Start(flags, "run", t) ELSE Say("needs-you")
       [] ~NeedsScript(t) /\ ~NeedsRun(t) /\ NeedsRead(t) -> Start(flags, "read", t)
       [] OTHER -> Start(flags, "verdict", t)

\* experiment approve: the newest script of a live experiment, unless it already ran.
ApproveAgain(flags, t) ==  \* a mutant: without the ALREADY_RAN check
  /\ step = Idle
  /\ LastLogOn("script", t) # 0
  /\ db.tests[t].live
  /\ Start(flags, "run", t)
Approve(flags, t) ==
  /\ step = Idle
  /\ LastLogOn("script", t) # 0
  /\ LastLogOn("run", t) < LastLogOn("script", t)
  /\ db.tests[t].live
  /\ Start(flags, "run", t)

NoOpenTest == InPass /\ OpenClaims = {}

\* Mutant: an unclear verdict is never reviewed.
AwaitingReviewOfResults ==
  {c \in IdeaClaims(db) : Status(db, c) \in {"provisional", "kill-pending"}}

AwaitingReview ==
  {c \in IdeaClaims(db) :
     \/ Status(db, c) \in {"provisional", "kill-pending"}
     \/ Status(db, c) = "unclear" /\ db.verdicts[Newest(Verdicts(db, c))].reviews = {}}
ReviewOne(flags) ==
  /\ NoOpenTest /\ AwaitingReview # {}
  /\ LET c == CHOOSE x \in AwaitingReview : \A y \in AwaitingReview : x <= y
     IN  Start(flags, "review", Newest(Verdicts(db, c)))

Dead == \E c \in IdeaClaims(db) : Status(db, c) = "killed" /\ db.claims[c].kind # "feasibility"
PassOver == NoOpenTest /\ AwaitingReview = {} /\ (Dead \/ Testable(db) = {})

\* Work is every entry that is not part of a write-up.
LastWork == Newest({i \in Ids(db.log) : db.log[i].step \notin {"findings", "handoff"}})
LastFindings == LastLog("findings")
WrittenUp == LastFindings > LastWork

\* What was recorded since the write-up and makes it stale.
Changed ==
  \/ db.log[LastFindings].target # CurrentIdea(db)
  \/ db.log[LastFindings].statuses # ClaimStatuses(db)
  \/ \E c \in IdeaClaims(db) : \E v \in Verdicts(db, c) :
       \/ db.verdicts[v].at > db.log[LastFindings].at
       \/ \E r \in db.verdicts[v].reviews : r.at > db.log[LastFindings].at

Steer == /\ PassOver /\ WrittenUp /\ ~Changed
         /\ Say("done")

\* A stale write-up is reopened, and the same command goes on to write the next one.
HandOffEntry == [op |-> "log", entry |-> [step |-> "handoff", target |-> CurrentIdea(db),
                                          notes |-> Len(db.notes)]]
Reopen(flags) == /\ PassOver /\ WrittenUp /\ Changed
          /\ IF flags.agentFindings
             THEN Go(flags, "handoff", <<Log("reopen", CurrentIdea(db)), HandOffEntry>>)
             ELSE Go(flags, "reopen", <<Log("reopen", CurrentIdea(db))>>)

WriteUp(flags) == /\ PassOver /\ ~WrittenUp /\ ~flags.agentFindings
           /\ Start(flags, "findings", CurrentIdea(db))

\* With --agent-findings the pass is closed by notes newer than the request for them.
HandOffs == {i \in Logged(db, "handoff") : i > LastWork}
WrittenByAgent ==
  {n \in LiveNotes(db, {"summary", "finding", "variant"}) : n > db.log[Newest(HandOffs)].notes}
HandOff(flags) ==
  /\ PassOver /\ ~WrittenUp /\ flags.agentFindings
  /\ CASE HandOffs = {} ->
            Go(flags, "handoff", <<HandOffEntry>>)
       [] HandOffs # {} /\ WrittenByAgent = {} -> Say("needs-you")
       [] OTHER -> Go(flags, "findings", <<Findings(db)>>)

\* The last thing the loop did was to ask, and the owner has added nothing since.
Waiting ==
  LET last == Len(db.log) IN
  /\ db.log[last].step = "blocked"
  /\ db.log[last].target \in Testable(db)
  /\ db.log[last].notes = NewestConstraint(db)
  /\ db.log[last].files = db.files
NeedsDesign == NoOpenTest /\ AwaitingReview = {} /\ ~Dead /\ Testable(db) # {}
Wait == NeedsDesign /\ Waiting /\ Say("waiting")
Design(flags) == /\ NeedsDesign /\ ~Waiting
          /\ Start(flags, "design", 0)

Advance ==
  /\ step = Idle
  /\ \E flags \in Commands :
       \/ Frame(flags) \/ Survey(flags) \/ AskOwner(flags) \/ Assume(flags) \/ Split(flags)
       \/ \E t \in Ids(db.tests) :
            WorkByHand(t) \/ DeskStep(flags, t) \/ ExperimentStep(flags, t)
       \/ ReviewOne(flags) \/ Steer \/ Reopen(flags) \/ WriteUp(flags) \/ HandOff(flags)
       \/ Wait \/ Design(flags)

-----------------------------------------------------------------------------
(* The owner, by hand and with commands of their own *)

ByHand(edit) ==
  /\ hands # <<>> /\ edit = Head(hands)
  /\ hands' = Tail(hands)
  /\ said' = IF step = Idle THEN "edited" ELSE said
  /\ UNCHANGED <<step, crashes>>

WriteByHand(edit, w) ==
  /\ ByHand(edit) /\ ~Refuses(db, w, <<>>)
  /\ db' = Written(db, w, <<>>, Now(db))

AddConstraint == WriteByHand("constraint", Note("constraint"))
AddFile == ByHand("file") /\ db' = [db EXCEPT !.files = @ + 1]
AddWriteUp == \E kind \in {"summary", "finding", "variant"} : WriteByHand("write-up", Note(kind))
Accept == \E n \in LiveNotes(db, {"variant"}) : WriteByHand("accept", Log("accept", n))
AddTest == \E c \in Ids(db.claims), kind \in TestKinds : WriteByHand("test", Test(c, kind))
RunByHand == \E t \in Ids(db.tests), ok \in BOOLEAN : WriteByHand("run", Run(t, ok, 0))

\* A provisional verdict has to answer a test of its claim.
AddVerdict ==
  \E c \in Ids(db.claims), result \in {"killed", "unclear", "provisional"} :
    \E t \in LiveTests(db, c) \cup {0} :
      /\ result = "provisional" => t # 0
      /\ WriteByHand("verdict", Verdict(c, t, result, TRUE))
AddReview ==
  \E v \in Ids(db.verdicts), result \in {"upheld", "overturned"} :
    WriteByHand("review", Review(v, result))

RetractTest == \E t \in Ids(db.tests) :
  ByHand("retract-test") /\ db.tests[t].live /\ db' = [db EXCEPT !.tests[t].live = FALSE]
RetractClaim == \E c \in Ids(db.claims) :
  ByHand("retract-claim") /\ db.claims[c].live /\ db' = [db EXCEPT !.claims[c].live = FALSE]
RetractQuote == \E v \in Ids(db.verdicts) :
  ByHand("retract-quote") /\ db.verdicts[v].stands /\ db' = [db EXCEPT !.verdicts[v].stands = FALSE]
RetractNote == \E n \in Ids(db.notes) :
  ByHand("retract-note") /\ db.notes[n].live /\ db' = [db EXCEPT !.notes[n].live = FALSE]
RetractIdea == \E i \in Ids(db.ideas) :
  ByHand("retract-idea") /\ db.ideas[i].live /\ db' = [db EXCEPT !.ideas[i].live = FALSE]

OwnerStep ==
  \/ AddConstraint \/ AddFile \/ AddWriteUp \/ Accept \/ AddTest \/ RunByHand
  \/ AddVerdict \/ AddReview
  \/ RetractTest \/ RetractClaim \/ RetractQuote \/ RetractNote \/ RetractIdea

-----------------------------------------------------------------------------
EmptyProject == [notes |-> <<>>, claims |-> <<>>, ideas |-> <<>>, tests |-> <<>>,
                 runs |-> <<>>, files |-> 0, verdicts |-> <<>>, log |-> <<>>]

StartFrom(project, plans, deaths) ==
  /\ db = project /\ step = Idle /\ said = "continue"
  /\ hands \in plans /\ crashes = deaths

Init == StartFrom(EmptyProject, Plans, MaxCrashes)

Next ==
  \/ Advance
  \/ \E flags \in Commands, t \in Ids(db.tests) : Approve(flags, t)
  \/ Answer \/ Fail \/ WriteRow \/ Refused \/ Crash
  \/ OwnerStep

Spec == Init /\ [][Next]_vars

\* The owner runs `auto' again whenever it stopped, a command that runs goes on
\* writing, and a model that is asked over and over some time gives an answer that
\* the ledger takes.
AnswerWell == AnswerWith({todo \in Answers(step) : ~Refuses(db, todo[1], <<>>)})
Fairness == WF_vars(Advance) /\ WF_vars(WriteRow \/ Refused) /\ SF_vars(AnswerWell)

FairSpec == Spec /\ Fairness

-----------------------------------------------------------------------------
(* Properties *)

\* When the loop says the pass is done, no test of the idea is unanswered, every
\* verdict that counts was reviewed, the idea is dead or each of its claims is settled
\* or out of tests, and the write-up says what the claims are now (advance).
DoneIsEarned ==
  said = "done" =>
    LET claims == IdeaClaims(db) IN
    /\ \A c \in claims :
         /\ OpenTest(db, c) = 0
         /\ \A v \in Verdicts(db, c) :
              v = Newest(Verdicts(db, c)) => Stale(db, v) \/ db.verdicts[v].reviews # {}
    /\ \/ \E c \in claims : Status(db, c) = "killed"
       \/ \A c \in claims : \/ Status(db, c) \in {"supported", "killed"}
                            \/ Cardinality(LiveTests(db, c)) >= MAX_TESTS_PER_CLAIM
                            \/ c \in SetAside(db)
    /\ db.log[LastFindings].statuses = ClaimStatuses(db)

\* A pass nobody interrupts comes to its end (advance, advanceUntilBlocked).
PassFinishes == <>[](said = "done")

\* A reviewer of an experiment is shown each run of the loop with the code that
\* produced it, though runs and scripts are only paired by position (runCode).
CodeOfRun(t, i) ==
  LET scripts == SetToSortSeq(LoggedOn(db, "script", t), <) IN
  IF i <= Len(scripts) THEN scripts[i] ELSE 0
ReviewSeesItsCode ==
  \A t \in Ids(db.tests) :
    LET runs == SetToSortSeq(LoggedOn(db, "run", t), <) IN
    \A i \in 1..Len(runs) : db.runs[db.log[runs[i]].made[1]].script = CodeOfRun(t, i)

\* The loop writes at most MAX_RUNS scripts for one experiment and logs at most as many
\* runs of them, whatever was run by hand and whatever a dying process lost (advance).
LoopRunsBounded ==
  \A t \in Ids(db.tests) : /\ Cardinality(LoggedOn(db, "script", t)) <= MAX_RUNS
                           /\ Cardinality(LoggedOn(db, "run", t)) <= MAX_RUNS

\* A finished pass was written up after its last step, by the model or by the calling
\* agent: notes from before it was reopened or handed off do not close it (handOff).
WriteUpIsFresh ==
  said = "done" =>
    \E n \in Ids(db.notes) : /\ db.notes[n].kind \in {"summary", "finding", "variant"}
                             /\ db.notes[n].at > db.log[LastWork].at

\* A pass is called done only when it is, on a write-up of its own (advance, handOff).
PassIsEarned == DoneIsEarned /\ WriteUpIsFresh

\* The loop never waits for an answer the owner has already given: no constraint was
\* added after the design read the project it asked from (design, advance).
NoAnswerIgnored ==
  said = "waiting" =>
    \A n \in LiveNotes(db, {"constraint"}) : db.notes[n].at < Last(db.log).since

\* A claim is set aside only after the owner was asked about it and said something
\* after that (design).
SetAsideAfterAnswer ==
  \A i \in Logged(db, "untestable") :
    \E j \in LoggedOn(db, "blocked", db.log[i].target), n \in Ids(db.notes) :
      /\ j < i
      /\ db.notes[n].kind = "constraint"
      /\ db.log[j].since <= db.notes[n].at /\ db.notes[n].at < db.log[i].at


\* A variant is split at most as often as it was accepted: two commands, or a process
\* that died in between, never make two ideas of one choice that the log knows of
\* (advance, split).
IdeasAreChosen ==
  \A n \in Ids(db.notes) :
    Cardinality(LoggedOn(db, "split", n)) <= Cardinality(LoggedOn(db, "accept", n))

\* The log tells what was done of what: scripts and runs stay paired and bounded, ideas are made of
\* variants that were chosen, and nothing the owner said is overlooked or taken for said, whatever
\* is done by hand meanwhile (runCode, advance, split, design).
LogIsFollowed ==
  ReviewSeesItsCode /\ LoopRunsBounded /\ IdeasAreChosen /\ NoAnswerIgnored /\ SetAsideAfterAnswer
=============================================================================

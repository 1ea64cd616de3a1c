------------------------------ MODULE MCLedger ------------------------------
(***************************************************************************)
(* The evidence ledger on small instances.  Each scenario bounds the       *)
(* tables to the rows its question needs, and starts from a ledger         *)
(* somebody has already written those rows in that the question does not   *)
(* turn on; the last one starts from an empty ledger.  The stamp of the    *)
(* first project tells the others apart.                                   *)
(***************************************************************************)
EXTENDS LedgerHistory, LedgerLifecycle, FiniteSetsExt, TLC

\* Ada goes by two labels; a dash names nobody.
MCName == {"ada", "@Ada", "bob", "-"}
MCSpeakerKey == [n \in MCName |-> CASE n = "bob" -> "bob"
                                    [] n = "-"   -> "none"
                                    [] OTHER     -> "ada"]

Page(text) == [kind |-> "page", text |-> text]
File(text) == [kind |-> "file", text |-> text]
MCFetches == {Page({"s1"}), Page({}), File({"s1"})}

\* A ledger in which the given rows were written, the tests before any source.  The clock
\* ticks in the fifth scenario only, and writes are cut short in the fourth and the sixth.
StartFrom(rows, scenario) ==
  /\ ledger = rows @@ EmptyLedger
  /\ job = [p \in Process |-> Idle]
  /\ lastStamp = [p \in Process |-> 19]
  /\ clock = IF scenario = 5 THEN 19 ELSE MaxClock
  /\ restarts = IF scenario \in {4, 6} THEN 0 ELSE MaxRestarts
  /\ before = [t \in DOMAIN ledger.tests |-> [sources |-> 0, searches |-> 0]]
  /\ basis = <<>> /\ torn = {}

ProjectAt(at) == [at |-> at]
ClaimAt(kind, at) == [project |-> 1, kind |-> kind, at |-> at]
TestAt(claim, kind, at) == [claim |-> claim, kind |-> kind, at |-> at]
SourceAt(fetched, at) == [SourceRow(1, 0, fetched, 0) EXCEPT !.at = at]
QuoteAt(source, text, speaker, kind, at) ==
  [source |-> source, text |-> text, speaker |-> speaker, kind |-> kind, at |-> at]
VerdictAt(claim, test, result, author, at) ==
  [claim |-> claim, test |-> test, result |-> result, author |-> author, at |-> at]

-----------------------------------------------------------------------------
\* 1. Support of a need: a test was written, then a page of two sentences was saved and
\* the first was quoted.
SupportInit ==
  StartFrom([projects |-> <<ProjectAt(1)>>,
             claims |-> <<ClaimAt("need", 6)>>,
             tests |-> <<TestAt(1, "desk", 7)>>,
             sources |-> <<SourceAt(Page({"s1", "s2"}), 8)>>,
             quotes |-> <<QuoteAt(1, {"s1"}, "ada", "firsthand", 9)>>], 1)

\* 2. Support of an experiment: pages, excerpts and runs to cite, before and after the
\* test they are cited for.
ExperimentInit ==
  StartFrom([projects |-> <<ProjectAt(2)>>,
             claims |-> <<ClaimAt("mechanism", 6)>>,
             tests |-> <<TestAt(1, "experiment", 7)>>], 2)

\* 3. Two projects side by side; the first has a quote and a claim.
ProjectsInit ==
  StartFrom([projects |-> <<ProjectAt(3)>>,
             claims |-> <<ClaimAt("gap", 6)>>,
             sources |-> <<SourceAt(Page({"s1"}), 7)>>,
             quotes |-> <<QuoteAt(1, {"s1"}, "ada", "other", 8)>>], 3)

\* 4. Two projects, each with a claim and a test; searches and fetches go to either.
SearchesInit ==
  StartFrom([projects |-> <<ProjectAt(4), ProjectAt(5)>>,
             claims |-> <<ClaimAt("gap", 6), [ClaimAt("gap", 7) EXCEPT !.project = 2]>>,
             tests |-> <<TestAt(1, "desk", 8), TestAt(2, "desk", 9)>>], 4)

\* 5. A claim with a test, and a second one to come that cites the same quote.
LifecycleInit ==
  StartFrom([projects |-> <<ProjectAt(5)>>,
             claims |-> <<ClaimAt("gap", 6)>>,
             tests |-> <<TestAt(1, "desk", 7)>>,
             sources |-> <<SourceAt(Page({"s1"}), 8)>>,
             quotes |-> <<QuoteAt(1, {"s1"}, "ada", "other", 9)>>], 5)

\* 6. Two writers on a claim with a provisional verdict that nobody has reviewed.
WritersInit ==
  StartFrom([projects |-> <<ProjectAt(6)>>,
             claims |-> <<ClaimAt("gap", 7)>>,
             tests |-> <<TestAt(1, "desk", 8)>>,
             sources |-> <<SourceAt(Page({"s1"}), 9)>>,
             quotes |-> <<QuoteAt(1, {"s1"}, "ada", "other", 10)>>,
             verdicts |-> <<VerdictAt(1, 1, "provisional", "ada", 11)>>,
             verdict_quotes |-> {<<1, 1>>}], 6)

\* 7. Two writers on a claim that has no verdict yet.
FirstVerdictInit ==
  StartFrom([projects |-> <<ProjectAt(7)>>,
             claims |-> <<ClaimAt("gap", 8)>>,
             tests |-> <<TestAt(1, "desk", 9)>>,
             sources |-> <<SourceAt(Page({"s1"}), 10)>>,
             quotes |-> <<QuoteAt(1, {"s1"}, "ada", "other", 11)>>], 7)

-----------------------------------------------------------------------------
\* 8. One writer, from an empty ledger, with a clock that is slower than the writer.
Empty == \E p \in Process : lastStamp[p] < 19
Scenario == IF Empty THEN 8 ELSE ledger.projects[1].at

NoRows == [t \in RowTable |-> 0]
RowsOfScenario ==
  << [quotes |-> 2, verdicts |-> 1, reviews |-> 1, retractions |-> 1],
     [sources |-> 2, quotes |-> 1, tests |-> 2, verdicts |-> 1, reviews |-> 1],
     [projects |-> 2, project_events |-> 2, notes |-> 1, ideas |-> 1, steps |-> 1],
     [searches |-> 1, sources |-> 1, verdicts |-> 1, retractions |-> 1],
     [claims |-> 2, verdicts |-> 2, reviews |-> 2, retractions |-> 1],
     [verdicts |-> 2, reviews |-> 1, retractions |-> 1],
     [verdicts |-> 1, reviews |-> 1, retractions |-> 1],
     [projects |-> 1, searches |-> 1, sources |-> 2, quotes |-> 1, claims |-> 1,
      tests |-> 1, verdicts |-> 1, ideas |-> 1] >>
MCMaxRows(rows) == RowsOfScenario[Scenario] @@ NoRows

\* A scenario does not hold all the rows there is room for at once: the second has three of
\* the sources, quotes and tests it could have, the fourth three rows more than it started
\* from, the fifth four more, those of two writers two more.
Rows(tables) == MapThenSumSet(LAMBDA t : Len(ledger[t]), tables)
FewRows ==
  CASE Scenario = 2 -> Rows({"sources", "quotes", "tests"}) <= 3
    [] Scenario \in {4, 5} -> Rows(RowTable) <= 9
    [] Scenario = 6 -> Rows(RowTable) <= 8
    [] Scenario = 7 -> Rows(RowTable) <= 7
    [] Scenario = 8 -> Rows({"sources", "ideas"}) <= 2 /\ Rows(RowTable) <= 7
    [] OTHER -> TRUE

\* Two processes write in the sixth and the seventh; in the others one does, and bob reviews.
OneWriter ==
  \/ Scenario \in {6, 7}
  \/ /\ Cardinality({p \in Process : lastStamp[p] \notin {0, 19} \/ job[p] # Idle}) <= 1
     /\ \A r \in IdsOf("reviews") : ledger.reviews[r].reviewer = "bob"

\* The eighth has pages, desk tests and what bob says himself, and no write of it is cut short.
Plain ==
  Scenario = 8 =>
    /\ clock <= 1 /\ restarts = 0
    /\ \A s \in IdsOf("sources") : ledger.sources[s].kind = "page"
    /\ \A t \in IdsOf("tests") : ledger.tests[t].kind = "desk"
    /\ \A q \in IdsOf("quotes") : ledger.quotes[q].speaker = "bob" /\ ledger.quotes[q].kind = "firsthand"

\* No process dies between a verdict, an idea or a note and what it cites, which
\* SupportIsEarned and CitationsHold assume (WholeNext); one may between a search and its results.
WholeCitations ==
  \A w \in Process : job[w].owner # 0 /\ job[w].table # "searches" => ~Cut(w)

LedgerSpec ==
  /\ \/ SupportInit \/ ExperimentInit \/ ProjectsInit \/ SearchesInit \/ LifecycleInit
     \/ WritersInit \/ FirstVerdictInit \/ HistoryInit
  /\ [][HistoryNext /\ WholeCitations /\ (OneWriter /\ Plain)']_historyVars

-----------------------------------------------------------------------------
MCClaims == 1..2

Writers == Permutations(Process)
=============================================================================

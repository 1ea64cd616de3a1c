--------------------------- MODULE EvidenceLedger ---------------------------
(***************************************************************************)
(* The evidence ledger behind the scraply CLI (src/src/cli/ledger.ts): an  *)
(* append-only database of projects, searches, sources, quotes, claims,    *)
(* tests, verdicts, reviews, ideas and retractions.  Every status a reader *)
(* sees is computed from the rows, as they are now or as they were.        *)
(*                                                                         *)
(* A CLI process runs one operation at a time.  An operation first reads   *)
(* the ledger and refuses what the rules forbid, then inserts its row, then *)
(* the rows that link to it, each in an SQLite transaction of its own.     *)
(* Other processes may read or write between any two of those steps, and   *)
(* the process may die there.  job[p] is what process p has yet to insert. *)
(*                                                                         *)
(* Data.  A text is a set of sentences and a passage a nonempty one; a     *)
(* quote is verbatim when its passage is part of the text.  Names are the  *)
(* labels callers pass, SpeakerKey their normalised form.  Ids are row     *)
(* positions.  Stamps are wall-clock milliseconds.  p stands for one       *)
(* process, or for a series of commands each started after the clock has   *)
(* passed the last stamp of the one before, so that it stamps as p does.   *)
(***************************************************************************)
EXTENDS Integers, Sequences, FiniteSets

CONSTANTS
  Process,      \* the CLI processes that have the ledger open
  Name,         \* speaker, author and reviewer labels
  SpeakerKey,   \* [Name -> keys]: labels of one person share a key
  NoKey,        \* the key of a label with neither letter nor digit
  Sentence,     \* what sources say, sentence by sentence
  Fetches,      \* the fetches that may come back, failed ones too
  Speakers,     \* the labels quotes are attributed to
  Authors,      \* the labels verdicts are signed with
  Reviewers,    \* the labels reviews are signed with
  ClaimKinds,   \* the kinds of claim callers use
  QuoteKinds,   \* the kinds of quote callers use
  NoteKinds,    \* the kinds of note callers use
  TestKinds,    \* the kinds of test callers use
  MaxRows(_),   \* bound: the rows a table of the given ledger may have when an
                \*        operation starts
  MaxCited,     \* bound: the quotes or claims one operation cites
  MaxClock,     \* bound: the wall clock
  MaxRestarts   \* bound: how often a process dies in the middle of a write

CLAIM_KINDS == {"need", "gap", "mechanism", "feasibility"}
QUOTE_KINDS == {"firsthand", "measured", "vendor", "other"}
VERDICT_RESULTS == {"killed", "unclear", "provisional"}
REVIEW_RESULTS == {"upheld", "overturned"}
NOTE_KINDS == {"constraint", "framing", "prior-art", "question", "summary",
               "finding", "variant"}
TEST_KINDS == {"desk", "experiment"}
RETRACTABLE == {"notes", "quotes", "claims", "tests", "ideas"}
SOURCE_KINDS == {"page", "excerpt", "file"}
NEED_EVIDENCE == {"firsthand", "measured"}

\* Tables whose rows have an id and a stamp, and tables that only link rows.
RowTable == {"projects", "project_events", "notes", "searches", "sources",
             "quotes", "claims", "tests", "verdicts", "reviews", "ideas",
             "retractions", "steps"}
LinkTable == {"note_quotes", "verdict_quotes", "idea_claims"}

\* The fetched texts; the empty text stands for a fetch that returned none.
Fetched == [kind : SOURCE_KINDS, text : SUBSET Sentence]
Passage == SUBSET Sentence \ {{}}

ASSUME LedgerAssumption ==
  /\ Process # {} /\ IsFiniteSet(Process)
  /\ NoKey \notin Name
  /\ SpeakerKey \in [Name -> (Name \cup {NoKey})]
  /\ Fetches \subseteq Fetched
  /\ Speakers \subseteq Name
  /\ Authors \subseteq Name
  /\ Reviewers \subseteq Name
  /\ ClaimKinds \subseteq CLAIM_KINDS
  /\ QuoteKinds \subseteq QUOTE_KINDS
  /\ NoteKinds \subseteq NOTE_KINDS
  /\ TestKinds \subseteq TEST_KINDS
  /\ MaxCited \in Nat
  /\ MaxClock \in Nat
  /\ MaxRestarts \in Nat

VARIABLES
  ledger,     \* the tables: [RowTable -> sequences of rows], [LinkTable -> pairs]
  job,        \* job[p]: the insert process p has under way, or Idle
  lastStamp,  \* lastStamp[p]: the newest stamp process p has given out
  clock,      \* the wall clock
  restarts    \* how many writes were cut short so far

vars == <<ledger, job, lastStamp, clock, restarts>>

Idle == [table |-> "none", owner |-> 0]

(***************************************************************************)
(* The rows.  id 0 is the null reference; `at' is filled in by the insert. *)
(***************************************************************************)
Project == [at : Nat]
ProjectEvent == [project : Nat, action : {"archive", "restore"}, at : Nat]
Note == [project : Nat, kind : NOTE_KINDS, at : Nat]
Search == [project : Nat, status : {"ok", "empty", "failed"}, at : Nat]
Source == [project : Nat, search : Nat, kind : SOURCE_KINDS,
           status : {"ok", "failed"}, text : SUBSET Sentence, test : Nat, at : Nat]
Quote == [source : Nat, text : Passage, speaker : Name, kind : QUOTE_KINDS, at : Nat]
Claim == [project : Nat, kind : CLAIM_KINDS, at : Nat]
Test == [claim : Nat, kind : TEST_KINDS, at : Nat]
Verdict == [claim : Nat, test : Nat, result : VERDICT_RESULTS, author : Name, at : Nat]
Review == [verdict : Nat, result : REVIEW_RESULTS, reviewer : Name, at : Nat]
Idea == [project : Nat, revises : Nat, at : Nat]
Retraction == [entity : RETRACTABLE, target : Nat, at : Nat]
Step == [project : Nat, at : Nat]

Link == Nat \X Nat

\* The rows each table holds.
RowsOf ==
  [projects |-> Project, project_events |-> ProjectEvent, notes |-> Note,
   searches |-> Search, sources |-> Source, quotes |-> Quote, claims |-> Claim,
   tests |-> Test, verdicts |-> Verdict, reviews |-> Review, ideas |-> Idea,
   retractions |-> Retraction, steps |-> Step]

EmptyLedger == [t \in RowTable \cup LinkTable |-> IF t \in RowTable THEN <<>> ELSE {}]

(***************************************************************************)
(* Reading the ledger, now or as it stood at a moment.                     *)
(***************************************************************************)
LATEST == -1  \* sorts after every stamp

UpTo(at, asOf) == asOf = LATEST \/ at <= asOf

IdsOf(table) == DOMAIN ledger[table]

Retracted(entity, id, asOf) ==
  \E x \in IdsOf("retractions") :
    /\ ledger.retractions[x].entity = entity
    /\ ledger.retractions[x].target = id
    /\ UpTo(ledger.retractions[x].at, asOf)

Active(entity, id) == ~Retracted(entity, id, LATEST)

Newest(ids) == CHOOSE id \in ids : \A other \in ids : other <= id

Archived(project) ==
  LET events == {e \in IdsOf("project_events") :
                   ledger.project_events[e].project = project}
  IN  events # {} /\ ledger.project_events[Newest(events)].action = "archive"

Cited(verdict) == {q \in IdsOf("quotes") : <<verdict, q>> \in ledger.verdict_quotes}

\* Mutant: statuses as of a moment forget to leave out later verdicts.
VerdictsOfAnyTime(claim, asOf) ==
  {v \in IdsOf("verdicts") : ledger.verdicts[v].claim = claim}

VerdictsOf(claim, asOf) ==
  {v \in IdsOf("verdicts") : /\ ledger.verdicts[v].claim = claim
                             /\ UpTo(ledger.verdicts[v].at, asOf)}

ReviewsOf(verdict, asOf) ==
  {r \in IdsOf("reviews") : /\ ledger.reviews[r].verdict = verdict
                            /\ UpTo(ledger.reviews[r].at, asOf)}

LiveTests(claim, asOf) ==
  {t \in IdsOf("tests") : /\ ledger.tests[t].claim = claim
                          /\ UpTo(ledger.tests[t].at, asOf)
                          /\ ~Retracted("tests", t, asOf)}

Overturned(verdict, asOf) ==
  \E r \in ReviewsOf(verdict, asOf) : ledger.reviews[r].result = "overturned"

\* Mutant: a retracted quote does not spoil the verdicts that cite it.
VerdictStaleByTest(verdict, asOf) ==
  /\ ledger.verdicts[verdict].test # 0
  /\ Retracted("tests", ledger.verdicts[verdict].test, asOf)

\* A verdict citing a retracted quote or answering a retracted test no longer stands.
VerdictStale(verdict, asOf) ==
  \/ /\ ledger.verdicts[verdict].test # 0
     /\ Retracted("tests", ledger.verdicts[verdict].test, asOf)
  \/ \E q \in Cited(verdict) : Retracted("quotes", q, asOf)

\* Mutant: a kill takes effect before anybody reviewed it.
VerdictMeansAtOnce(verdict, asOf) ==
  LET result == ledger.verdicts[verdict].result
      reviewed == ReviewsOf(verdict, asOf) # {}
  IN  CASE result = "unclear"     -> "unclear"
        [] result = "provisional" -> IF reviewed THEN "supported" ELSE "provisional"
        [] OTHER                  -> "killed"

\* What a verdict that still stands means for its claim, given its reviews.
VerdictMeans(verdict, asOf) ==
  LET result == ledger.verdicts[verdict].result
      reviewed == ReviewsOf(verdict, asOf) # {}
  IN  CASE result = "unclear"     -> "unclear"
        [] result = "provisional" -> IF reviewed THEN "supported" ELSE "provisional"
        [] OTHER                  -> IF reviewed THEN "killed" ELSE "kill-pending"

ClaimStatus(claim, asOf) ==
  LET verdicts == VerdictsOf(claim, asOf)
      latest == Newest(verdicts)
  IN  IF Retracted("claims", claim, asOf) THEN "retracted"
      ELSE IF verdicts = {}
        THEN IF LiveTests(claim, asOf) # {} THEN "testing" ELSE "untested"
      ELSE IF VerdictStale(latest, asOf) THEN "stale"
      ELSE IF Overturned(latest, asOf) THEN "overturned"
      ELSE VerdictMeans(latest, asOf)

ClaimsOf(idea) == {c \in IdsOf("claims") : <<idea, c>> \in ledger.idea_claims}

SourceText(quote) == ledger.sources[ledger.quotes[quote].source].text

ProjectOf(quote) == ledger.sources[ledger.quotes[quote].source].project

\* The quotes whose passage no text saved before the test held, in any project.
NewSincePrediction(quotes, test) ==
  {q \in quotes :
     ~ \E s \in IdsOf("sources") :
         /\ ledger.sources[s].status = "ok"
         /\ ledger.sources[s].at < ledger.tests[test].at
         /\ ledger.quotes[q].text \subseteq ledger.sources[s].text}

\* Mutant: a search in any project counts.
LookedAnywhere(project, test) ==
  \/ \E w \in IdsOf("searches") : ledger.searches[w].at > ledger.tests[test].at
  \/ \E s \in IdsOf("sources") :
       /\ ledger.sources[s].project = project
       /\ ledger.sources[s].search = 0
       /\ ledger.sources[s].at > ledger.tests[test].at

\* Whether anything was searched for or fetched directly after the test was written.
LookedSince(project, test) ==
  \/ \E w \in IdsOf("searches") :
       /\ ledger.searches[w].project = project
       /\ ledger.searches[w].at > ledger.tests[test].at
  \/ \E s \in IdsOf("sources") :
       /\ ledger.sources[s].project = project
       /\ ledger.sources[s].search = 0
       /\ ledger.sources[s].at > ledger.tests[test].at

\* Two quotes are one observation when they overlap in a text that holds both.
SamePassage(first, second) ==
  /\ ledger.quotes[first].text \cap ledger.quotes[second].text # {}
  /\ \/ ledger.quotes[second].text \subseteq SourceText(first)
     \/ ledger.quotes[first].text \subseteq SourceText(second)

\* Mutant: superseded verdicts are offered for review too.
ToReviewAll(project) ==
  {v \in IdsOf("verdicts") :
     /\ ledger.claims[ledger.verdicts[v].claim].project = project
     /\ ClaimStatus(ledger.verdicts[v].claim, LATEST) \in {"provisional", "kill-pending"}}

\* The verdicts `review' offers a fresh reviewer.
ToReview(project) ==
  {v \in IdsOf("verdicts") :
     LET c == ledger.verdicts[v].claim
         status == ClaimStatus(c, LATEST)
     IN  /\ ledger.claims[c].project = project
         /\ v = Newest(VerdictsOf(c, LATEST))
         /\ \/ status \in {"provisional", "kill-pending"}
            \/ status = "unclear" /\ ReviewsOf(v, LATEST) = {}}

(***************************************************************************)
(* Writing: an operation that passed its checks hands its row and the rows *)
(* that will link to it to the process, which inserts them one by one.     *)
(***************************************************************************)
Begin(p, table, row, links) ==
  /\ job[p] = Idle
  /\ Len(ledger[table]) < MaxRows(ledger)[table]
  /\ job' = [job EXCEPT ![p] = [table |-> table, row |-> row, links |-> links, owner |-> 0]]
  /\ UNCHANGED <<ledger, lastStamp, clock, restarts>>

\* stamp(): the wall clock, or one more than this process's last stamp.
Stamp(p) == IF clock > lastStamp[p] THEN clock ELSE lastStamp[p] + 1

\* retractions(entity, target_id) is UNIQUE; the insert of a second one throws.
Refused(table, row) ==
  table = "retractions" /\ ~Active(row.entity, row.target)

SourceRow(project, search, fetched, test) ==
  [project |-> project, search |-> search, kind |-> fetched.kind,
   status |-> IF fetched.text = {} THEN "failed" ELSE "ok",
   text |-> fetched.text, test |-> test, at |-> 0]

InsertRow(p) ==
  /\ job[p] # Idle
  /\ job[p].owner = 0
  /\ LET table == job[p].table
         row == [job[p].row EXCEPT !.at = Stamp(p)]
         id == Len(ledger[table]) + 1
     IN  /\ lastStamp' = [lastStamp EXCEPT ![p] = Stamp(p)]
         /\ IF Refused(table, row)
              THEN /\ job' = [job EXCEPT ![p] = Idle]
                   /\ UNCHANGED ledger
              ELSE /\ ledger' = [ledger EXCEPT ![table] = Append(@, row)]
                   /\ job' = [job EXCEPT ![p] = IF @.links = {} THEN Idle
                                                ELSE [@ EXCEPT !.owner = id]]
  /\ UNCHANGED <<clock, restarts>>

AfterLink(p, link) ==
  IF job[p].links = {link} THEN Idle ELSE [job[p] EXCEPT !.links = @ \ {link}]

\* note_quotes, verdict_quotes and idea_claims: one insert per cited row.
InsertLink(p) ==
  /\ job[p] # Idle
  /\ job[p].owner # 0
  /\ job[p].table \in {"notes", "verdicts", "ideas"}
  /\ \E link \in job[p].links :
       LET table == CASE job[p].table = "notes"    -> "note_quotes"
                      [] job[p].table = "verdicts" -> "verdict_quotes"
                      [] job[p].table = "ideas"    -> "idea_claims"
       IN  /\ ledger' = [ledger EXCEPT ![table] = @ \cup {<<job[p].owner, link>>}]
           /\ job' = [job EXCEPT ![p] = AfterLink(p, link)]
  /\ UNCHANGED <<lastStamp, clock, restarts>>

\* A search saves each of its results as a source.
InsertResult(p) ==
  /\ job[p] # Idle
  /\ job[p].owner # 0
  /\ job[p].table = "searches"
  /\ \E link \in job[p].links :
       LET row == SourceRow(job[p].row.project, job[p].owner, link, 0)
       IN  /\ ledger' = [ledger EXCEPT !.sources =
                           Append(@, [row EXCEPT !.at = Stamp(p)])]
           /\ job' = [job EXCEPT ![p] = AfterLink(p, link)]
  /\ lastStamp' = [lastStamp EXCEPT ![p] = Stamp(p)]
  /\ UNCHANGED <<clock, restarts>>

(***************************************************************************)
(* The operations: their refusals are the guards.                          *)
(***************************************************************************)
CreateProject(p) == Begin(p, "projects", [at |-> 0], {})

SetArchived(p) ==
  \E project \in IdsOf("projects"), archive \in BOOLEAN :
    /\ Archived(project) # archive
    /\ Begin(p, "project_events",
             [project |-> project,
              action |-> IF archive THEN "archive" ELSE "restore", at |-> 0], {})

\* The sets of ids an operation may cite.
Citable(ids) == {cited \in SUBSET ids : Cardinality(cited) <= MaxCited}

\* A cited quote is live and comes from the project that cites it.
QuotesUsable(quotes, project) ==
  \A q \in quotes : ProjectOf(q) = project /\ Active("quotes", q)

AddNote(p) ==
  \E project \in IdsOf("projects"), kind \in NoteKinds,
     quotes \in Citable(IdsOf("quotes")) :
    /\ QuotesUsable(quotes, project)
    /\ kind = "finding" => quotes # {}
    /\ Begin(p, "notes", [project |-> project, kind |-> kind, at |-> 0], quotes)

RecordSearch(p) ==
  \E project \in IdsOf("projects") :
    \/ Begin(p, "searches", [project |-> project, status |-> "failed", at |-> 0], {})
    \/ \E results \in Citable(Fetches) :
         Begin(p, "searches",
               [project |-> project,
                status |-> IF results = {} THEN "empty" ELSE "ok", at |-> 0], results)

SaveSource(p) ==
  \E project \in IdsOf("projects"), fetched \in Fetches :
    Begin(p, "sources", SourceRow(project, 0, fetched, 0), {})

AddQuote(p) ==
  \E s \in IdsOf("sources"), passage \in Passage, speaker \in Speakers,
     kind \in QuoteKinds :
    /\ ledger.sources[s].status = "ok"
    /\ ledger.sources[s].kind # "excerpt"
    /\ SpeakerKey[speaker] # NoKey
    /\ passage \subseteq ledger.sources[s].text
    /\ Begin(p, "quotes", [source |-> s, text |-> passage, speaker |-> speaker,
                           kind |-> kind, at |-> 0], {})

AddClaim(p) ==
  \E project \in IdsOf("projects"), kind \in ClaimKinds :
    Begin(p, "claims", [project |-> project, kind |-> kind, at |-> 0], {})

AddTest(p) ==
  \E c \in IdsOf("claims"), kind \in TestKinds :
    /\ Active("claims", c)
    /\ Begin(p, "tests", [claim |-> c, kind |-> kind, at |-> 0], {})

\* The live experiment a run would answer.
RequireExperiment(test) ==
  Active("tests", test) /\ ledger.tests[test].kind = "experiment"

SaveRun(p) ==
  \E t \in IdsOf("tests"), fetched \in Fetches :
    /\ RequireExperiment(t)
    /\ fetched.kind = "file"
    /\ Begin(p, "sources",
             SourceRow(ledger.claims[ledger.tests[t].claim].project, 0, fetched, t), {})

\* What a provisional verdict must rest on, beyond citing quotes.
ProvisionalHolds(claim, test, quotes) ==
  /\ test # 0
  /\ NewSincePrediction(quotes, test) # {}
  /\ ledger.tests[test].kind = "experiment" =>
       \E q \in quotes : ledger.sources[ledger.quotes[q].source].test = test
  /\ ledger.claims[claim].kind = "need" =>
       Cardinality({SpeakerKey[ledger.quotes[q].speaker] :
                      q \in {r \in quotes : ledger.quotes[r].kind \in NEED_EVIDENCE}}) >= 2

\* A kill cites quotes, or answers a test after which somebody looked.
KillHolds(claim, test, quotes) ==
  quotes = {} => test # 0 /\ LookedSince(ledger.claims[claim].project, test)

VerdictHolds(claim, test, result, quotes) ==
  /\ Active("claims", claim)
  /\ test # 0 => ledger.tests[test].claim = claim /\ Active("tests", test)
  /\ QuotesUsable(quotes, ledger.claims[claim].project)
  /\ \A first, second \in quotes : first # second => ~SamePassage(first, second)
  /\ result = "provisional" => quotes # {} /\ ProvisionalHolds(claim, test, quotes)
  /\ result = "killed" => KillHolds(claim, test, quotes)

AddVerdict(p) ==
  \E c \in IdsOf("claims"), t \in IdsOf("tests") \cup {0}, result \in VERDICT_RESULTS,
     author \in Authors, quotes \in Citable(IdsOf("quotes")) :
    /\ VerdictHolds(c, t, result, quotes)
    /\ Begin(p, "verdicts", [claim |-> c, test |-> t, result |-> result,
                             author |-> author, at |-> 0], quotes)

\* Mutant: labels are compared as they were passed.
ReviewHoldsByLabel(verdict, reviewer) ==
  /\ Active("claims", ledger.verdicts[verdict].claim)
  /\ verdict = Newest(VerdictsOf(ledger.verdicts[verdict].claim, LATEST))
  /\ ~VerdictStale(verdict, LATEST)
  /\ reviewer # ledger.verdicts[verdict].author
  /\ ~Overturned(verdict, LATEST)

ReviewHolds(verdict, reviewer) ==
  /\ Active("claims", ledger.verdicts[verdict].claim)
  /\ verdict = Newest(VerdictsOf(ledger.verdicts[verdict].claim, LATEST))
  /\ ~VerdictStale(verdict, LATEST)
  /\ SpeakerKey[reviewer] # SpeakerKey[ledger.verdicts[verdict].author]
  /\ ~Overturned(verdict, LATEST)

AddReview(p) ==
  \E v \in IdsOf("verdicts"), result \in REVIEW_RESULTS, reviewer \in Reviewers :
    /\ ReviewHolds(v, reviewer)
    /\ Begin(p, "reviews", [verdict |-> v, result |-> result,
                            reviewer |-> reviewer, at |-> 0], {})

AddIdea(p) ==
  \E project \in IdsOf("projects"), revises \in IdsOf("ideas") \cup {0},
     claims \in Citable(IdsOf("claims")) \ {{}} :
    /\ \A c \in claims : ledger.claims[c].project = project /\ Active("claims", c)
    /\ revises # 0 => ledger.ideas[revises].project = project
    /\ Begin(p, "ideas", [project |-> project, revises |-> revises, at |-> 0], claims)

Retract(p) ==
  \E entity \in RETRACTABLE : \E id \in IdsOf(entity) :
    /\ Active(entity, id)
    /\ Begin(p, "retractions", [entity |-> entity, target |-> id, at |-> 0], {})

LogStep(p) ==
  \E project \in IdsOf("projects") :
    Begin(p, "steps", [project |-> project, at |-> 0], {})

(***************************************************************************)
(* The environment.                                                        *)
(***************************************************************************)
Tick ==
  /\ clock < MaxClock
  /\ clock' = clock + 1
  /\ UNCHANGED <<ledger, job, lastStamp, restarts>>

\* A write that fails half-way (killed, crashed, SQLITE_BUSY) leaves the rows it inserted.
Cut(p) ==
  /\ job[p] # Idle
  /\ restarts < MaxRestarts
  /\ restarts' = restarts + 1
  /\ job' = [job EXCEPT ![p] = Idle]
  /\ UNCHANGED <<ledger, lastStamp, clock>>

Init ==
  /\ ledger = EmptyLedger
  /\ job = [p \in Process |-> Idle]
  /\ lastStamp = [p \in Process |-> 0]
  /\ clock = 1
  /\ restarts = 0

Operation(p) ==
  \/ CreateProject(p) \/ SetArchived(p) \/ AddNote(p) \/ RecordSearch(p)
  \/ SaveSource(p) \/ AddQuote(p) \/ AddClaim(p) \/ AddTest(p) \/ SaveRun(p)
  \/ AddVerdict(p) \/ AddReview(p) \/ AddIdea(p) \/ Retract(p) \/ LogStep(p)

Next ==
  \/ Tick
  \/ \E p \in Process :
       Operation(p) \/ InsertRow(p) \/ InsertLink(p) \/ InsertResult(p) \/ Cut(p)

Spec == Init /\ [][Next]_vars

\* No process dies between the row it inserted and the rows that link to it.
WholeNext == Next /\ \A p \in Process : job[p].owner # 0 => ~Cut(p)
WholeSpec == Init /\ [][WholeNext]_vars

-----------------------------------------------------------------------------
\* What links to a row: a search's results are saved as sources, other rows cite ids.
LinksOf(table) == IF table = "searches" THEN Fetched ELSE Nat

\* An insert into a table under way: its row, the rows that will link to it, and
\* its id once the row is in.
JobOn(table) ==
  [table : {table}, row : RowsOf[table], links : SUBSET LinksOf(table), owner : Nat]

\* Every table holds its rows, and every process is idle or inserting a row that
\* belongs in the table it goes to.
TypeOK ==
  /\ ledger = [t \in RowTable \cup LinkTable |-> ledger[t]]
  /\ \A t \in RowTable : ledger[t] \in Seq(RowsOf[t])
  /\ \A t \in LinkTable : ledger[t] \subseteq Link
  /\ job = [p \in Process |-> job[p]]
  /\ \A p \in Process : job[p] = Idle \/ \E t \in RowTable : job[p] \in JobOn(t)
  /\ lastStamp \in [Process -> Nat]
  /\ clock \in Nat
  /\ restarts \in Nat

\* Every test, written or about to be, belongs to a claim in the ledger (the foreign
\* key of tests; addTest).
TestsRefer ==
  /\ \A t \in IdsOf("tests") : ledger.tests[t].claim \in IdsOf("claims")
  /\ \A p \in Process :
       job[p].table = "tests" => job[p].row.claim \in IdsOf("claims")

\* A review of a verdict in the ledger by somebody other than its author.
Independent(review) ==
  /\ review.verdict \in IdsOf("verdicts")
  /\ SpeakerKey[review.reviewer] # SpeakerKey[ledger.verdicts[review.verdict].author]

\* Every review, written or about to be, is independent (addReview's SELF_REVIEW).
ReviewsIndependent ==
  /\ \A r \in IdsOf("reviews") : Independent(ledger.reviews[r])
  /\ \A p \in Process : job[p].table = "reviews" => Independent(job[p].row)

\* The passage of a quote is in the source it is quoted from.
Verbatim(quote) ==
  /\ quote.source \in IdsOf("sources")
  /\ quote.text \subseteq ledger.sources[quote.source].text

\* Every quote, written or about to be, is verbatim (addQuote's NOT_VERBATIM).
QuotesVerbatim ==
  /\ \A q \in IdsOf("quotes") : Verbatim(ledger.quotes[q])
  /\ \A p \in Process : job[p].table = "quotes" => Verbatim(job[p].row)

\* Every retraction, written or about to be, withdraws a row in the ledger (retract).
RetractionsRefer ==
  /\ \A x \in IdsOf("retractions") :
       ledger.retractions[x].target \in IdsOf(ledger.retractions[x].entity)
  /\ \A p \in Process : job[p].table = "retractions" =>
       job[p].row.target \in IdsOf(job[p].row.entity)

\* The tables whose rows cite others, and where the citations are.
LinksFrom == [notes |-> "note_quotes", verdicts |-> "verdict_quotes", ideas |-> "idea_claims"]
CitingTable == DOMAIN LinksFrom

\* What row id of a table cites: the links in the ledger, and those a process has yet to
\* insert.
CitedBy(table, id) ==
  {link[2] : link \in {l \in ledger[LinksFrom[table]] : l[1] = id}}
    \cup UNION {job[p].links : p \in {q \in Process : job[q].table = table /\ job[q].owner = id}}

\* What a row that cites others never loses, whatever is cut short: everything it cites
\* is there and is of its project; a verdict names a test of its claim, and none of its
\* quotes repeats another.
Rests(table, row, cited) ==
  CASE table = "verdicts" ->
         /\ row.claim \in IdsOf("claims") /\ row.author \in Authors
         /\ row.test # 0 => row.test \in IdsOf("tests") /\ ledger.tests[row.test].claim = row.claim
         /\ row.result = "provisional" => row.test # 0
         /\ cited \subseteq IdsOf("quotes")
         /\ \A q \in cited : ProjectOf(q) = ledger.claims[row.claim].project
         /\ \A q, r \in cited : q # r => ~SamePassage(q, r)
    [] table = "ideas" ->
         cited \subseteq IdsOf("claims") /\ \A c \in cited : ledger.claims[c].project = row.project
    [] table = "notes" ->
         cited \subseteq IdsOf("quotes") /\ \A q \in cited : ProjectOf(q) = row.project

\* What it has once everything it cites is linked.
SpokenByTwo(quotes) ==
  \E q, r \in quotes :
    /\ ledger.quotes[q].kind \in NEED_EVIDENCE
    /\ ledger.quotes[r].kind \in NEED_EVIDENCE
    /\ SpeakerKey[ledger.quotes[q].speaker] # SpeakerKey[ledger.quotes[r].speaker]
HasLooked(project) ==
  \/ \E w \in IdsOf("searches") : ledger.searches[w].project = project
  \/ \E s \in IdsOf("sources") : ledger.sources[s].project = project /\ ledger.sources[s].search = 0
Backed(table, row, cited) ==
  CASE table = "verdicts" ->
         /\ row.result = "provisional" /\ ledger.claims[row.claim].kind = "need" => SpokenByTwo(cited)
         /\ row.result = "provisional" /\ ledger.tests[row.test].kind = "experiment" =>
              \E q \in cited : ledger.sources[ledger.quotes[q].source].test = row.test
         /\ row.result = "killed" /\ cited = {} =>
              row.test # 0 /\ HasLooked(ledger.claims[row.claim].project)
    [] table = "ideas" -> cited # {}
    [] table = "notes" -> row.kind = "finding" => cited # {}

\* The citations of every row, written or about to be, rest on what they cite (addNote,
\* addVerdict, addIdea), and only rows in the ledger have any.
CitationsRest ==
  \A t \in CitingTable :
    /\ \A id \in IdsOf(t) : Rests(t, ledger[t][id], CitedBy(t, id))
    /\ \A link \in ledger[LinksFrom[t]] : link[1] \in IdsOf(t)
    /\ \A p \in Process : job[p].table = t =>
         IF job[p].owner = 0 THEN Rests(t, job[p].row, job[p].links) ELSE job[p].owner \in IdsOf(t)

\* As long as no write is cut short between its row and its links, they are backed too.
CitationsBacked ==
  \A t \in CitingTable :
    /\ \A id \in IdsOf(t) : Backed(t, ledger[t][id], CitedBy(t, id))
    /\ \A p \in Process :
         job[p].table = t /\ job[p].owner = 0 => Backed(t, job[p].row, job[p].links)

\* The inductive invariants: what holds wherever writes are cut short, and what holds
\* besides where they are not.
LedgerInv ==
  /\ TypeOK
  /\ TestsRefer /\ ReviewsIndependent /\ QuotesVerbatim /\ RetractionsRefer
  /\ CitationsRest
WholeInv == LedgerInv /\ CitationsBacked

Status(claim) == ClaimStatus(claim, LATEST)

LatestVerdict(claim) == Newest(VerdictsOf(claim, LATEST))

\* Nothing is supported or killed until someone other than the verdict's author
\* reviewed the verdict the claim stands on and upheld it, and no review overturned
\* it (addReview's SELF_REVIEW and SUPERSEDED refusals, claimStatus).
SettledByIndependentReview ==
  \A c \in IdsOf("claims") :
    Status(c) \in {"supported", "killed"} =>
      /\ ~Overturned(LatestVerdict(c), LATEST)
      /\ \E r \in IdsOf("reviews") :
           /\ ledger.reviews[r].verdict = LatestVerdict(c)
           /\ ledger.reviews[r].result = "upheld"
           /\ SpeakerKey[ledger.reviews[r].reviewer]
                # SpeakerKey[ledger.verdicts[LatestVerdict(c)].author]

\* An entry is withdrawn once, with one reason, even when two processes retract it at
\* the same moment (retract's NO_CHANGE refusal and the UNIQUE constraint behind it).
RetractedOnce ==
  \A x, y \in IdsOf("retractions") :
    x # y => \/ ledger.retractions[x].entity # ledger.retractions[y].entity
             \/ ledger.retractions[x].target # ledger.retractions[y].target

\* Every row that links to row id of a table has been inserted.
Linked(table, id) == \A p \in Process : job[p].table = table => job[p].owner # id

\* The evidence under a supported claim is still there and still counts once: its
\* verdict answers a live test of this claim and cites live quotes of this project, and
\* two different passages never overlap in the page either came from (addVerdict,
\* verdictStale).
SupportStands ==
  \A c \in IdsOf("claims") :
    Status(c) = "supported" =>
      LET t == ledger.verdicts[LatestVerdict(c)].test
          quotes == Cited(LatestVerdict(c))
      IN  /\ t \in LiveTests(c, LATEST)
          /\ \A q \in quotes :
               Active("quotes", q) /\ ProjectOf(q) = ledger.claims[c].project
          /\ \A q, r \in quotes :
               q # r /\ ledger.quotes[q].source = ledger.quotes[r].source
                 => ledger.quotes[q].text \cap ledger.quotes[r].text = {}

\* A supported need has two people speaking from experience (addVerdict's ONE_SPEAKER).
NeedHasTwoVoices ==
  \A c \in IdsOf("claims") :
    LET v == LatestVerdict(c) IN
    Status(c) = "supported" /\ ledger.claims[c].kind = "need" /\ Linked("verdicts", v) =>
      SpokenByTwo(Cited(v))

\* An experiment's support cites something a run of that very experiment printed
\* (addVerdict's NO_RUN, saveRun).
ExperimentSupportIsMeasured ==
  \A c \in IdsOf("claims") :
    LET v == LatestVerdict(c)
        t == ledger.verdicts[v].test
    IN  Status(c) = "supported" /\ ledger.tests[t].kind = "experiment" /\ Linked("verdicts", v) =>
          \E q \in Cited(v) : ledger.sources[ledger.quotes[q].source].test = t

\* Every verdict `review' offers a fresh reviewer is one addReview takes a review of
\* (showForReview against addReview's refusals).
QueueIsReviewable ==
  \A project \in IdsOf("projects") : \A v \in ToReview(project) :
    \E reviewer \in Reviewers : ReviewHolds(v, reviewer)

\* A kill that cites nothing answers a test of its claim, and that claim's own project
\* has a search or a page, file or run of its own on record (KillHolds in addVerdict,
\* lookedSince): looking in another project of the same ledger settles nothing.
KillLookedInProject ==
  \A v \in IdsOf("verdicts") :
    ledger.verdicts[v].result = "killed" /\ Cited(v) = {} /\ Linked("verdicts", v) =>
      /\ ledger.verdicts[v].test # 0
      /\ ledger.tests[ledger.verdicts[v].test].claim = ledger.verdicts[v].claim
      /\ HasLooked(ledger.claims[ledger.verdicts[v].claim].project)

\* Once an idea is written it rests on at least one claim, all of its own project
\* (addIdea).
IdeaRestsOnClaims ==
  \A i \in IdsOf("ideas") :
    Linked("ideas", i) =>
      /\ ClaimsOf(i) # {}
      /\ \A c \in ClaimsOf(i) : ledger.claims[c].project = ledger.ideas[i].project

\* Once a finding is written it cites at least one quote of its project (addNote).
FindingCitesQuote ==
  \A n \in IdsOf("notes") :
    ledger.notes[n].kind = "finding" /\ Linked("notes", n) =>
      \E q \in IdsOf("quotes") : /\ <<n, q>> \in ledger.note_quotes
                                 /\ ProjectOf(q) = ledger.notes[n].project

\* What counts as support is earned and still there, whatever was recorded or withdrawn
\* since (addVerdict, verdictStale).
SupportIsEarned == SupportStands /\ NeedHasTwoVoices /\ ExperimentSupportIsMeasured

\* Whatever is said to rest on something does: kills without quotes on a look at the
\* claim's own project, ideas on its claims, findings on its quotes (addVerdict,
\* addIdea, addNote).
CitationsHold == KillLookedInProject /\ IdeaRestsOnClaims /\ FindingCitesQuote

\* Two processes at once leave nothing in the review queue that cannot be reviewed,
\* and withdraw an entry once (showForReview, addReview, retract).
RacesSettleOnce == QueueIsReviewable /\ RetractedOnce
=============================================================================

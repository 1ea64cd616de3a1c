------------------------ MODULE EvidenceLedgerProofs ------------------------
(***************************************************************************)
(* Theorems about the evidence ledger, for any number of processes, any    *)
(* interleaving of their checks and inserts, and writes cut short anywhere. *)
(***************************************************************************)
EXTENDS LedgerLifecycle, FiniteSetTheorems, WellFoundedInduction, TLAPS

\* Filling in a row's stamp leaves it a row of its table.
LEMMA StampedRow ==
  ASSUME NEW t \in RowTable, NEW row \in RowsOf[t], NEW at \in Nat
  PROVE  [row EXCEPT !.at = at] \in RowsOf[t]
  <1>1. CASE t = "projects"
    BY <1>1 DEF RowsOf, Project
  <1>2. CASE t = "project_events"
    BY <1>2 DEF RowsOf, ProjectEvent
  <1>3. CASE t = "notes"
    BY <1>3 DEF RowsOf, Note
  <1>4. CASE t = "searches"
    BY <1>4 DEF RowsOf, Search
  <1>5. CASE t = "sources"
    BY <1>5 DEF RowsOf, Source
  <1>6. CASE t = "quotes"
    BY <1>6 DEF RowsOf, Quote
  <1>7. CASE t = "claims"
    BY <1>7 DEF RowsOf, Claim
  <1>8. CASE t = "tests"
    BY <1>8 DEF RowsOf, Test
  <1>9. CASE t = "verdicts"
    BY <1>9 DEF RowsOf, Verdict
  <1>10. CASE t = "reviews"
    BY <1>10 DEF RowsOf, Review
  <1>11. CASE t = "ideas"
    BY <1>11 DEF RowsOf, Idea
  <1>12. CASE t = "retractions"
    BY <1>12 DEF RowsOf, Retraction
  <1>13. CASE t = "steps"
    BY <1>13 DEF RowsOf, Step
  <1>14. QED
    BY <1>1, <1>2, <1>3, <1>4, <1>5, <1>6, <1>7, <1>8, <1>9, <1>10, <1>11, <1>12, <1>13
       DEF RowTable

\* Stamps are natural numbers.
LEMMA StampIsNat ==
  ASSUME TypeOK, NEW p \in Process
  PROVE  Stamp(p) \in Nat
  BY DEF TypeOK, Stamp

\* Handing a well-formed row to an idle process keeps the ledger well formed.
LEMMA BeginType ==
  ASSUME TypeOK, NEW p \in Process, NEW t \in RowTable, NEW row \in RowsOf[t],
         NEW links \in SUBSET LinksOf(t), Begin(p, t, row, links)
  PROVE  TypeOK'
  <1> DEFINE new == [table |-> t, row |-> row, links |-> links, owner |-> 0]
  <1>1. new \in JobOn(t)
    BY DEF JobOn
  <1>2. job' = [job EXCEPT ![p] = new] /\ UNCHANGED <<ledger, lastStamp, clock, restarts>>
    BY DEF Begin
  <1> HIDE DEF new
  <1>3. job' = [q \in Process |-> job'[q]]
    BY <1>2 DEF TypeOK
  <1>4. \A q \in Process : job'[q] = Idle \/ \E u \in RowTable : job'[q] \in JobOn(u)
    BY <1>1, <1>2 DEF TypeOK
  <1>5. QED
    BY <1>2, <1>3, <1>4 DEF TypeOK

\* The row of a fetched or printed text is a source row.
LEMMA SourceRowType ==
  ASSUME NEW project \in Nat, NEW search \in Nat, NEW fetched \in Fetched, NEW test \in Nat
  PROVE  SourceRow(project, search, fetched, test) \in Source
  BY DEF SourceRow, Source, Fetched

\* Ids are natural numbers, and the row with an id is a row of its table.
LEMMA RowWithId ==
  ASSUME TypeOK, NEW t \in RowTable, NEW id \in IdsOf(t)
  PROVE  id \in Nat /\ ledger[t][id] \in RowsOf[t]
  BY DEF TypeOK, IdsOf

\* Every operation hands its process a well-formed row.
LEMMA OperationType ==
  ASSUME TypeOK, TestsRefer, NEW p \in Process, Operation(p)
  PROVE  TypeOK'
  <1> USE LedgerAssumption
  <1>0. ASSUME NEW t \in {"notes", "verdicts", "ideas"},
               NEW cited \in Citable(IdsOf(IF t = "ideas" THEN "claims" ELSE "quotes"))
        PROVE  cited \in SUBSET LinksOf(t)
    BY <1>0, RowWithId DEF Citable, RowTable, LinksOf
  <1>1. CASE CreateProject(p)
    <2>1. [at |-> 0] \in RowsOf["projects"]
      BY DEF RowsOf, Project
    <2>2. QED
      BY <1>1, <2>1, BeginType DEF CreateProject, RowTable
  <1>2. CASE SetArchived(p)
    <2>1. PICK project \in IdsOf("projects"), archive \in BOOLEAN :
            Begin(p, "project_events",
                  [project |-> project,
                   action |-> IF archive THEN "archive" ELSE "restore", at |-> 0], {})
      BY <1>2 DEF SetArchived
    <2>2. project \in Nat
      BY RowWithId DEF RowTable
    <2>3. [project |-> project, action |-> IF archive THEN "archive" ELSE "restore",
           at |-> 0] \in RowsOf["project_events"]
      BY <2>2 DEF RowsOf, ProjectEvent
    <2>4. QED
      BY <2>1, <2>3, BeginType DEF RowTable
  <1>3. CASE AddNote(p)
    <2>1. PICK project \in IdsOf("projects"), kind \in NoteKinds,
               quotes \in Citable(IdsOf("quotes")) :
            Begin(p, "notes", [project |-> project, kind |-> kind, at |-> 0], quotes)
      BY <1>3 DEF AddNote
    <2>2. project \in Nat
      BY RowWithId DEF RowTable
    <2>3. [project |-> project, kind |-> kind, at |-> 0] \in RowsOf["notes"]
      BY <2>2 DEF RowsOf, Note
    <2>4. quotes \in SUBSET LinksOf("notes")
      BY <1>0
    <2>5. QED
      BY <2>1, <2>3, <2>4, BeginType DEF RowTable
  <1>4. CASE RecordSearch(p)
    <2>1. PICK project \in IdsOf("projects"), status \in {"failed", "empty", "ok"},
               results \in SUBSET Fetches :
            Begin(p, "searches", [project |-> project, status |-> status, at |-> 0], results)
      BY <1>4 DEF RecordSearch, Citable
    <2>2. project \in Nat
      BY RowWithId DEF RowTable
    <2>3. [project |-> project, status |-> status, at |-> 0] \in RowsOf["searches"]
      BY <2>2 DEF RowsOf, Search
    <2>4. results \in SUBSET LinksOf("searches")
      BY <2>1 DEF LinksOf
    <2>5. QED
      BY <2>1, <2>3, <2>4, BeginType DEF RowTable
  <1>5. CASE SaveSource(p)
    <2>1. PICK project \in IdsOf("projects"), fetched \in Fetches :
            Begin(p, "sources", SourceRow(project, 0, fetched, 0), {})
      BY <1>5 DEF SaveSource
    <2>2. project \in Nat
      BY RowWithId DEF RowTable
    <2>3. SourceRow(project, 0, fetched, 0) \in RowsOf["sources"]
      BY <2>2, SourceRowType DEF RowsOf
    <2>4. QED
      BY <2>1, <2>3, BeginType DEF RowTable
  <1>6. CASE AddQuote(p)
    <2>1. PICK s \in IdsOf("sources"), passage \in Passage, speaker \in Speakers,
               kind \in QuoteKinds :
            Begin(p, "quotes", [source |-> s, text |-> passage, speaker |-> speaker,
                                kind |-> kind, at |-> 0], {})
      BY <1>6 DEF AddQuote
    <2>2. s \in Nat
      BY RowWithId DEF RowTable
    <2>3. [source |-> s, text |-> passage, speaker |-> speaker, kind |-> kind, at |-> 0]
            \in RowsOf["quotes"]
      BY <2>2 DEF RowsOf, Quote
    <2>4. QED
      BY <2>1, <2>3, BeginType DEF RowTable
  <1>7. CASE AddClaim(p)
    <2>1. PICK project \in IdsOf("projects"), kind \in ClaimKinds :
            Begin(p, "claims", [project |-> project, kind |-> kind, at |-> 0], {})
      BY <1>7 DEF AddClaim
    <2>2. project \in Nat
      BY RowWithId DEF RowTable
    <2>3. [project |-> project, kind |-> kind, at |-> 0] \in RowsOf["claims"]
      BY <2>2 DEF RowsOf, Claim
    <2>4. QED
      BY <2>1, <2>3, BeginType DEF RowTable
  <1>8. CASE AddTest(p)
    <2>1. PICK c \in IdsOf("claims"), kind \in TestKinds :
            Begin(p, "tests", [claim |-> c, kind |-> kind, at |-> 0], {})
      BY <1>8 DEF AddTest
    <2>2. c \in Nat
      BY RowWithId DEF RowTable
    <2>3. [claim |-> c, kind |-> kind, at |-> 0] \in RowsOf["tests"]
      BY <2>2 DEF RowsOf, Test
    <2>4. QED
      BY <2>1, <2>3, BeginType DEF RowTable
  <1>9. CASE SaveRun(p)
    <2>1. PICK t \in IdsOf("tests"), fetched \in Fetches :
            /\ RequireExperiment(t)
            /\ Begin(p, "sources",
                     SourceRow(ledger.claims[ledger.tests[t].claim].project, 0, fetched, t), {})
      BY <1>9 DEF SaveRun
    <2>2. t \in Nat /\ ledger.tests[t].claim \in IdsOf("claims")
      BY RowWithId DEF RowTable, TestsRefer
    <2>3. ledger.claims[ledger.tests[t].claim] \in Claim
      BY <2>2, RowWithId DEF RowTable, RowsOf
    <2>4. SourceRow(ledger.claims[ledger.tests[t].claim].project, 0, fetched, t)
            \in RowsOf["sources"]
      BY <2>2, <2>3, SourceRowType DEF RowsOf, Claim
    <2>5. QED
      BY <2>1, <2>4, BeginType DEF RowTable
  <1>10. CASE AddVerdict(p)
    <2>1. PICK c \in IdsOf("claims"), t \in IdsOf("tests") \cup {0},
               result \in VERDICT_RESULTS, author \in Authors,
               quotes \in Citable(IdsOf("quotes")) :
            Begin(p, "verdicts", [claim |-> c, test |-> t, result |-> result,
                                  author |-> author, at |-> 0], quotes)
      BY <1>10 DEF AddVerdict
    <2>2. c \in Nat /\ t \in Nat
      BY RowWithId DEF RowTable
    <2>3. [claim |-> c, test |-> t, result |-> result, author |-> author, at |-> 0]
            \in RowsOf["verdicts"]
      BY <2>2 DEF RowsOf, Verdict
    <2>4. quotes \in SUBSET LinksOf("verdicts")
      BY <1>0
    <2>5. QED
      BY <2>1, <2>3, <2>4, BeginType DEF RowTable
  <1>11. CASE AddReview(p)
    <2>1. PICK v \in IdsOf("verdicts"), result \in REVIEW_RESULTS, reviewer \in Reviewers :
            Begin(p, "reviews", [verdict |-> v, result |-> result,
                                 reviewer |-> reviewer, at |-> 0], {})
      BY <1>11 DEF AddReview
    <2>2. v \in Nat
      BY RowWithId DEF RowTable
    <2>3. [verdict |-> v, result |-> result, reviewer |-> reviewer, at |-> 0]
            \in RowsOf["reviews"]
      BY <2>2 DEF RowsOf, Review
    <2>4. QED
      BY <2>1, <2>3, BeginType DEF RowTable
  <1>12. CASE AddIdea(p)
    <2>1. PICK project \in IdsOf("projects"), revises \in IdsOf("ideas") \cup {0},
               claims \in Citable(IdsOf("claims")) \ {{}} :
            Begin(p, "ideas", [project |-> project, revises |-> revises, at |-> 0], claims)
      BY <1>12 DEF AddIdea
    <2>2. project \in Nat /\ revises \in Nat
      BY RowWithId DEF RowTable
    <2>3. [project |-> project, revises |-> revises, at |-> 0] \in RowsOf["ideas"]
      BY <2>2 DEF RowsOf, Idea
    <2>4. claims \in SUBSET LinksOf("ideas")
      BY <1>0
    <2>5. QED
      BY <2>1, <2>3, <2>4, BeginType DEF RowTable
  <1>13. CASE Retract(p)
    <2>1. PICK entity \in RETRACTABLE : \E id \in IdsOf(entity) :
            Begin(p, "retractions", [entity |-> entity, target |-> id, at |-> 0], {})
      BY <1>13 DEF Retract
    <2>2. PICK id \in IdsOf(entity) :
            Begin(p, "retractions", [entity |-> entity, target |-> id, at |-> 0], {})
      BY <2>1
    <2>3. id \in Nat
      BY RowWithId DEF RowTable, RETRACTABLE
    <2>4. [entity |-> entity, target |-> id, at |-> 0] \in RowsOf["retractions"]
      BY <2>3 DEF RowsOf, Retraction
    <2>5. QED
      BY <2>2, <2>4, BeginType DEF RowTable
  <1>14. CASE LogStep(p)
    <2>1. PICK project \in IdsOf("projects") :
            Begin(p, "steps", [project |-> project, at |-> 0], {})
      BY <1>14 DEF LogStep
    <2>2. project \in Nat
      BY RowWithId DEF RowTable
    <2>3. [project |-> project, at |-> 0] \in RowsOf["steps"]
      BY <2>2 DEF RowsOf, Step
    <2>4. QED
      BY <2>1, <2>3, BeginType DEF RowTable
  <1>15. QED
    BY <1>1, <1>2, <1>3, <1>4, <1>5, <1>6, <1>7, <1>8, <1>9, <1>10, <1>11, <1>12, <1>13,
       <1>14 DEF Operation

\* An insert under way is well formed for the table it goes to.
LEMMA JobType ==
  ASSUME TypeOK, NEW p \in Process, job[p] # Idle
  PROVE  /\ job[p].table \in RowTable
         /\ job[p] \in JobOn(job[p].table)
         /\ job[p].row \in RowsOf[job[p].table]
         /\ job[p].links \in SUBSET LinksOf(job[p].table)
         /\ job[p].owner \in Nat
  BY DEF TypeOK, JobOn

\* What is left of an insert once a link is in.
LEMMA AfterLinkType ==
  ASSUME TypeOK, NEW p \in Process, job[p] # Idle, NEW link
  PROVE  AfterLink(p, link) = Idle \/ AfterLink(p, link) \in JobOn(job[p].table)
  BY JobType DEF AfterLink, JobOn

\* Changing the insert of one process to a well-formed one keeps all well formed.
LEMMA JobsType ==
  ASSUME TypeOK, NEW p \in Process, NEW new, NEW t \in RowTable,
         new = Idle \/ new \in JobOn(t), job' = [job EXCEPT ![p] = new]
  PROVE  /\ job' = [q \in Process |-> job'[q]]
         /\ \A q \in Process : job'[q] = Idle \/ \E u \in RowTable : job'[q] \in JobOn(u)
  <1>1. job' = [q \in Process |-> job'[q]]
    BY DEF TypeOK
  <1>2. \A q \in Process : job'[q] = Idle \/ \E u \in RowTable : job'[q] \in JobOn(u)
    BY DEF TypeOK
  <1>3. QED
    BY <1>1, <1>2

\* Appending a row to a table of rows keeps every table well formed.
LEMMA AppendType ==
  ASSUME TypeOK, NEW t \in RowTable, NEW row \in RowsOf[t],
         ledger' = [ledger EXCEPT ![t] = Append(@, row)]
  PROVE  /\ ledger' = [u \in RowTable \cup LinkTable |-> ledger'[u]]
         /\ \A u \in RowTable : ledger'[u] \in Seq(RowsOf[u])
         /\ \A u \in LinkTable : ledger'[u] \subseteq Link
  <1>1. ledger' = [u \in RowTable \cup LinkTable |-> ledger'[u]]
    BY DEF TypeOK
  <1>2. ledger'[t] = Append(ledger[t], row)
    BY DEF TypeOK
  <1>3. \A u \in RowTable \cup LinkTable : u # t => ledger'[u] = ledger[u]
    BY DEF TypeOK
  <1>4. ledger'[t] \in Seq(RowsOf[t])
    BY <1>2 DEF TypeOK
  <1>5. t \notin LinkTable
    BY DEF RowTable, LinkTable
  <1>6. QED
    BY <1>1, <1>3, <1>4, <1>5 DEF TypeOK

\* Inserting the row an operation handed over keeps the ledger well formed.
LEMMA InsertRowType ==
  ASSUME TypeOK, NEW p \in Process, InsertRow(p)
  PROVE  TypeOK'
  <1> DEFINE t == job[p].table
             row == [job[p].row EXCEPT !.at = Stamp(p)]
             id == Len(ledger[t]) + 1
             left == IF job[p].links = {} THEN Idle ELSE [job[p] EXCEPT !.owner = id]
  <1>1. /\ t \in RowTable /\ job[p] # Idle /\ job[p] \in JobOn(t)
        /\ job[p].row \in RowsOf[t]
    BY JobType DEF InsertRow
  <1>2. Stamp(p) \in Nat /\ row \in RowsOf[t]
    BY <1>1, StampIsNat, StampedRow
  <1>3. lastStamp' \in [Process -> Nat] /\ clock' \in Nat /\ restarts' \in Nat
    BY <1>2 DEF InsertRow, TypeOK
  <1>4. id \in Nat
    BY <1>1 DEF TypeOK
  <1>5. left = Idle \/ left \in JobOn(t)
    BY <1>1, <1>4 DEF JobOn
  <1>6. CASE Refused(t, row)
    <2>1. job' = [job EXCEPT ![p] = Idle] /\ ledger' = ledger
      BY <1>6 DEF InsertRow
    <2>2. QED
      BY <1>1, <1>3, <2>1, JobsType DEF TypeOK
  <1>7. CASE ~Refused(t, row)
    <2>1. /\ ledger' = [ledger EXCEPT ![t] = Append(@, row)]
          /\ job' = [job EXCEPT ![p] = left]
      BY <1>7 DEF InsertRow, TypeOK
    <2>2. /\ job' = [q \in Process |-> job'[q]]
          /\ \A q \in Process :
               job'[q] = Idle \/ \E u \in RowTable : job'[q] \in JobOn(u)
      <3> HIDE DEF t, row, id, left
      <3> QED
        BY <1>1, <1>5, <2>1, JobsType
    <2>3. /\ ledger' = [u \in RowTable \cup LinkTable |-> ledger'[u]]
          /\ \A u \in RowTable : ledger'[u] \in Seq(RowsOf[u])
          /\ \A u \in LinkTable : ledger'[u] \subseteq Link
      <3> HIDE DEF t, row, id, left
      <3> QED
        BY <1>1, <1>2, <2>1, AppendType
    <2>4. QED
      BY <1>3, <2>2, <2>3 DEF TypeOK
  <1>8. QED
    BY <1>6, <1>7

\* Linking a cited row keeps the ledger well formed.
LEMMA InsertLinkType ==
  ASSUME TypeOK, NEW p \in Process, InsertLink(p)
  PROVE  TypeOK'
  <1>1. PICK link \in job[p].links, t \in LinkTable :
          /\ ledger' = [ledger EXCEPT ![t] = @ \cup {<<job[p].owner, link>>}]
          /\ job' = [job EXCEPT ![p] = AfterLink(p, link)]
    BY DEF InsertLink, LinkTable
  <1>2. job[p] # Idle /\ job[p].table \in RowTable /\ link \in Nat /\ job[p].owner \in Nat
    BY <1>1, JobType DEF InsertLink, LinksOf
  <1>3. /\ job' = [q \in Process |-> job'[q]]
        /\ \A q \in Process : job'[q] = Idle \/ \E u \in RowTable : job'[q] \in JobOn(u)
    <2>1. AfterLink(p, link) = Idle \/ AfterLink(p, link) \in JobOn(job[p].table)
      BY <1>2, AfterLinkType
    <2>2. QED
      BY <1>1, <1>2, <2>1, JobsType
  <1>4. ledger' = [u \in RowTable \cup LinkTable |-> ledger'[u]]
    BY <1>1 DEF TypeOK
  <1>5. ASSUME NEW u \in RowTable
        PROVE  ledger'[u] = ledger[u]
    BY <1>1 DEF TypeOK, RowTable, LinkTable
  <1>6. ASSUME NEW u \in LinkTable
        PROVE  ledger'[u] \subseteq Link
    <2>1. <<job[p].owner, link>> \in Link
      BY <1>2 DEF Link
    <2>2. QED
      BY <1>1, <2>1 DEF TypeOK
  <1>7. UNCHANGED <<lastStamp, clock, restarts>>
    BY DEF InsertLink
  <1>8. QED
    BY <1>3, <1>4, <1>5, <1>6, <1>7 DEF TypeOK

\* Saving a search's result keeps the ledger well formed.
LEMMA InsertResultType ==
  ASSUME TypeOK, NEW p \in Process, InsertResult(p)
  PROVE  TypeOK'
  <1>1. PICK link \in job[p].links :
          /\ ledger' = [ledger EXCEPT !.sources = Append(@,
                          [SourceRow(job[p].row.project, job[p].owner, link, 0)
                             EXCEPT !.at = Stamp(p)])]
          /\ job' = [job EXCEPT ![p] = AfterLink(p, link)]
    BY DEF InsertResult
  <1>2. /\ job[p] # Idle /\ job[p].table = "searches" /\ job[p].table \in RowTable
        /\ link \in Fetched /\ job[p].owner \in Nat /\ job[p].row \in RowsOf["searches"]
    BY <1>1, JobType DEF InsertResult, LinksOf
  <1>3. /\ job' = [q \in Process |-> job'[q]]
        /\ \A q \in Process : job'[q] = Idle \/ \E u \in RowTable : job'[q] \in JobOn(u)
    <2>1. AfterLink(p, link) = Idle \/ AfterLink(p, link) \in JobOn(job[p].table)
      BY <1>2, AfterLinkType
    <2>2. QED
      BY <1>1, <1>2, <2>1, JobsType
  <1> DEFINE saved == SourceRow(job[p].row.project, job[p].owner, link, 0)
  <1>4. Stamp(p) \in Nat
    BY StampIsNat
  <1>5. [saved EXCEPT !.at = Stamp(p)] \in RowsOf["sources"]
    <2>1. job[p].row.project \in Nat
      BY <1>2 DEF RowsOf, Search
    <2>2. saved \in RowsOf["sources"]
      BY <1>2, <2>1, SourceRowType DEF RowsOf
    <2>3. QED
      BY <1>4, <2>2, StampedRow DEF RowTable
  <1>6. /\ ledger' = [u \in RowTable \cup LinkTable |-> ledger'[u]]
        /\ \A u \in RowTable : ledger'[u] \in Seq(RowsOf[u])
        /\ \A u \in LinkTable : ledger'[u] \subseteq Link
    BY <1>1, <1>5, AppendType DEF RowTable
  <1>7. lastStamp' \in [Process -> Nat] /\ UNCHANGED <<clock, restarts>>
    BY <1>4 DEF InsertResult, TypeOK
  <1>8. QED
    BY <1>3, <1>6, <1>7 DEF TypeOK

\* Every step keeps the ledger well formed.
LEMMA NextType ==
  ASSUME TypeOK, TestsRefer, [Next]_vars
  PROVE  TypeOK'
  <1>1. CASE Tick
    BY <1>1 DEF Tick, TypeOK
  <1>2. ASSUME NEW p \in Process, Operation(p)
        PROVE  TypeOK'
    BY <1>2, OperationType
  <1>3. ASSUME NEW p \in Process, InsertRow(p)
        PROVE  TypeOK'
    BY <1>3, InsertRowType
  <1>4. ASSUME NEW p \in Process, InsertLink(p)
        PROVE  TypeOK'
    BY <1>4, InsertLinkType
  <1>5. ASSUME NEW p \in Process, InsertResult(p)
        PROVE  TypeOK'
    BY <1>5, InsertResultType
  <1>6. ASSUME NEW p \in Process, Cut(p)
        PROVE  TypeOK'
    <2>1. job' = [job EXCEPT ![p] = Idle] /\ UNCHANGED <<ledger, lastStamp, clock>>
      BY <1>6 DEF Cut
    <2>2. /\ job' = [q \in Process |-> job'[q]]
          /\ \A q \in Process : job'[q] = Idle \/ \E u \in RowTable : job'[q] \in JobOn(u)
      BY <2>1, JobsType DEF RowTable
    <2>3. restarts' \in Nat
      BY <1>6 DEF Cut, TypeOK
    <2>4. QED
      BY <2>1, <2>2, <2>3 DEF TypeOK
  <1>7. CASE UNCHANGED vars
    BY <1>7 DEF vars, TypeOK
  <1>8. QED
    BY <1>1, <1>2, <1>3, <1>4, <1>5, <1>6, <1>7 DEF Next

-----------------------------------------------------------------------------
(***************************************************************************)
(* The ledger is append-only: what a step adds, and that it changes        *)
(* nothing else.                                                           *)
(***************************************************************************)
\* What an operation hands to its process: a test of a claim in the ledger, an
\* independent review, or a row of another table.
LEMMA OperationJob ==
  ASSUME NEW p \in Process, Operation(p)
  PROVE  /\ ledger' = ledger
         /\ \E t, row, links :
              /\ job' = [job EXCEPT ![p] = [table |-> t, row |-> row, links |-> links,
                                           owner |-> 0]]
              /\ t = "tests" => row.claim \in IdsOf("claims")
              /\ t = "reviews" => Independent(row)
  <1>1. ASSUME NEW t, NEW row, NEW links, Begin(p, t, row, links),
               t = "tests" => row.claim \in IdsOf("claims"),
               t = "reviews" => Independent(row)
        PROVE  /\ ledger' = ledger
               /\ \E u, r, l :
                    /\ job' = [job EXCEPT ![p] = [table |-> u, row |-> r, links |-> l,
                                                 owner |-> 0]]
                    /\ u = "tests" => r.claim \in IdsOf("claims")
                    /\ u = "reviews" => Independent(r)
    BY <1>1 DEF Begin
  <1>2. CASE AddTest(p)
    <2>1. PICK c \in IdsOf("claims"), kind \in TestKinds :
            Begin(p, "tests", [claim |-> c, kind |-> kind, at |-> 0], {})
      BY <1>2 DEF AddTest
    <2>2. [claim |-> c, kind |-> kind, at |-> 0].claim = c
      OBVIOUS
    <2>3. QED
      BY <1>1, <2>1, <2>2
  <1>3. CASE AddReview(p)
    <2>1. PICK v \in IdsOf("verdicts"), result \in REVIEW_RESULTS, reviewer \in Reviewers :
            /\ ReviewHolds(v, reviewer)
            /\ Begin(p, "reviews", [verdict |-> v, result |-> result,
                                   reviewer |-> reviewer, at |-> 0], {})
      BY <1>3 DEF AddReview
    <2>2. Independent([verdict |-> v, result |-> result, reviewer |-> reviewer, at |-> 0])
      BY <2>1 DEF Independent, ReviewHolds
    <2>3. QED
      BY <1>1, <2>1, <2>2
  <1>4. CASE ~AddTest(p) /\ ~AddReview(p)
    <2>1. \E t, row, links : Begin(p, t, row, links) /\ t # "tests" /\ t # "reviews"
      <3>1. CASE CreateProject(p) \/ SetArchived(p) \/ AddNote(p) \/ RecordSearch(p)
        BY <3>1 DEF CreateProject, SetArchived, AddNote, RecordSearch
      <3>2. CASE SaveSource(p) \/ AddQuote(p) \/ AddClaim(p) \/ SaveRun(p)
        BY <3>2 DEF SaveSource, AddQuote, AddClaim, SaveRun
      <3>3. CASE AddVerdict(p) \/ AddIdea(p) \/ Retract(p) \/ LogStep(p)
        BY <3>3 DEF AddVerdict, AddIdea, Retract, LogStep
      <3>4. QED
        BY <1>4, <3>1, <3>2, <3>3 DEF Operation
    <2>2. QED
      BY <1>1, <2>1
  <1>5. QED
    BY <1>2, <1>3, <1>4

\* Appending to one table keeps every row where it is.
LEMMA AppendKeeps ==
  ASSUME TypeOK, NEW t \in RowTable, NEW row,
         ledger' = [ledger EXCEPT ![t] = Append(@, row)]
  PROVE  \A u \in RowTable : \A id \in IdsOf(u) :
           id \in IdsOf(u)' /\ ledger'[u][id] = ledger[u][id]
  <1>1. ledger'[t] = Append(ledger[t], row)
    BY DEF TypeOK
  <1>2. \A u \in RowTable : u # t => ledger'[u] = ledger[u]
    BY DEF TypeOK
  <1>3. ledger[t] \in Seq(RowsOf[t])
    BY DEF TypeOK
  <1>4. \A id \in DOMAIN ledger[t] :
          id \in DOMAIN ledger'[t] /\ ledger'[t][id] = ledger[t][id]
    BY <1>1, <1>3
  <1>5. QED
    BY <1>2, <1>4 DEF IdsOf

\* No step changes or removes a row.
LEMMA NextKeeps ==
  ASSUME TypeOK, [Next]_vars
  PROVE  \A u \in RowTable : \A id \in IdsOf(u) :
           id \in IdsOf(u)' /\ ledger'[u][id] = ledger[u][id]
  <1>1. CASE ledger' = ledger
    BY <1>1 DEF IdsOf
  <1>2. ASSUME NEW p \in Process, InsertRow(p)
        PROVE  \A u \in RowTable : \A id \in IdsOf(u) :
                 id \in IdsOf(u)' /\ ledger'[u][id] = ledger[u][id]
    <2>1. job[p].table \in RowTable
      BY <1>2, JobType DEF InsertRow
    <2>2. ledger' = ledger \/ \E row :
            ledger' = [ledger EXCEPT ![job[p].table] = Append(@, row)]
      BY <1>2 DEF InsertRow
    <2>3. QED
      BY <1>1, <2>1, <2>2, AppendKeeps
  <1>3. ASSUME NEW p \in Process, InsertLink(p)
        PROVE  \A u \in RowTable : \A id \in IdsOf(u) :
                 id \in IdsOf(u)' /\ ledger'[u][id] = ledger[u][id]
    <2>1. PICK t \in LinkTable : \E new : ledger' = [ledger EXCEPT ![t] = new]
      BY <1>3 DEF InsertLink, LinkTable
    <2>2. \A u \in RowTable : ledger'[u] = ledger[u]
      BY <2>1 DEF RowTable, LinkTable, TypeOK
    <2>3. QED
      BY <2>2 DEF IdsOf
  <1>4. ASSUME NEW p \in Process, InsertResult(p)
        PROVE  \A u \in RowTable : \A id \in IdsOf(u) :
                 id \in IdsOf(u)' /\ ledger'[u][id] = ledger[u][id]
    <2>1. \E row : ledger' = [ledger EXCEPT !["sources"] = Append(@, row)]
      BY <1>4 DEF InsertResult
    <2>2. QED
      BY <2>1, AppendKeeps DEF RowTable
  <1>5. ASSUME NEW p \in Process, Operation(p) \/ Cut(p)
        PROVE  ledger' = ledger
    BY <1>5, OperationJob DEF Cut
  <1>6. CASE Tick \/ UNCHANGED vars
    BY <1>1, <1>6 DEF Tick, vars
  <1>7. QED
    BY <1>1, <1>2, <1>3, <1>4, <1>5, <1>6 DEF Next

\* A row that is new in tests or reviews is the row some process was inserting.
LEMMA NewRow ==
  ASSUME TypeOK, [Next]_vars, NEW t \in {"tests", "reviews"}, NEW id \in IdsOf(t)',
         id \notin IdsOf(t)
  PROVE  \E p \in Process, at \in Nat :
           job[p].table = t /\ ledger'[t][id] = [job[p].row EXCEPT !.at = at]
  <1>1. t \in RowTable
    BY DEF RowTable
  <1>2. CASE \E p \in Process : InsertRow(p)
    <2>1. PICK p \in Process : InsertRow(p)
      BY <1>2
    <2>2. /\ job[p].table \in RowTable
          /\ ledger' = [ledger EXCEPT ![job[p].table] =
                          Append(@, [job[p].row EXCEPT !.at = Stamp(p)])]
      BY <2>1, JobType DEF InsertRow, IdsOf
    <2>3. job[p].table = t
      BY <1>1, <2>2 DEF TypeOK, IdsOf
    <2>4. ledger'[t] = Append(ledger[t], [job[p].row EXCEPT !.at = Stamp(p)])
      BY <1>1, <2>2, <2>3 DEF TypeOK
    <2>5. ledger[t] \in Seq(RowsOf[t])
      BY <1>1 DEF TypeOK
    <2>6. ledger'[t][id] = [job[p].row EXCEPT !.at = Stamp(p)]
      BY <2>4, <2>5 DEF IdsOf
    <2>7. QED
      BY <2>3, <2>6, StampIsNat
  <1>3. ledger'[t] = ledger[t] \/ \E p \in Process : InsertRow(p)
    <2>1. CASE \E p \in Process : InsertLink(p)
      BY <2>1 DEF InsertLink, TypeOK, RowTable, LinkTable
    <2>2. CASE \E p \in Process : InsertResult(p)
      BY <2>2 DEF InsertResult, TypeOK, RowTable
    <2>3. CASE \E p \in Process : Operation(p) \/ Cut(p)
      BY <2>3, OperationJob DEF Cut
    <2>4. CASE Tick \/ UNCHANGED vars
      BY <2>4 DEF Tick, vars
    <2>5. QED
      BY <2>1, <2>2, <2>3, <2>4 DEF Next
  <1>4. QED
    BY <1>2, <1>3 DEF IdsOf

\* A test or review some process begins to insert is one its operation checked.
LEMMA NewJob ==
  ASSUME TypeOK, [Next]_vars, NEW p \in Process
  PROVE  /\ job'[p].table = "tests" =>
              \/ job[p].table = "tests" /\ job'[p].row = job[p].row
              \/ job'[p].row.claim \in IdsOf("claims")
         /\ job'[p].table = "reviews" =>
              \/ job[p].table = "reviews" /\ job'[p].row = job[p].row
              \/ Independent(job'[p].row)
  <1> DEFINE Goal ==
        /\ job'[p].table = "tests" =>
             \/ job[p].table = "tests" /\ job'[p].row = job[p].row
             \/ job'[p].row.claim \in IdsOf("claims")
        /\ job'[p].table = "reviews" =>
             \/ job[p].table = "reviews" /\ job'[p].row = job[p].row
             \/ Independent(job'[p].row)
  <1>1. CASE job'[p] = job[p]
    BY <1>1
  <1>2. CASE job'[p] = Idle
    BY <1>2 DEF Idle
  <1>3. ASSUME NEW q \in Process, Operation(q)
        PROVE  Goal
    <2>1. PICK t, row, links :
            /\ job' = [job EXCEPT ![q] = [table |-> t, row |-> row, links |-> links,
                                         owner |-> 0]]
            /\ t = "tests" => row.claim \in IdsOf("claims")
            /\ t = "reviews" => Independent(row)
      BY <1>3, OperationJob
    <2>2. CASE q = p
      <3>1. job'[p] = [table |-> t, row |-> row, links |-> links, owner |-> 0]
        BY <2>1, <2>2 DEF TypeOK
      <3>2. job'[p].table = t /\ job'[p].row = row
        BY <3>1
      <3>3. QED
        BY <2>1, <3>2
    <2>3. CASE q # p
      BY <1>1, <2>1, <2>3 DEF TypeOK
    <2>4. QED
      BY <2>2, <2>3
  <1>4. ASSUME NEW q \in Process, InsertRow(q)
        PROVE  Goal
    <2>1. job' = [job EXCEPT ![q] = Idle]
          \/ \E id : job' = [job EXCEPT ![q] = [@ EXCEPT !.owner = id]]
      BY <1>4 DEF InsertRow
    <2>2. CASE q # p
      BY <1>1, <2>1, <2>2 DEF TypeOK
    <2>3. CASE q = p
      <3>1. job[p] \in JobOn(job[p].table)
        BY <1>4, <2>3, JobType DEF InsertRow
      <3>2. job'[p] = Idle \/ \E id : job'[p] = [job[p] EXCEPT !.owner = id]
        BY <2>1, <2>3 DEF TypeOK
      <3>3. QED
        BY <1>2, <3>1, <3>2 DEF JobOn
    <2>4. QED
      BY <2>2, <2>3
  <1>5. ASSUME NEW q \in Process, InsertLink(q) \/ InsertResult(q)
        PROVE  Goal
    <2>1. \E link : job' = [job EXCEPT ![q] = AfterLink(q, link)]
      BY <1>5 DEF InsertLink, InsertResult
    <2>2. CASE q # p
      BY <1>1, <2>1, <2>2 DEF TypeOK
    <2>3. CASE q = p
      <3>1. job[p] \in JobOn(job[p].table)
        BY <1>5, <2>3, JobType DEF InsertLink, InsertResult
      <3>2. job'[p] = Idle \/ \E links : job'[p] = [job[p] EXCEPT !.links = links]
        BY <2>1, <2>3 DEF TypeOK, AfterLink
      <3>3. QED
        BY <1>2, <3>1, <3>2 DEF JobOn
    <2>4. QED
      BY <2>2, <2>3
  <1>6. ASSUME NEW q \in Process, Cut(q)
        PROVE  Goal
    BY <1>1, <1>2, <1>6 DEF Cut, TypeOK
  <1>7. CASE Tick \/ UNCHANGED vars
    BY <1>1, <1>7 DEF Tick, vars
  <1>8. QED
    BY <1>3, <1>4, <1>5, <1>6, <1>7 DEF Next

-----------------------------------------------------------------------------
(***************************************************************************)
(* What a step may do to the ledger and to the inserts under way.          *)
(***************************************************************************)
\* What the operations checked of an insert they hand over.
Checked(t, row, links) ==
  /\ t = "quotes" => Verbatim(row)
  /\ t = "retractions" => row.target \in IdsOf(row.entity)
  /\ t \in CitingTable => Rests(t, row, links) /\ Backed(t, row, links)

Others(p) == \A q \in Process : q # p => job'[q] = job[q]

\* An operation hands its row and its links to an idle process.
HandsOver(p) ==
  /\ job[p] = Idle /\ ledger' = ledger /\ Others(p)
  /\ \E t \in RowTable : \E row, links :
       /\ job'[p] = [table |-> t, row |-> row, links |-> links, owner |-> 0]
       /\ Checked(t, row, links)

\* The insert of a process is over: it was refused, or cut short.
Drops(p) == ledger' = ledger /\ Others(p) /\ job[p] # Idle /\ job'[p] = Idle

AddsTo(t, row) ==
  /\ ledger'[t] = Append(ledger[t], row)
  /\ \A u \in RowTable \cup LinkTable : u # t => ledger'[u] = ledger[u]

RowIn(p) ==
  LET t == job[p].table IN
  /\ job[p] # Idle /\ job[p].owner = 0 /\ Others(p)
  /\ AddsTo(t, [job[p].row EXCEPT !.at = Stamp(p)])
  /\ ~Refused(t, [job[p].row EXCEPT !.at = Stamp(p)])
  /\ job'[p] = IF job[p].links = {} THEN Idle
               ELSE [job[p] EXCEPT !.owner = Len(ledger[t]) + 1]

LinkIn(p, link) ==
  LET t == LinksFrom[job[p].table] IN
  /\ job[p] # Idle /\ job[p].owner # 0 /\ job[p].table \in CitingTable
  /\ link \in job[p].links /\ Others(p) /\ job'[p] = AfterLink(p, link)
  /\ ledger'[t] = ledger[t] \cup {<<job[p].owner, link>>}
  /\ \A u \in RowTable \cup LinkTable : u # t => ledger'[u] = ledger[u]

ResultIn(p, link) ==
  /\ job[p] # Idle /\ job[p].owner # 0 /\ job[p].table = "searches"
  /\ link \in job[p].links /\ Others(p) /\ job'[p] = AfterLink(p, link)
  /\ AddsTo("sources", [SourceRow(job[p].row.project, job[p].owner, link, 0)
                          EXCEPT !.at = Stamp(p)])

\* A step that leaves no row without the rows its process still had to link to it.
WholeStep ==
  \/ ledger' = ledger /\ job' = job
  \/ \E p \in Process :
       \/ HandsOver(p) \/ RowIn(p) \/ (Drops(p) /\ job[p].owner = 0)
       \/ \E link : LinkIn(p, link) \/ ResultIn(p, link)

LEMMA CitingTables == CitingTable = {"notes", "verdicts", "ideas"}
  BY DEF CitingTable, LinksFrom

LEMMA LinkTables ==
  ASSUME NEW t \in CitingTable
  PROVE  LinksFrom[t] \in LinkTable /\ t \in RowTable /\ LinksFrom[t] \notin RowTable
  BY CitingTables DEF LinksFrom, LinkTable, RowTable

\* The ids of a table are the numbers up to its length.
LEMMA IdsAreCounted ==
  ASSUME TypeOK, NEW t \in RowTable
  PROVE  /\ IdsOf(t) = 1..Len(ledger[t]) /\ Len(ledger[t]) \in Nat
         /\ IdsOf(t) \subseteq Nat \ {0} /\ IsFiniteSet(IdsOf(t))
  <1>1. ledger[t] \in Seq(RowsOf[t])
    BY DEF TypeOK
  <1>2. IdsOf(t) = 1..Len(ledger[t]) /\ Len(ledger[t]) \in Nat
    BY <1>1 DEF IdsOf
  <1>3. IsFiniteSet(1..Len(ledger[t]))
    BY <1>2, FS_Interval
  <1>4. QED
    BY <1>2, <1>3

\* A set of two or more has two elements that differ.
LEMMA TwoDiffer ==
  ASSUME NEW S, Cardinality(S) >= 2
  PROVE  \E x, y \in S : x # y
  <1>1. S # {}
    BY FS_EmptySet
  <1>2. PICK x \in S : TRUE
    BY <1>1
  <1>3. S # {x}
    BY FS_Singleton, SMTT(30)
  <1>4. QED
    BY <1>2, <1>3

\* addVerdict has checked what its verdict rests on.
LEMMA VerdictChecks ==
  ASSUME TypeOK, NEW c \in IdsOf("claims"), NEW t \in IdsOf("tests") \cup {0},
         NEW result \in VERDICT_RESULTS, NEW author \in Authors,
         NEW quotes \in SUBSET IdsOf("quotes"), VerdictHolds(c, t, result, quotes)
  PROVE  Checked("verdicts", [claim |-> c, test |-> t, result |-> result,
                              author |-> author, at |-> 0], quotes)
  <1> DEFINE row == [claim |-> c, test |-> t, result |-> result, author |-> author, at |-> 0]
  <1>0. 0 \notin IdsOf("tests")
    BY IdsAreCounted DEF RowTable
  <1>1. Rests("verdicts", row, quotes)
    BY <1>0 DEF Rests, VerdictHolds, QuotesUsable, ProvisionalHolds
  <1>2. ASSUME result = "provisional", ledger.claims[c].kind = "need"
        PROVE  SpokenByTwo(quotes)
    <2> DEFINE heard == {r \in quotes : ledger.quotes[r].kind \in NEED_EVIDENCE}
               keys == {SpeakerKey[ledger.quotes[q].speaker] : q \in heard}
    <2>1. Cardinality(keys) >= 2
      BY <1>2 DEF VerdictHolds, ProvisionalHolds
    <2>2. PICK x, y \in keys : x # y
      BY <2>1, TwoDiffer
    <2>3. QED
      BY <2>2 DEF SpokenByTwo
  <1>3. ASSUME result = "provisional", ledger.tests[t].kind = "experiment"
        PROVE  \E q \in quotes : ledger.sources[ledger.quotes[q].source].test = t
    BY <1>3 DEF VerdictHolds, ProvisionalHolds
  <1>4. ASSUME result = "killed", quotes = {}
        PROVE  t # 0 /\ HasLooked(ledger.claims[c].project)
    BY <1>4 DEF VerdictHolds, KillHolds, LookedSince, HasLooked
  <1>5. Backed("verdicts", row, quotes)
    BY <1>2, <1>3, <1>4 DEF Backed
  <1>6. QED
    BY <1>1, <1>5 DEF Checked

\* Every operation has checked the insert it hands over.
LEMMA OperationChecks ==
  ASSUME TypeOK, NEW p \in Process, Operation(p)
  PROVE  HandsOver(p)
  <1>0. ASSUME NEW t \in RowTable, NEW row, NEW links, Begin(p, t, row, links),
               Checked(t, row, links)
        PROVE  HandsOver(p)
    <2>1. /\ job[p] = Idle /\ ledger' = ledger
          /\ job' = [job EXCEPT ![p] = [table |-> t, row |-> row, links |-> links,
                                        owner |-> 0]]
      BY <1>0 DEF Begin
    <2>2. Others(p) /\ job'[p] = [table |-> t, row |-> row, links |-> links, owner |-> 0]
      BY <2>1 DEF TypeOK, Others
    <2>3. QED
      BY <1>0, <2>1, <2>2 DEF HandsOver
  <1>1. ASSUME NEW t \in RowTable \ {"quotes", "retractions", "notes", "verdicts", "ideas"},
               NEW row, NEW links, Begin(p, t, row, links)
        PROVE  HandsOver(p)
    BY <1>0, <1>1, CitingTables DEF Checked
  <1>2. CASE CreateProject(p) \/ SetArchived(p) \/ RecordSearch(p) \/ SaveSource(p)
    BY <1>1, <1>2 DEF CreateProject, SetArchived, RecordSearch, SaveSource, RowTable
  <1>3. CASE AddClaim(p) \/ AddTest(p) \/ SaveRun(p) \/ AddReview(p) \/ LogStep(p)
    BY <1>1, <1>3 DEF AddClaim, AddTest, SaveRun, AddReview, LogStep, RowTable
  <1>4. CASE AddNote(p)
    <2>1. PICK project \in IdsOf("projects"), kind \in NoteKinds,
               quotes \in Citable(IdsOf("quotes")) :
            /\ QuotesUsable(quotes, project)
            /\ kind = "finding" => quotes # {}
            /\ Begin(p, "notes", [project |-> project, kind |-> kind, at |-> 0], quotes)
      BY <1>4 DEF AddNote
    <2>2. Checked("notes", [project |-> project, kind |-> kind, at |-> 0], quotes)
      BY <2>1 DEF Checked, Rests, Backed, QuotesUsable, Citable
    <2>3. QED
      BY <1>0, <2>1, <2>2 DEF RowTable
  <1>5. CASE AddQuote(p)
    <2>1. PICK s \in IdsOf("sources"), passage \in Passage, speaker \in Speakers,
               kind \in QuoteKinds :
            /\ passage \subseteq ledger.sources[s].text
            /\ Begin(p, "quotes", [source |-> s, text |-> passage, speaker |-> speaker,
                                   kind |-> kind, at |-> 0], {})
      BY <1>5 DEF AddQuote
    <2>2. Checked("quotes", [source |-> s, text |-> passage, speaker |-> speaker,
                             kind |-> kind, at |-> 0], {})
      BY <2>1, CitingTables DEF Checked, Verbatim
    <2>3. QED
      BY <1>0, <2>1, <2>2 DEF RowTable
  <1>6. CASE AddVerdict(p)
    <2>1. PICK c \in IdsOf("claims"), t \in IdsOf("tests") \cup {0},
               result \in VERDICT_RESULTS, author \in Authors,
               quotes \in Citable(IdsOf("quotes")) :
            /\ VerdictHolds(c, t, result, quotes)
            /\ Begin(p, "verdicts", [claim |-> c, test |-> t, result |-> result,
                                     author |-> author, at |-> 0], quotes)
      BY <1>6 DEF AddVerdict
    <2>2. Checked("verdicts", [claim |-> c, test |-> t, result |-> result,
                               author |-> author, at |-> 0], quotes)
      BY <2>1, VerdictChecks DEF Citable
    <2>3. QED
      BY <1>0, <2>1, <2>2 DEF RowTable
  <1>7. CASE AddIdea(p)
    <2>1. PICK project \in IdsOf("projects"), revises \in IdsOf("ideas") \cup {0},
               claims \in Citable(IdsOf("claims")) \ {{}} :
            /\ \A c \in claims : ledger.claims[c].project = project
            /\ Begin(p, "ideas", [project |-> project, revises |-> revises, at |-> 0], claims)
      BY <1>7 DEF AddIdea
    <2>2. Checked("ideas", [project |-> project, revises |-> revises, at |-> 0], claims)
      BY <2>1 DEF Checked, Rests, Backed, Citable
    <2>3. QED
      BY <1>0, <2>1, <2>2 DEF RowTable
  <1>8. CASE Retract(p)
    <2>1. PICK entity \in RETRACTABLE : \E id \in IdsOf(entity) :
            Begin(p, "retractions", [entity |-> entity, target |-> id, at |-> 0], {})
      BY <1>8 DEF Retract
    <2>2. PICK id \in IdsOf(entity) :
            Begin(p, "retractions", [entity |-> entity, target |-> id, at |-> 0], {})
      BY <2>1
    <2>3. Checked("retractions", [entity |-> entity, target |-> id, at |-> 0], {})
      BY CitingTables DEF Checked
    <2>4. QED
      BY <1>0, <2>2, <2>3 DEF RowTable
  <1>9. QED
    BY <1>2, <1>3, <1>4, <1>5, <1>6, <1>7, <1>8 DEF Operation

\* Whatever happens is one of six things.
LEMMA StepKinds ==
  ASSUME TypeOK, [Next]_vars
  PROVE  WholeStep \/ \E p \in Process : Drops(p) /\ Cut(p) /\ job[p].owner # 0
  <1>0. ASSUME NEW p \in Process, NEW new, job' = [job EXCEPT ![p] = new]
        PROVE  Others(p) /\ job'[p] = new
    BY <1>0 DEF TypeOK, Others
  <1>1. ASSUME NEW t \in RowTable, NEW row, ledger' = [ledger EXCEPT ![t] = Append(@, row)]
        PROVE  AddsTo(t, row)
    BY <1>1 DEF TypeOK, AddsTo
  <1>2. ASSUME NEW p \in Process, InsertRow(p)
        PROVE  (Drops(p) /\ job[p].owner = 0) \/ RowIn(p)
    <2> DEFINE row == [job[p].row EXCEPT !.at = Stamp(p)]
               left == IF job[p].links = {} THEN Idle
                       ELSE [job[p] EXCEPT !.owner = Len(ledger[job[p].table]) + 1]
    <2>1. job[p] # Idle /\ job[p].owner = 0 /\ job[p].table \in RowTable
      BY <1>2, JobType DEF InsertRow
    <2>2. CASE Refused(job[p].table, row)
      BY <1>0, <1>2, <2>1, <2>2 DEF InsertRow, Drops
    <2>3. CASE ~Refused(job[p].table, row)
      <3>1. /\ ledger' = [ledger EXCEPT ![job[p].table] = Append(@, row)]
            /\ job' = [job EXCEPT ![p] = left]
        BY <1>2, <2>3 DEF InsertRow, TypeOK
      <3>2. Others(p) /\ job'[p] = left /\ AddsTo(job[p].table, row)
        <4> HIDE DEF row, left
        <4> QED BY <1>0, <1>1, <2>1, <3>1
      <3>3. QED
        BY <2>1, <2>3, <3>2 DEF RowIn
    <2>4. QED
      BY <2>2, <2>3
  <1>3. ASSUME NEW p \in Process, InsertLink(p)
        PROVE  \E link : LinkIn(p, link)
    <2>1. PICK link \in job[p].links :
            /\ ledger' = [ledger EXCEPT ![LinksFrom[job[p].table]] = @ \cup {<<job[p].owner, link>>}]
            /\ job' = [job EXCEPT ![p] = AfterLink(p, link)]
      <3>0. /\ LinksFrom["notes"] = "note_quotes" /\ LinksFrom["verdicts"] = "verdict_quotes"
            /\ LinksFrom["ideas"] = "idea_claims"
        BY DEF LinksFrom
      <3>1. CASE job[p].table = "notes"
        BY <1>3, <3>0, <3>1 DEF InsertLink
      <3>2. CASE job[p].table = "verdicts"
        BY <1>3, <3>0, <3>2 DEF InsertLink
      <3>3. CASE job[p].table = "ideas"
        BY <1>3, <3>0, <3>3 DEF InsertLink
      <3>4. QED
        BY <1>3, <3>1, <3>2, <3>3 DEF InsertLink
    <2>2. job[p] # Idle /\ job[p].owner # 0 /\ job[p].table \in CitingTable
      BY <1>3, CitingTables DEF InsertLink
    <2>3. LinksFrom[job[p].table] \in LinkTable
      BY <2>2, LinkTables
    <2>4. /\ ledger'[LinksFrom[job[p].table]]
               = ledger[LinksFrom[job[p].table]] \cup {<<job[p].owner, link>>}
          /\ \A u \in RowTable \cup LinkTable :
               u # LinksFrom[job[p].table] => ledger'[u] = ledger[u]
      BY <2>1, <2>3 DEF TypeOK
    <2>5. QED
      BY <1>0, <2>1, <2>2, <2>4 DEF LinkIn
  <1>4. ASSUME NEW p \in Process, InsertResult(p)
        PROVE  \E link : ResultIn(p, link)
    <2>1. PICK link \in job[p].links :
            /\ ledger' = [ledger EXCEPT !.sources =
                 Append(@, [SourceRow(job[p].row.project, job[p].owner, link, 0)
                              EXCEPT !.at = Stamp(p)])]
            /\ job' = [job EXCEPT ![p] = AfterLink(p, link)]
      BY <1>4 DEF InsertResult
    <2>2. AddsTo("sources", [SourceRow(job[p].row.project, job[p].owner, link, 0)
                               EXCEPT !.at = Stamp(p)])
      BY <1>1, <2>1 DEF RowTable
    <2>3. QED
      BY <1>0, <1>4, <2>1, <2>2 DEF InsertResult, ResultIn
  <1>5. ASSUME NEW p \in Process, Cut(p)
        PROVE  Drops(p)
    BY <1>0, <1>5 DEF Cut, Drops
  <1>6. CASE Tick \/ UNCHANGED vars
    BY <1>6 DEF Tick, vars, WholeStep
  <1>7. QED
    BY <1>2, <1>3, <1>4, <1>5, <1>6, OperationChecks DEF Next, WholeStep

\* As long as no write is cut short after its row, every step is whole.
LEMMA WholeKinds ==
  ASSUME TypeOK, [WholeNext]_vars
  PROVE  WholeStep /\ [Next]_vars
  BY StepKinds DEF WholeNext, WholeStep, vars

\* A row that is new is the one a process was inserting, or the result of a search.
LEMMA RowAdded ==
  ASSUME TypeOK, [Next]_vars, NEW t \in RowTable, NEW id \in IdsOf(t)', id \notin IdsOf(t)
  PROVE  \/ \E p \in Process :
              /\ RowIn(p) /\ job[p].table = t /\ id = Len(ledger[t]) + 1
              /\ ledger'[t][id] = [job[p].row EXCEPT !.at = Stamp(p)]
         \/ t = "sources" /\ \E p \in Process : \E link : ResultIn(p, link)
  <1>1. ASSUME NEW u \in RowTable, NEW row, AddsTo(u, row)
        PROVE  u = t /\ id = Len(ledger[t]) + 1 /\ ledger'[t][id] = row
    <2>1. t = u
      BY <1>1 DEF AddsTo, IdsOf
    <2>2. ledger[t] \in Seq(RowsOf[t]) /\ ledger'[t] = Append(ledger[t], row)
      BY <1>1, <2>1 DEF TypeOK, AddsTo
    <2>3. id \in DOMAIN Append(ledger[t], row) /\ id \notin DOMAIN ledger[t]
      BY <2>2 DEF IdsOf
    <2>4. QED
      BY <2>1, <2>2, <2>3
  <1>2. ASSUME NEW p \in Process, RowIn(p)
        PROVE  /\ job[p].table = t /\ id = Len(ledger[t]) + 1
               /\ ledger'[t][id] = [job[p].row EXCEPT !.at = Stamp(p)]
    <2>1. job[p].table \in RowTable
      BY <1>2, JobType DEF RowIn
    <2>2. QED
      BY <1>1, <1>2, <2>1 DEF RowIn
  <1>3. ASSUME NEW p \in Process, NEW link, ResultIn(p, link)
        PROVE  t = "sources"
    BY <1>1, <1>3 DEF ResultIn, RowTable
  <1>4. ASSUME NEW p \in Process, NEW link, LinkIn(p, link)
        PROVE  FALSE
    <2>1. LinksFrom[job[p].table] \notin RowTable
      BY <1>4, LinkTables DEF LinkIn
    <2>2. QED
      BY <1>4, <2>1 DEF LinkIn, IdsOf
  <1>5. ledger' # ledger
    BY DEF IdsOf
  <1>6. QED
    BY <1>2, <1>3, <1>4, <1>5, StepKinds DEF WholeStep, HandsOver, Drops

\* An insert under way was handed over in this step, or is what is left of an earlier one.
LEMMA JobOrigin ==
  ASSUME TypeOK, [Next]_vars, NEW p \in Process, NEW t \in RowTable, job'[p].table = t
  PROVE  \/ job'[p].owner = 0 /\ Checked(t, job'[p].row, job'[p].links)
         \/ /\ job[p] # Idle /\ job[p].table = t /\ job'[p].row = job[p].row
            /\ job'[p].owner = 0 => job[p].owner = 0 /\ job'[p].links = job[p].links
            /\ job'[p].owner # 0 =>
                 \/ job'[p].owner = job[p].owner
                 \/ job[p].owner = 0 /\ job'[p].owner \in IdsOf(t)'
  <1> DEFINE Left ==
        /\ job[p] # Idle /\ job[p].table = t /\ job'[p].row = job[p].row
        /\ job'[p].owner = 0 => job[p].owner = 0 /\ job'[p].links = job[p].links
        /\ job'[p].owner # 0 =>
             \/ job'[p].owner = job[p].owner
             \/ job[p].owner = 0 /\ job'[p].owner \in IdsOf(t)'
  <1>0. t # "none"
    BY DEF RowTable
  <1>1. job'[p] # Idle
    BY <1>0 DEF Idle
  <1>2. CASE job'[p] = job[p]
    BY <1>1, <1>2
  <1>3. CASE HandsOver(p)
    <2>1. PICK u, row, links :
            /\ u \in RowTable
            /\ job'[p] = [table |-> u, row |-> row, links |-> links, owner |-> 0]
            /\ Checked(u, row, links)
      BY <1>3 DEF HandsOver
    <2>2. u = t /\ job'[p].row = row /\ job'[p].links = links /\ job'[p].owner = 0
      BY <2>1
    <2>3. QED
      BY <2>1, <2>2
  <1>4. CASE RowIn(p)
    <2>1. job[p] # Idle /\ job[p] \in JobOn(job[p].table) /\ job[p].table \in RowTable
      BY <1>4, JobType DEF RowIn
    <2>2. job'[p] = [job[p] EXCEPT !.owner = Len(ledger[job[p].table]) + 1]
      BY <1>1, <1>4 DEF RowIn
    <2>3. /\ job'[p].table = job[p].table /\ job'[p].row = job[p].row
          /\ job'[p].owner = Len(ledger[t]) + 1
      BY <2>1, <2>2 DEF JobOn
    <2>4. ledger[t] \in Seq(RowsOf[t]) /\ \E row : ledger'[t] = Append(ledger[t], row)
      BY <1>4, <2>1, <2>3 DEF RowIn, AddsTo, TypeOK
    <2>5. job'[p].owner \in IdsOf(t)'
      <3>1. PICK row : ledger'[t] = Append(ledger[t], row)
        BY <2>4
      <3>2. Len(ledger[t]) + 1 \in DOMAIN Append(ledger[t], row)
        BY <2>4
      <3>3. QED
        BY <2>3, <3>1, <3>2 DEF IdsOf
    <2>6. Left
      BY <1>4, <2>1, <2>3, <2>4, <2>5 DEF RowIn
    <2>7. QED
      BY <2>6
  <1>5. ASSUME NEW link, job[p] # Idle, job[p].owner # 0, job'[p] = AfterLink(p, link)
        PROVE  Left
    <2>1. job[p] \in JobOn(job[p].table) /\ job[p].table \in RowTable
      BY <1>5, JobType
    <2>2. job'[p] = [job[p] EXCEPT !.links = job[p].links \ {link}]
      BY <1>1, <1>5 DEF AfterLink
    <2>3. job'[p].table = job[p].table /\ job'[p].row = job[p].row /\ job'[p].owner = job[p].owner
      BY <2>1, <2>2 DEF JobOn
    <2>4. QED
      BY <1>5, <2>3
  <1>6. ~Drops(p)
    BY <1>1 DEF Drops
  <1>7. QED
    BY <1>2, <1>3, <1>4, <1>5, <1>6, StepKinds
       DEF WholeStep, HandsOver, Drops, RowIn, LinkIn, ResultIn, Others

\* What is cited, link by link.
LEMMA CitedMembers ==
  ASSUME TypeOK, NEW t \in CitingTable, NEW id, NEW x
  PROVE  x \in CitedBy(t, id) <=>
           \/ <<id, x>> \in ledger[LinksFrom[t]]
           \/ \E p \in Process : job[p].table = t /\ job[p].owner = id /\ x \in job[p].links
  <1>1. ledger[LinksFrom[t]] \subseteq Link
    BY LinkTables DEF TypeOK
  <1>2. ASSUME NEW l \in ledger[LinksFrom[t]]
        PROVE  l = <<l[1], l[2]>>
    BY <1>1, <1>2 DEF Link
  <1>3. QED
    BY <1>2 DEF CitedBy

LEMMA CitedMembersNext ==
  ASSUME TypeOK', NEW t \in CitingTable, NEW id, NEW x
  PROVE  x \in CitedBy(t, id)' <=>
           \/ <<id, x>> \in ledger'[LinksFrom[t]]
           \/ \E p \in Process : job'[p].table = t /\ job'[p].owner = id /\ x \in job'[p].links
  <1>1. ledger'[LinksFrom[t]] \subseteq Link
    BY LinkTables DEF TypeOK
  <1>2. ASSUME NEW l \in ledger'[LinksFrom[t]]
        PROVE  l = <<l[1], l[2]>>
    BY <1>1, <1>2 DEF Link
  <1>3. QED
    BY <1>2 DEF CitedBy

\* A step adds nothing to what a row in the ledger cites, and takes nothing away unless
\* a write is cut short.
LEMMA CitedKept ==
  ASSUME TypeOK, TypeOK', [Next]_vars, NEW t \in CitingTable, NEW id \in IdsOf(t)
  PROVE  /\ CitedBy(t, id)' \subseteq CitedBy(t, id)
         /\ WholeStep => CitedBy(t, id)' = CitedBy(t, id)
  <1> DEFINE Pending(p, x) == job[p].table = t /\ job[p].owner = id /\ x \in job[p].links
  <1>0. t \in RowTable /\ LinksFrom[t] \in LinkTable /\ LinksFrom[t] \notin RowTable
    BY LinkTables
  <1>1. id # 0 /\ id # Len(ledger[t]) + 1
    BY <1>0, IdsAreCounted
  <1>2. t # Idle.table /\ Idle.owner = 0
    BY <1>0 DEF Idle, RowTable
  <1>3. ASSUME NEW x, WholeStep
        PROVE  x \in CitedBy(t, id)' <=> x \in CitedBy(t, id)
    <2>1. ASSUME NEW p \in Process, Others(p), ~Pending(p, x), ~Pending(p, x)',
                 ledger'[LinksFrom[t]] = ledger[LinksFrom[t]]
          PROVE  x \in CitedBy(t, id)' <=> x \in CitedBy(t, id)
      <3>1. \A q \in Process : Pending(q, x)' <=> Pending(q, x)
        BY <2>1 DEF Others
      <3>2. x \in CitedBy(t, id)' <=>
              <<id, x>> \in ledger'[LinksFrom[t]] \/ \E q \in Process : Pending(q, x)'
        BY CitedMembersNext
      <3>3. x \in CitedBy(t, id) <=>
              <<id, x>> \in ledger[LinksFrom[t]] \/ \E q \in Process : Pending(q, x)
        BY CitedMembers
      <3>4. QED
        BY <2>1, <3>1, <3>2, <3>3
    <2>2. CASE ledger' = ledger /\ job' = job
      BY <2>2 DEF CitedBy
    <2>3. ASSUME NEW p \in Process, HandsOver(p)
          PROVE  x \in CitedBy(t, id)' <=> x \in CitedBy(t, id)
      <3>1. ~Pending(p, x) /\ ~Pending(p, x)'
        BY <1>1, <1>2, <2>3 DEF HandsOver
      <3>2. QED
        BY <2>1, <2>3, <3>1 DEF HandsOver
    <2>4. ASSUME NEW p \in Process, Drops(p), job[p].owner = 0
          PROVE  x \in CitedBy(t, id)' <=> x \in CitedBy(t, id)
      BY <1>1, <1>2, <2>1, <2>4 DEF Drops
    <2>5. ASSUME NEW p \in Process, RowIn(p)
          PROVE  x \in CitedBy(t, id)' <=> x \in CitedBy(t, id)
      <3>1. job[p] # Idle /\ job[p] \in JobOn(job[p].table) /\ job[p].table \in RowTable
        BY <2>5, JobType DEF RowIn
      <3>2. ledger'[LinksFrom[t]] = ledger[LinksFrom[t]]
        BY <1>0, <2>5, <3>1 DEF RowIn, AddsTo
      <3>3. ~Pending(p, x)
        BY <1>1, <2>5 DEF RowIn
      <3>4. ~Pending(p, x)'
        BY <1>1, <1>2, <2>5, <3>1 DEF RowIn, JobOn
      <3>5. QED
        BY <2>1, <2>5, <3>2, <3>3, <3>4 DEF RowIn
    <2>6. ASSUME NEW p \in Process, NEW link, ResultIn(p, link)
          PROVE  x \in CitedBy(t, id)' <=> x \in CitedBy(t, id)
      <3>1. job[p] \in JobOn(job[p].table)
        BY <2>6, JobType DEF ResultIn
      <3>2. ledger'[LinksFrom[t]] = ledger[LinksFrom[t]]
        BY <1>0, <2>6 DEF ResultIn, AddsTo, RowTable
      <3>3. t # "searches"
        BY CitingTables
      <3>4. ~Pending(p, x) /\ ~Pending(p, x)'
        BY <1>2, <2>6, <3>1, <3>3 DEF ResultIn, AfterLink, JobOn
      <3>5. QED
        BY <2>1, <2>6, <3>2, <3>4 DEF ResultIn
    <2>7. ASSUME NEW p \in Process, NEW link, LinkIn(p, link)
          PROVE  x \in CitedBy(t, id)' <=> x \in CitedBy(t, id)
      <3>1. job[p] \in JobOn(job[p].table) /\ job[p].table \in CitingTable
        BY <2>7, JobType DEF LinkIn
      <3>2. job[p].table # t => LinksFrom[job[p].table] # LinksFrom[t]
        BY <3>1, CitingTables DEF LinksFrom
      <3>3. Pending(p, x)' <=> Pending(p, x) /\ x # link
        BY <1>1, <1>2, <2>7, <3>1 DEF LinkIn, AfterLink, JobOn
      <3>4. <<id, x>> \in ledger'[LinksFrom[t]] <=>
              <<id, x>> \in ledger[LinksFrom[t]] \/ (Pending(p, x) /\ x = link)
        BY <1>0, <2>7, <3>1, <3>2 DEF LinkIn
      <3>5. \A q \in Process : q # p => (Pending(q, x)' <=> Pending(q, x))
        BY <2>7 DEF LinkIn, Others
      <3>6. QED
        BY <3>3, <3>4, <3>5, CitedMembers, CitedMembersNext
    <2>8. QED
      BY <1>3, <2>2, <2>3, <2>4, <2>5, <2>6, <2>7 DEF WholeStep
  <1>4. ASSUME NEW p \in Process, Drops(p), NEW x \in CitedBy(t, id)'
        PROVE  x \in CitedBy(t, id)
    <2>1. \A q \in Process : Pending(q, x)' => Pending(q, x)
      BY <1>1, <1>2, <1>4 DEF Drops, Others
    <2>2. ledger' = ledger
      BY <1>4 DEF Drops
    <2>3. <<id, x>> \in ledger'[LinksFrom[t]] \/ \E q \in Process : Pending(q, x)'
      BY <1>4, CitedMembersNext
    <2>4. <<id, x>> \in ledger[LinksFrom[t]] \/ \E q \in Process : Pending(q, x)
      BY <2>1, <2>2, <2>3
    <2>5. QED
      BY <2>4, CitedMembers
  <1>5. WholeStep => \A x : x \in CitedBy(t, id)' <=> x \in CitedBy(t, id)
    BY <1>3
  <1>6. QED
    BY <1>4, <1>5, StepKinds

\* A row that is new cites what its process is about to link to it.
LEMMA CitedNew ==
  ASSUME TypeOK, TypeOK', CitationsRest, NEW t \in CitingTable, NEW p \in Process, RowIn(p),
         job[p].table = t, NEW id, id = Len(ledger[t]) + 1
  PROVE  CitedBy(t, id)' = job[p].links
  <1>0. /\ t \in RowTable /\ LinksFrom[t] \in LinkTable /\ LinksFrom[t] \notin RowTable
        /\ LinksOf(t) = Nat
    BY LinkTables, CitingTables DEF LinksOf
  <1>1. id \notin IdsOf(t) /\ id # 0 /\ id \in Nat
    BY <1>0, IdsAreCounted
  <1>2. /\ job[p] # Idle /\ job[p] \in JobOn(t) /\ job[p].links \subseteq Nat
    BY <1>0, JobType DEF RowIn
  <1>3. ledger'[LinksFrom[t]] = ledger[LinksFrom[t]]
    BY <1>0 DEF RowIn, AddsTo
  <1>4. ASSUME NEW x
        PROVE  <<id, x>> \notin ledger[LinksFrom[t]]
    BY <1>1 DEF CitationsRest
  <1>5. ASSUME NEW q \in Process, q # p
        PROVE  ~(job'[q].table = t /\ job'[q].owner = id)
    BY <1>1, <1>5 DEF CitationsRest, RowIn, Others
  <1>6. job[p].links # {} => job'[p].table = t /\ job'[p].owner = id /\ job'[p].links = job[p].links
    BY <1>2 DEF RowIn, JobOn
  <1>7. job[p].links = {} => job'[p].table # t
    BY <1>0 DEF RowIn, Idle, RowTable
  <1>8. ASSUME NEW x
        PROVE  x \in CitedBy(t, id)' <=> x \in job[p].links
    <2>1. x \in CitedBy(t, id)' <=>
            \/ <<id, x>> \in ledger'[LinksFrom[t]]
            \/ \E q \in Process : job'[q].table = t /\ job'[q].owner = id /\ x \in job'[q].links
      BY CitedMembersNext
    <2>2. QED
      BY <2>1, <1>3, <1>4, <1>5, <1>6, <1>7
  <1>9. QED
    BY <1>8

\* The stamp of a row is not what was checked of it.
LEMMA CheckedStamped ==
  ASSUME NEW t \in RowTable, NEW row \in RowsOf[t], NEW links, NEW at
  PROVE  LET stamped == [row EXCEPT !.at = at] IN
         /\ t \in CitingTable /\ Rests(t, row, links) => Rests(t, stamped, links)
         /\ t \in CitingTable /\ Backed(t, row, links) => Backed(t, stamped, links)
         /\ t = "quotes" /\ Verbatim(row) => Verbatim(stamped)
  <1>1. CASE t = "verdicts"
    BY <1>1, CitingTables DEF RowsOf, Verdict, Rests, Backed
  <1>2. CASE t = "ideas"
    BY <1>2, CitingTables DEF RowsOf, Idea, Rests, Backed
  <1>3. CASE t = "notes"
    BY <1>3, CitingTables DEF RowsOf, Note, Rests, Backed
  <1>4. CASE t = "quotes"
    BY <1>4, CitingTables DEF RowsOf, Quote, Verbatim
  <1>5. QED
    BY <1>1, <1>2, <1>3, <1>4, CitingTables

\* Rows stay, so what was checked of them stays true.
LEMMA VerbatimKept ==
  ASSUME TypeOK, [Next]_vars, NEW row, Verbatim(row)
  PROVE  Verbatim(row)'
  BY NextKeeps DEF Verbatim, RowTable

LEMMA RestsKept ==
  ASSUME TypeOK, QuotesVerbatim, [Next]_vars, NEW t \in CitingTable, NEW row,
         NEW cited, NEW left, left \subseteq cited, Rests(t, row, cited)
  PROVE  Rests(t, row, left)'
  <1> DEFINE Kept(u) == \A id \in IdsOf(u) : id \in IdsOf(u)' /\ ledger'[u][id] = ledger[u][id]
  <1>1. Kept("quotes") /\ Kept("sources") /\ Kept("claims") /\ Kept("tests")
    BY NextKeeps DEF RowTable
  <1>2. ASSUME NEW q \in IdsOf("quotes")
        PROVE  /\ q \in IdsOf("quotes")' /\ ledger'.quotes[q] = ledger.quotes[q]
               /\ ProjectOf(q)' = ProjectOf(q) /\ SourceText(q)' = SourceText(q)
    BY <1>1 DEF QuotesVerbatim, Verbatim, ProjectOf, SourceText
  <1>3. ASSUME NEW q \in IdsOf("quotes"), NEW r \in IdsOf("quotes")
        PROVE  SamePassage(q, r)' <=> SamePassage(q, r)
    BY <1>2 DEF SamePassage
  <1>4. CASE t = "verdicts"
    <2>1. row.claim \in IdsOf("claims") /\ cited \subseteq IdsOf("quotes")
      BY <1>4 DEF Rests
    <2>2. ledger'.claims[row.claim] = ledger.claims[row.claim] /\ row.claim \in IdsOf("claims")'
      BY <1>1, <2>1
    <2>3. row.test # 0 => row.test \in IdsOf("tests")' /\ ledger'.tests[row.test].claim = row.claim
      BY <1>1, <1>4 DEF Rests
    <2>4. \A q \in left : q \in IdsOf("quotes")' /\ ProjectOf(q)' = ledger'.claims[row.claim].project
      BY <1>2, <1>4, <2>1, <2>2 DEF Rests
    <2>5. \A q, r \in left : q # r => ~SamePassage(q, r)'
      BY <1>3, <1>4, <2>1 DEF Rests
    <2>6. QED
      BY <1>4, <2>2, <2>3, <2>4, <2>5 DEF Rests
  <1>5. CASE t = "ideas"
    BY <1>1, <1>5 DEF Rests
  <1>6. CASE t = "notes"
    <2>1. \A q \in left : q \in IdsOf("quotes")' /\ ProjectOf(q)' = row.project
      BY <1>2, <1>6 DEF Rests
    <2>2. QED
      BY <1>6, <2>1 DEF Rests
  <1>7. QED
    BY <1>4, <1>5, <1>6, CitingTables

LEMMA BackedKept ==
  ASSUME TypeOK, QuotesVerbatim, [Next]_vars, NEW t \in CitingTable, NEW row, NEW cited,
         Rests(t, row, cited), Backed(t, row, cited)
  PROVE  Backed(t, row, cited)'
  <1> DEFINE Kept(u) == \A id \in IdsOf(u) : id \in IdsOf(u)' /\ ledger'[u][id] = ledger[u][id]
  <1>1. Kept("quotes") /\ Kept("sources") /\ Kept("claims") /\ Kept("tests") /\ Kept("searches")
    BY NextKeeps DEF RowTable
  <1>2. ASSUME NEW q \in IdsOf("quotes")
        PROVE  /\ ledger'.quotes[q] = ledger.quotes[q]
               /\ ledger'.sources[ledger.quotes[q].source] = ledger.sources[ledger.quotes[q].source]
    BY <1>1 DEF QuotesVerbatim, Verbatim
  <1>3. CASE t = "verdicts"
    <2>1. row.claim \in IdsOf("claims") /\ cited \subseteq IdsOf("quotes")
      BY <1>3 DEF Rests
    <2>2. ledger'.claims[row.claim] = ledger.claims[row.claim]
      BY <1>1, <2>1
    <2>3. SpokenByTwo(cited) => SpokenByTwo(cited)'
      BY <1>2, <2>1 DEF SpokenByTwo
    <2>4. row.result = "provisional" => ledger'.tests[row.test] = ledger.tests[row.test]
      BY <1>1, <1>3 DEF Rests
    <2>5. HasLooked(ledger.claims[row.claim].project) => HasLooked(ledger.claims[row.claim].project)'
      BY <1>1, <2>2 DEF HasLooked
    <2>6. ASSUME row.result = "provisional", ledger'.tests[row.test].kind = "experiment"
          PROVE  \E q \in cited : ledger'.sources[ledger'.quotes[q].source].test = row.test
      BY <1>2, <1>3, <2>1, <2>4, <2>6 DEF Backed
    <2>7. QED
      BY <1>3, <2>2, <2>3, <2>5, <2>6 DEF Backed
  <1>4. CASE t = "ideas" \/ t = "notes"
    BY <1>4 DEF Backed
  <1>5. QED
    BY <1>3, <1>4, CitingTables

-----------------------------------------------------------------------------
(***************************************************************************)
(* The inductive invariant.                                                *)
(***************************************************************************)
LEMMA InitInv == Init => LedgerInv
  <1> SUFFICES ASSUME Init PROVE LedgerInv
    OBVIOUS
  <1>1. \A t \in RowTable : ledger[t] = <<>>
    BY DEF Init, EmptyLedger
  <1>2. \A t \in LinkTable : ledger[t] = {}
    BY DEF Init, EmptyLedger, RowTable, LinkTable
  <1>3. TypeOK
    BY <1>1, <1>2 DEF Init, EmptyLedger, TypeOK
  <1>4. \A t \in RowTable : IdsOf(t) = {}
    BY <1>1 DEF IdsOf
  <1>5. \A p \in Process : job[p].table = "none"
    BY DEF Init, Idle
  <1>6. TestsRefer /\ ReviewsIndependent /\ QuotesVerbatim /\ RetractionsRefer
    BY <1>4, <1>5
       DEF TestsRefer, ReviewsIndependent, QuotesVerbatim, RetractionsRefer, RowTable
  <1>7. CitationsRest
    BY <1>2, <1>4, <1>5, CitingTables, LinkTables DEF CitationsRest
  <1>8. QED
    BY <1>3, <1>6, <1>7 DEF LedgerInv

\* Rows referred to stay, so what was checked of them stays true.
LEMMA NextTestsRefer ==
  ASSUME LedgerInv, [Next]_vars
  PROVE  TestsRefer'
  <1>1. \A id \in IdsOf("claims") : id \in IdsOf("claims")'
    BY NextKeeps DEF LedgerInv, RowTable
  <1>2. ASSUME NEW t \in IdsOf("tests")'
        PROVE  ledger'.tests[t].claim \in IdsOf("claims")'
    <2>1. CASE t \in IdsOf("tests")
      BY <1>1, <2>1, NextKeeps DEF LedgerInv, TestsRefer, RowTable
    <2>2. CASE t \notin IdsOf("tests")
      <3>1. PICK p \in Process, at \in Nat :
              /\ job[p].table = "tests"
              /\ ledger'["tests"][t] = [job[p].row EXCEPT !.at = at]
        BY <1>2, <2>2, NewRow DEF LedgerInv
      <3>2. job[p].row \in Test
        BY <3>1, JobType DEF LedgerInv, Idle, RowsOf
      <3>3. ledger'["tests"][t].claim = job[p].row.claim
        BY <3>1, <3>2 DEF Test
      <3>4. QED
        BY <1>1, <3>1, <3>3 DEF LedgerInv, TestsRefer
    <2>3. QED
      BY <2>1, <2>2
  <1>3. ASSUME NEW p \in Process, job'[p].table = "tests"
        PROVE  job'[p].row.claim \in IdsOf("claims")'
    BY <1>1, <1>3, NewJob DEF LedgerInv, TestsRefer
  <1>4. QED
    BY <1>2, <1>3 DEF TestsRefer

LEMMA NextReviewsIndependent ==
  ASSUME LedgerInv, [Next]_vars
  PROVE  ReviewsIndependent'
  <1>1. ASSUME NEW review, Independent(review)
        PROVE  /\ review.verdict \in IdsOf("verdicts")'
               /\ SpeakerKey[review.reviewer]
                    # SpeakerKey[ledger'.verdicts[review.verdict].author]
    BY <1>1, NextKeeps DEF LedgerInv, Independent, RowTable
  <1>2. ASSUME NEW r \in IdsOf("reviews")'
        PROVE  Independent(ledger.reviews[r])'
    <2>1. CASE r \in IdsOf("reviews")
      <3>1. ledger'.reviews[r] = ledger.reviews[r] /\ Independent(ledger.reviews[r])
        BY <2>1, NextKeeps DEF LedgerInv, ReviewsIndependent, RowTable
      <3>2. QED
        BY <1>1, <3>1 DEF Independent
    <2>2. CASE r \notin IdsOf("reviews")
      <3>1. PICK p \in Process, at \in Nat :
              /\ job[p].table = "reviews"
              /\ ledger'["reviews"][r] = [job[p].row EXCEPT !.at = at]
        BY <1>2, <2>2, NewRow DEF LedgerInv
      <3>2. job[p].row \in Review
        BY <3>1, JobType DEF LedgerInv, Idle, RowsOf
      <3>3. /\ ledger'["reviews"][r].verdict = job[p].row.verdict
            /\ ledger'["reviews"][r].reviewer = job[p].row.reviewer
        BY <3>1, <3>2 DEF Review
      <3>4. Independent(job[p].row)
        BY <3>1 DEF LedgerInv, ReviewsIndependent
      <3>5. QED
        BY <1>1, <3>3, <3>4 DEF Independent
    <2>3. QED
      BY <2>1, <2>2
  <1>3. ASSUME NEW p \in Process, job'[p].table = "reviews"
        PROVE  Independent(job[p].row)'
    <2>1. Independent(job'[p].row)
      BY <1>3, NewJob DEF LedgerInv, ReviewsIndependent
    <2>2. QED
      BY <1>1, <2>1 DEF Independent
  <1>4. QED
    BY <1>2, <1>3 DEF ReviewsIndependent

LEMMA NextQuotesVerbatim ==
  ASSUME LedgerInv, [Next]_vars
  PROVE  QuotesVerbatim'
  <1> USE DEF LedgerInv
  <1>1. ASSUME NEW q \in IdsOf("quotes")'
        PROVE  Verbatim(ledger.quotes[q])'
    <2>1. CASE q \in IdsOf("quotes")
      <3>1. ledger'.quotes[q] = ledger.quotes[q] /\ Verbatim(ledger.quotes[q])
        BY <2>1, NextKeeps DEF QuotesVerbatim, RowTable
      <3>2. QED
        BY <3>1, VerbatimKept
    <2>2. CASE q \notin IdsOf("quotes")
      <3>1. PICK p \in Process :
              /\ RowIn(p) /\ job[p].table = "quotes"
              /\ ledger'["quotes"][q] = [job[p].row EXCEPT !.at = Stamp(p)]
        BY <1>1, <2>2, RowAdded DEF RowTable
      <3>2. job[p].row \in RowsOf["quotes"] /\ Verbatim(job[p].row)
        BY <3>1, JobType DEF RowIn, QuotesVerbatim
      <3>3. Verbatim([job[p].row EXCEPT !.at = Stamp(p)])
        BY <3>2, CheckedStamped DEF RowTable
      <3>4. QED
        BY <3>1, <3>3, VerbatimKept
    <2>3. QED
      BY <2>1, <2>2
  <1>2. ASSUME NEW p \in Process, job'[p].table = "quotes"
        PROVE  Verbatim(job[p].row)'
    <2>1. Verbatim(job'[p].row)
      BY <1>2, JobOrigin DEF RowTable, Checked, QuotesVerbatim
    <2>2. QED
      BY <2>1, VerbatimKept
  <1>3. QED
    BY <1>1, <1>2 DEF QuotesVerbatim

LEMMA NextRetractionsRefer ==
  ASSUME LedgerInv, [Next]_vars
  PROVE  RetractionsRefer'
  <1> USE DEF LedgerInv
  <1>1. ASSUME NEW entity \in RETRACTABLE, NEW target \in IdsOf(entity)
        PROVE  target \in DOMAIN ledger'[entity]
    BY NextKeeps DEF RETRACTABLE, RowTable, IdsOf
  <1>2. ASSUME NEW x \in IdsOf("retractions")'
        PROVE  ledger'.retractions[x].target \in DOMAIN ledger'[ledger'.retractions[x].entity]
    <2>1. CASE x \in IdsOf("retractions")
      <3>1. /\ ledger'.retractions[x] = ledger.retractions[x]
            /\ ledger.retractions[x] \in Retraction
        BY <2>1, NextKeeps, RowWithId DEF RowTable, RowsOf
      <3>2. QED
        BY <1>1, <2>1, <3>1 DEF RetractionsRefer, Retraction
    <2>2. CASE x \notin IdsOf("retractions")
      <3>1. PICK p \in Process :
              /\ RowIn(p) /\ job[p].table = "retractions"
              /\ ledger'["retractions"][x] = [job[p].row EXCEPT !.at = Stamp(p)]
        BY <1>2, <2>2, RowAdded DEF RowTable
      <3>2. /\ job[p].row \in Retraction /\ job[p].row.target \in IdsOf(job[p].row.entity)
        BY <3>1, JobType DEF RowIn, RetractionsRefer, RowsOf
      <3>3. /\ ledger'.retractions[x].target = job[p].row.target
            /\ ledger'.retractions[x].entity = job[p].row.entity
        BY <3>1, <3>2 DEF Retraction
      <3>4. QED
        BY <1>1, <3>2, <3>3 DEF Retraction
    <2>3. QED
      BY <2>1, <2>2
  <1>3. ASSUME NEW p \in Process, job'[p].table = "retractions"
        PROVE  job'[p].row.target \in DOMAIN ledger'[job'[p].row.entity]
    <2>1. job'[p].row.target \in IdsOf(job'[p].row.entity)
      BY <1>3, JobOrigin DEF RowTable, Checked, RetractionsRefer
    <2>2. job'[p].row \in RowsOf["retractions"]
      <3>1. job'[p] = Idle \/ \E t \in RowTable : job'[p] \in JobOn(t)
        BY NextType DEF TypeOK
      <3>2. job'[p] \in JobOn("retractions")
        BY <1>3, <3>1 DEF JobOn, Idle
      <3>3. QED
        BY <3>2 DEF JobOn
    <2>3. QED
      BY <1>1, <2>1, <2>2 DEF RowsOf, Retraction
  <1>4. QED
    BY <1>2, <1>3 DEF RetractionsRefer, IdsOf

\* A row that is new rests on what its process is about to link to it.
LEMMA NewRowRests ==
  ASSUME LedgerInv, TypeOK', [Next]_vars, NEW t \in CitingTable, NEW id \in IdsOf(t)',
         id \notin IdsOf(t)
  PROVE  \E p \in Process :
           /\ job[p].table = t /\ job[p].owner = 0 /\ CitedBy(t, id)' = job[p].links
           /\ job[p].row \in RowsOf[t] /\ Rests(t, job[p].row, job[p].links)
           /\ ledger'[t][id] = [job[p].row EXCEPT !.at = Stamp(p)]
  <1> USE DEF LedgerInv
  <1>1. t \in RowTable /\ t # "sources"
    BY LinkTables, CitingTables
  <1>2. PICK p \in Process :
          /\ RowIn(p) /\ job[p].table = t /\ id = Len(ledger[t]) + 1
          /\ ledger'[t][id] = [job[p].row EXCEPT !.at = Stamp(p)]
    BY <1>1, RowAdded
  <1>3. job[p].owner = 0 /\ job[p].row \in RowsOf[t]
    BY <1>2, JobType DEF RowIn
  <1>4. CitedBy(t, id)' = job[p].links
    BY <1>2, CitedNew
  <1>5. Rests(t, job[p].row, job[p].links)
    BY <1>2, <1>3 DEF CitationsRest
  <1>6. QED
    BY <1>2, <1>3, <1>4, <1>5

LEMMA NextCitationsRest ==
  ASSUME LedgerInv, TypeOK', [Next]_vars
  PROVE  CitationsRest'
  <1> USE DEF LedgerInv
  <1> SUFFICES ASSUME NEW t \in CitingTable
               PROVE  /\ \A id \in IdsOf(t)' : Rests(t, ledger[t][id], CitedBy(t, id))'
                      /\ \A link \in ledger'[LinksFrom[t]] : link[1] \in IdsOf(t)'
                      /\ \A p \in Process : job'[p].table = t =>
                           IF job'[p].owner = 0 THEN Rests(t, job[p].row, job[p].links)'
                           ELSE job'[p].owner \in IdsOf(t)'
    BY DEF CitationsRest
  <1>0. t \in RowTable /\ LinksFrom[t] \in LinkTable /\ LinksFrom[t] \notin RowTable
    BY LinkTables
  <1>1. \A id \in IdsOf(t) : id \in IdsOf(t)' /\ ledger'[t][id] = ledger[t][id]
    BY <1>0, NextKeeps
  <1>2. ASSUME NEW id \in IdsOf(t)'
        PROVE  Rests(t, ledger[t][id], CitedBy(t, id))'
    <2>1. CASE id \in IdsOf(t)
      <3>1. Rests(t, ledger[t][id], CitedBy(t, id)) /\ ledger'[t][id] = ledger[t][id]
        BY <1>1, <2>1 DEF CitationsRest
      <3>2. CitedBy(t, id)' \subseteq CitedBy(t, id)
        BY <2>1, CitedKept
      <3>3. QED
        BY <3>1, <3>2, RestsKept
    <2>2. CASE id \notin IdsOf(t)
      <3>1. PICK p \in Process :
              /\ CitedBy(t, id)' = job[p].links
              /\ job[p].row \in RowsOf[t] /\ Rests(t, job[p].row, job[p].links)
              /\ ledger'[t][id] = [job[p].row EXCEPT !.at = Stamp(p)]
        BY <1>2, <2>2, NewRowRests
      <3>2. Rests(t, ledger'[t][id], job[p].links)
        BY <1>0, <3>1, CheckedStamped, SMTT(30)
      <3>3. QED
        BY <3>1, <3>2, RestsKept
    <2>3. QED
      BY <2>1, <2>2
  <1>3. ASSUME NEW link \in ledger'[LinksFrom[t]]
        PROVE  link[1] \in IdsOf(t)'
    <2>1. CASE link \in ledger[LinksFrom[t]]
      BY <1>1, <2>1 DEF CitationsRest
    <2>2. CASE link \notin ledger[LinksFrom[t]]
      <3>1. PICK p, x : p \in Process /\ LinkIn(p, x) /\ link \in ledger'[LinksFrom[t]]
        BY <1>0, <1>3, <2>2, StepKinds, JobType
           DEF WholeStep, HandsOver, Drops, RowIn, ResultIn, AddsTo, RowTable
      <3>2. job[p].table = t /\ link = <<job[p].owner, x>>
        BY <1>0, <2>2, <3>1, CitingTables DEF LinkIn, LinksFrom
      <3>3. QED
        BY <1>1, <3>1, <3>2 DEF CitationsRest, LinkIn
    <2>3. QED
      BY <2>1, <2>2
  <1>4. ASSUME NEW p \in Process, job'[p].table = t
        PROVE  IF job'[p].owner = 0 THEN Rests(t, job[p].row, job[p].links)'
               ELSE job'[p].owner \in IdsOf(t)'
    <2>1. CASE job'[p].owner = 0
      <3>1. Rests(t, job'[p].row, job'[p].links)
        BY <1>0, <1>4, <2>1, JobOrigin DEF Checked, CitationsRest
      <3>2. QED
        BY <2>1, <3>1, RestsKept
    <2>2. CASE job'[p].owner # 0
      BY <1>0, <1>1, <1>4, <2>2, JobOrigin DEF CitationsRest
    <2>3. QED
      BY <2>1, <2>2
  <1>5. QED
    BY <1>2, <1>3, <1>4

LEMMA NextInv == LedgerInv /\ [Next]_vars => LedgerInv'
  <1> SUFFICES ASSUME LedgerInv, [Next]_vars PROVE LedgerInv'
    OBVIOUS
  <1>1. TypeOK'
    BY NextType DEF LedgerInv
  <1>2. QED
    BY <1>1, NextTestsRefer, NextReviewsIndependent, NextQuotesVerbatim, NextRetractionsRefer,
       NextCitationsRest DEF LedgerInv

\* What holds besides, as long as no write is cut short after its row.
LEMMA InitWhole == Init => WholeInv
  <1> SUFFICES ASSUME Init PROVE CitationsBacked
    BY InitInv DEF WholeInv
  <1>1. \A t \in RowTable : IdsOf(t) = {}
    BY DEF Init, EmptyLedger, IdsOf
  <1>2. \A p \in Process : job[p].table = "none"
    BY DEF Init, Idle
  <1>3. QED
    BY <1>1, <1>2, CitingTables, LinkTables DEF CitationsBacked

LEMMA NextWhole == WholeInv /\ [WholeNext]_vars => WholeInv'
  <1> SUFFICES ASSUME WholeInv, [WholeNext]_vars PROVE WholeInv'
    OBVIOUS
  <1>1. LedgerInv /\ TypeOK /\ QuotesVerbatim /\ CitationsRest /\ CitationsBacked
    BY DEF WholeInv, LedgerInv
  <1>2. WholeStep /\ [Next]_vars
    BY <1>1, WholeKinds
  <1>3. LedgerInv' /\ TypeOK'
    BY <1>1, <1>2, NextInv DEF LedgerInv
  <1> SUFFICES ASSUME NEW t \in CitingTable
               PROVE  /\ \A id \in IdsOf(t)' : Backed(t, ledger[t][id], CitedBy(t, id))'
                      /\ \A p \in Process : job'[p].table = t /\ job'[p].owner = 0
                           => Backed(t, job[p].row, job[p].links)'
    BY <1>3 DEF WholeInv, CitationsBacked
  <1>4. t \in RowTable
    BY LinkTables
  <1>5. ASSUME NEW id \in IdsOf(t)'
        PROVE  Backed(t, ledger[t][id], CitedBy(t, id))'
    <2>1. CASE id \in IdsOf(t)
      <3>1. /\ Rests(t, ledger[t][id], CitedBy(t, id))
            /\ Backed(t, ledger[t][id], CitedBy(t, id))
        BY <1>1, <2>1 DEF CitationsRest, CitationsBacked
      <3>2. ledger'[t][id] = ledger[t][id] /\ CitedBy(t, id)' = CitedBy(t, id)
        BY <1>1, <1>2, <1>3, <1>4, <2>1, NextKeeps, CitedKept
      <3>3. QED
        BY <1>1, <1>2, <3>1, <3>2, BackedKept
    <2>2. CASE id \notin IdsOf(t)
      <3>1. PICK p \in Process :
              /\ job[p].table = t /\ job[p].owner = 0 /\ CitedBy(t, id)' = job[p].links
              /\ job[p].row \in RowsOf[t] /\ Rests(t, job[p].row, job[p].links)
              /\ ledger'[t][id] = [job[p].row EXCEPT !.at = Stamp(p)]
        BY <1>1, <1>2, <1>3, <1>5, <2>2, NewRowRests
      <3>2. Backed(t, job[p].row, job[p].links)
        BY <1>1, <3>1 DEF CitationsBacked
      <3>3. Rests(t, ledger'[t][id], job[p].links) /\ Backed(t, ledger'[t][id], job[p].links)
        BY <1>4, <3>1, <3>2, CheckedStamped
      <3>4. QED
        BY <1>1, <1>2, <3>1, <3>3, BackedKept
    <2>3. QED
      BY <2>1, <2>2
  <1>6. ASSUME NEW p \in Process, job'[p].table = t, job'[p].owner = 0
        PROVE  Backed(t, job[p].row, job[p].links)'
    <2>1. Rests(t, job'[p].row, job'[p].links) /\ Backed(t, job'[p].row, job'[p].links)
      BY <1>1, <1>2, <1>4, <1>6, JobOrigin DEF Checked, CitationsRest, CitationsBacked
    <2>2. QED
      BY <1>1, <1>2, <2>1, BackedKept
  <1>7. QED
    BY <1>5, <1>6

-----------------------------------------------------------------------------
(***************************************************************************)
(* What the invariant says of the statuses.                                *)
(***************************************************************************)
\* Newest is the one id that no other comes after.
LEMMA NewestIs ==
  ASSUME NEW ids \in SUBSET Nat, NEW id \in ids, \A other \in ids : other <= id
  PROVE  Newest(ids) = id
  <1>1. Newest(ids) \in ids /\ \A other \in ids : other <= Newest(ids)
    BY Zenon DEF Newest
  <1>2. id <= Newest(ids) /\ Newest(ids) <= id /\ id \in Nat /\ Newest(ids) \in Nat
    BY <1>1
  <1>3. QED
    BY <1>2

\* Any ids of a table have a newest.
LEMMA NewestIsThere ==
  ASSUME TypeOK, NEW t \in RowTable, NEW ids \in SUBSET IdsOf(t), ids # {}
  PROVE  Newest(ids) \in ids /\ \A other \in ids : other <= Newest(ids)
  <1> DEFINE n == Len(ledger[t])
             back == {m \in Nat : n - m \in ids}
             Less == OpToRel(<, Nat)
  <1>1. ids \subseteq 1..n /\ n \in Nat
    BY IdsAreCounted
  <1>2. PICK m \in back : \A k \in back : <<k, m>> \notin Less
    <2>1. \A id \in ids : n - id \in Nat /\ n - (n - id) = id
      BY <1>1
    <2>2. back \subseteq Nat /\ back # {}
      BY <2>1
    <2>3. IsWellFoundedOn(Less, Nat)
      BY NatLessThanWellFounded
    <2> HIDE DEF back, Less
    <2>4. QED
      BY <2>2, <2>3, WFMin
  <1>3. ASSUME NEW other \in ids
        PROVE  other <= n - m
    <2>1. n - other \in Nat /\ n - (n - other) = other /\ m \in Nat
      BY <1>1
    <2>2. ~(n - other < m)
      BY <1>2, <2>1 DEF OpToRel
    <2>3. QED
      BY <1>1, <2>1, <2>2
  <1>4. Newest(ids) = n - m
    BY <1>1, <1>3, NewestIs
  <1>5. QED
    BY <1>3, <1>4

\* A claim that has verdicts stands on one of them, and none of them is newer.
LEMMA LatestIsThere ==
  ASSUME TypeOK, NEW c, VerdictsOf(c, LATEST) # {}
  PROVE  /\ LatestVerdict(c) \in IdsOf("verdicts")
         /\ ledger.verdicts[LatestVerdict(c)].claim = c
         /\ \A v \in VerdictsOf(c, LATEST) : v <= LatestVerdict(c)
  <1>1. VerdictsOf(c, LATEST) \subseteq IdsOf("verdicts") /\ "verdicts" \in RowTable
    BY DEF VerdictsOf, RowTable
  <1>2. QED
    BY <1>1, NewestIsThere DEF LatestVerdict, VerdictsOf

\* The statuses that rest on a verdict.
LEMMA DecidedStatus ==
  ASSUME TypeOK, NEW c, Status(c) \in {"supported", "provisional", "kill-pending", "unclear"}
  PROVE  /\ Active("claims", c) /\ VerdictsOf(c, LATEST) # {}
         /\ ~VerdictStale(LatestVerdict(c), LATEST) /\ ~Overturned(LatestVerdict(c), LATEST)
         /\ Status(c) = VerdictMeans(LatestVerdict(c), LATEST)
  BY DEF Status, ClaimStatus, LatestVerdict, Active

\* A supported claim stands on a provisional verdict nobody's withdrawal has spoilt.
LEMMA SupportedStands ==
  ASSUME TypeOK, NEW c, Status(c) = "supported"
  PROVE  LET v == LatestVerdict(c) IN
         /\ v \in IdsOf("verdicts") /\ ledger.verdicts[v].claim = c
         /\ ledger.verdicts[v].result = "provisional" /\ ~VerdictStale(v, LATEST)
  <1>1. VerdictsOf(c, LATEST) # {} /\ ~VerdictStale(LatestVerdict(c), LATEST)
        /\ VerdictMeans(LatestVerdict(c), LATEST) = "supported"
    BY DecidedStatus
  <1>2. LatestVerdict(c) \in IdsOf("verdicts") /\ ledger.verdicts[LatestVerdict(c)].claim = c
    BY <1>1, LatestIsThere
  <1>3. ledger.verdicts[LatestVerdict(c)].result \in VERDICT_RESULTS
    BY <1>2, RowWithId DEF RowTable, RowsOf, Verdict
  <1>4. QED
    BY <1>1, <1>2, <1>3 DEF VerdictMeans, VERDICT_RESULTS

\* What is linked to a row is part of what it cites, and all of it once its writer is done.
LEMMA CitedIsLinked ==
  ASSUME LedgerInv, NEW t \in CitingTable, NEW id, NEW x
  PROVE  /\ <<id, x>> \in ledger[LinksFrom[t]] => x \in CitedBy(t, id)
         /\ Linked(t, id) /\ x \in CitedBy(t, id) => <<id, x>> \in ledger[LinksFrom[t]]
  BY CitedMembers DEF LedgerInv, Linked

\* The same for a verdict.
LEMMA VerdictCites ==
  ASSUME LedgerInv, NEW v \in IdsOf("verdicts")
  PROVE  /\ Rests("verdicts", ledger.verdicts[v], CitedBy("verdicts", v))
         /\ Cited(v) \subseteq CitedBy("verdicts", v)
         /\ Linked("verdicts", v) => Cited(v) = CitedBy("verdicts", v)
  <1>1. "verdicts" \in CitingTable /\ LinksFrom["verdicts"] = "verdict_quotes"
    BY CitingTables DEF LinksFrom
  <1>2. Rests("verdicts", ledger.verdicts[v], CitedBy("verdicts", v))
    BY <1>1 DEF LedgerInv, CitationsRest
  <1>3. CitedBy("verdicts", v) \subseteq IdsOf("quotes")
    BY <1>2 DEF Rests
  <1>4. Cited(v) \subseteq CitedBy("verdicts", v)
    BY <1>1, CitedIsLinked DEF Cited
  <1>5. Linked("verdicts", v) => CitedBy("verdicts", v) \subseteq Cited(v)
    BY <1>1, <1>3, CitedIsLinked DEF Cited
  <1>6. QED
    BY <1>2, <1>4, <1>5

\* The evidence under a supported claim stands.
LEMMA InvSupport == LedgerInv => SupportStands
  <1> SUFFICES ASSUME LedgerInv, NEW c \in IdsOf("claims"), Status(c) = "supported"
               PROVE  LET t == ledger.verdicts[LatestVerdict(c)].test
                          quotes == Cited(LatestVerdict(c))
                      IN  /\ t \in LiveTests(c, LATEST)
                          /\ \A q \in quotes :
                               Active("quotes", q) /\ ProjectOf(q) = ledger.claims[c].project
                          /\ \A q, r \in quotes :
                               q # r /\ ledger.quotes[q].source = ledger.quotes[r].source
                                 => ledger.quotes[q].text \cap ledger.quotes[r].text = {}
    BY DEF SupportStands
  <1> DEFINE v == LatestVerdict(c)
  <1>1. /\ v \in IdsOf("verdicts") /\ ledger.verdicts[v].claim = c
        /\ ledger.verdicts[v].result = "provisional" /\ ~VerdictStale(v, LATEST)
    BY SupportedStands DEF LedgerInv
  <1>2. /\ Rests("verdicts", ledger.verdicts[v], CitedBy("verdicts", v))
        /\ Cited(v) \subseteq CitedBy("verdicts", v)
    BY <1>1, VerdictCites
  <1> HIDE DEF v
  <1>3. ledger.verdicts[v].test \in LiveTests(c, LATEST)
    BY <1>1, <1>2 DEF Rests, LiveTests, UpTo, VerdictStale
  <1>4. \A q \in Cited(v) : Active("quotes", q) /\ ProjectOf(q) = ledger.claims[c].project
    BY <1>1, <1>2 DEF Rests, VerdictStale, Active
  <1>5. ASSUME NEW q \in Cited(v), NEW r \in Cited(v), q # r,
               ledger.quotes[q].source = ledger.quotes[r].source
        PROVE  ledger.quotes[q].text \cap ledger.quotes[r].text = {}
    <2>1. ~SamePassage(q, r) /\ r \in IdsOf("quotes")
      BY <1>2, <1>5 DEF Rests
    <2>2. ledger.quotes[r].text \subseteq SourceText(q)
      BY <1>5, <2>1 DEF LedgerInv, QuotesVerbatim, Verbatim, SourceText
    <2>3. QED
      BY <2>1, <2>2 DEF SamePassage
  <1>6. QED
    BY <1>3, <1>4, <1>5 DEF v

\* It was also earned, where no write was cut short.
LEMMA InvEarned == WholeInv => SupportIsEarned
  <1> SUFFICES ASSUME WholeInv PROVE NeedHasTwoVoices /\ ExperimentSupportIsMeasured
    BY InvSupport DEF WholeInv, SupportIsEarned
  <1>0. LedgerInv /\ TypeOK /\ CitationsBacked
    BY DEF WholeInv, LedgerInv
  <1>1. ASSUME NEW c, Status(c) = "supported", Linked("verdicts", LatestVerdict(c))
        PROVE  LET v == LatestVerdict(c) IN
               /\ ledger.verdicts[v].claim = c /\ ledger.verdicts[v].result = "provisional"
               /\ Backed("verdicts", ledger.verdicts[v], Cited(v))
    <2>1. /\ LatestVerdict(c) \in IdsOf("verdicts")
          /\ ledger.verdicts[LatestVerdict(c)].claim = c
          /\ ledger.verdicts[LatestVerdict(c)].result = "provisional"
      BY <1>0, <1>1, SupportedStands
    <2>2. Cited(LatestVerdict(c)) = CitedBy("verdicts", LatestVerdict(c))
      BY <1>0, <1>1, <2>1, VerdictCites
    <2>3. Backed("verdicts", ledger.verdicts[LatestVerdict(c)], Cited(LatestVerdict(c)))
      BY <1>0, <2>1, <2>2, CitingTables DEF CitationsBacked
    <2>4. QED
      BY <2>1, <2>3
  <1>2. NeedHasTwoVoices
    BY <1>1 DEF NeedHasTwoVoices, Backed
  <1>3. ExperimentSupportIsMeasured
    BY <1>1 DEF ExperimentSupportIsMeasured, Backed
  <1>4. QED
    BY <1>2, <1>3

\* Kills, ideas and findings rest on what they are said to rest on.
LEMMA InvCitations == WholeInv => CitationsHold
  <1> SUFFICES ASSUME WholeInv PROVE CitationsHold
    OBVIOUS
  <1>0. LedgerInv /\ CitationsBacked /\ CitationsRest /\ CitingTable = {"notes", "verdicts", "ideas"}
    BY CitingTables DEF WholeInv, LedgerInv
  <1>1. KillLookedInProject
    <2> SUFFICES ASSUME NEW v \in IdsOf("verdicts"), ledger.verdicts[v].result = "killed",
                        Cited(v) = {}, Linked("verdicts", v)
                 PROVE  /\ ledger.verdicts[v].test # 0
                        /\ ledger.tests[ledger.verdicts[v].test].claim = ledger.verdicts[v].claim
                        /\ HasLooked(ledger.claims[ledger.verdicts[v].claim].project)
      BY DEF KillLookedInProject
    <2>1. /\ Rests("verdicts", ledger.verdicts[v], CitedBy("verdicts", v))
          /\ CitedBy("verdicts", v) = {}
      BY <1>0, VerdictCites
    <2>2. Backed("verdicts", ledger.verdicts[v], {})
      BY <1>0, <2>1 DEF CitationsBacked
    <2>3. QED
      BY <2>1, <2>2 DEF Rests, Backed
  <1>2. IdeaRestsOnClaims
    <2> SUFFICES ASSUME NEW i \in IdsOf("ideas"), Linked("ideas", i)
                 PROVE  /\ ClaimsOf(i) # {}
                        /\ \A c \in ClaimsOf(i) :
                             ledger.claims[c].project = ledger.ideas[i].project
      BY DEF IdeaRestsOnClaims
    <2>1. /\ Rests("ideas", ledger.ideas[i], CitedBy("ideas", i))
          /\ Backed("ideas", ledger.ideas[i], CitedBy("ideas", i))
      BY <1>0 DEF CitationsRest, CitationsBacked
    <2>2. LinksFrom["ideas"] = "idea_claims"
      BY DEF LinksFrom
    <2>3. ClaimsOf(i) = CitedBy("ideas", i)
      <3>1. \A c : c \in CitedBy("ideas", i) <=> <<i, c>> \in ledger.idea_claims
        BY <1>0, <2>2, CitedIsLinked
      <3>2. QED
        BY <2>1, <3>1 DEF ClaimsOf, Rests
    <2>4. QED
      BY <2>1, <2>3 DEF Rests, Backed
  <1>3. FindingCitesQuote
    <2> SUFFICES ASSUME NEW n \in IdsOf("notes"), ledger.notes[n].kind = "finding",
                        Linked("notes", n)
                 PROVE  \E q \in IdsOf("quotes") : /\ <<n, q>> \in ledger.note_quotes
                                                   /\ ProjectOf(q) = ledger.notes[n].project
      BY DEF FindingCitesQuote
    <2>1. /\ Rests("notes", ledger.notes[n], CitedBy("notes", n))
          /\ Backed("notes", ledger.notes[n], CitedBy("notes", n))
      BY <1>0 DEF CitationsRest, CitationsBacked
    <2>2. LinksFrom["notes"] = "note_quotes"
      BY DEF LinksFrom
    <2>3. PICK q \in CitedBy("notes", n) : TRUE
      BY <2>1 DEF Backed
    <2>4. <<n, q>> \in ledger.note_quotes
      BY <1>0, <2>2, <2>3, CitedIsLinked
    <2>5. QED
      BY <2>1, <2>3, <2>4 DEF Rests
  <1>4. QED
    BY <1>1, <1>2, <1>3 DEF CitationsHold

\* Nobody can withdraw an entry that another process withdrew in the meantime.
LEMMA NextRetractedOnce ==
  ASSUME LedgerInv, RetractedOnce, [Next]_vars
  PROVE  RetractedOnce'
  <1> USE DEF LedgerInv
  <1> DEFINE Same(x, y) == /\ ledger'.retractions[x].entity = ledger'.retractions[y].entity
                           /\ ledger'.retractions[x].target = ledger'.retractions[y].target
  <1>1. \A x \in IdsOf("retractions") :
          x \in IdsOf("retractions")' /\ ledger'.retractions[x] = ledger.retractions[x]
    BY NextKeeps DEF RowTable
  <1>2. ASSUME NEW x \in IdsOf("retractions")', x \notin IdsOf("retractions"),
               NEW y \in IdsOf("retractions")', x # y
        PROVE  ~Same(x, y)
    <2>1. PICK p \in Process :
            /\ RowIn(p) /\ job[p].table = "retractions"
            /\ x = Len(ledger["retractions"]) + 1
            /\ ledger'["retractions"][x] = [job[p].row EXCEPT !.at = Stamp(p)]
      BY <1>2, RowAdded DEF RowTable
    <2>2. y \in IdsOf("retractions")
      BY <1>2, <2>1, RowAdded DEF RowTable
    <2>3. ~Retracted(ledger'.retractions[x].entity, ledger'.retractions[x].target, LATEST)
      BY <2>1 DEF RowIn, Refused, Active
    <2>4. QED
      BY <1>1, <2>2, <2>3 DEF Retracted, UpTo
  <1>3. QED
    BY <1>1, <1>2 DEF RetractedOnce

\* Everyone who signs verdicts has somebody else to review them.
SomebodyReviews ==
  \A author \in Authors : \E r \in Reviewers : SpeakerKey[r] # SpeakerKey[author]

\* Then what `review' offers can be reviewed.
LEMMA InvReviewable == LedgerInv /\ SomebodyReviews => QueueIsReviewable
  <1> SUFFICES ASSUME LedgerInv, SomebodyReviews, NEW project \in IdsOf("projects"),
                      NEW v \in ToReview(project)
               PROVE  \E reviewer \in Reviewers : ReviewHolds(v, reviewer)
    BY DEF QueueIsReviewable
  <1> DEFINE c == ledger.verdicts[v].claim
  <1>1. /\ v \in IdsOf("verdicts") /\ v = LatestVerdict(c)
        /\ Status(c) \in {"provisional", "kill-pending", "unclear"}
    BY DEF ToReview, Status, LatestVerdict
  <1>2. Active("claims", c) /\ ~VerdictStale(v, LATEST) /\ ~Overturned(v, LATEST)
    BY <1>1, DecidedStatus DEF LedgerInv
  <1>3. ledger.verdicts[v].author \in Authors
    BY <1>1, VerdictCites DEF Rests
  <1>4. QED
    BY <1>1, <1>2, <1>3 DEF SomebodyReviews, ReviewHolds, LatestVerdict

\* A settled claim stands on a reviewed verdict nobody overturned, and every review
\* is independent.
LEMMA InvSettled == LedgerInv => SettledByIndependentReview
  <1> SUFFICES ASSUME LedgerInv, NEW c \in IdsOf("claims"),
                      Status(c) \in {"supported", "killed"}
               PROVE  /\ ~Overturned(LatestVerdict(c), LATEST)
                      /\ \E r \in IdsOf("reviews") :
                           /\ ledger.reviews[r].verdict = LatestVerdict(c)
                           /\ ledger.reviews[r].result = "upheld"
                           /\ SpeakerKey[ledger.reviews[r].reviewer]
                                # SpeakerKey[ledger.verdicts[LatestVerdict(c)].author]
    BY DEF SettledByIndependentReview
  <1> DEFINE v == LatestVerdict(c)
  <1>1. ~Overturned(v, LATEST) /\ VerdictMeans(v, LATEST) \in {"supported", "killed"}
    BY DEF Status, ClaimStatus, LatestVerdict
  <1>2. PICK r \in ReviewsOf(v, LATEST) : TRUE
    BY <1>1 DEF VerdictMeans
  <1>3. r \in IdsOf("reviews") /\ ledger.reviews[r].verdict = v
    BY <1>2 DEF ReviewsOf
  <1>4. ledger.reviews[r] \in Review
    BY <1>3, RowWithId DEF LedgerInv, RowTable, RowsOf
  <1>5. ledger.reviews[r].result = "upheld"
    BY <1>1, <1>2, <1>4 DEF Overturned, Review, REVIEW_RESULTS
  <1>6. SpeakerKey[ledger.reviews[r].reviewer] # SpeakerKey[ledger.verdicts[v].author]
    BY <1>3 DEF LedgerInv, ReviewsIndependent, Independent
  <1>7. QED
    BY <1>1, <1>3, <1>5, <1>6

-----------------------------------------------------------------------------
\* The tables of the ledger are well formed in every reachable state, whatever
\* interleaving of checks and inserts, and wherever writes are cut short.
THEOREM LedgerTypeCorrect == Spec => []TypeOK
  <1>1. Spec => []LedgerInv
    BY InitInv, NextInv, PTL DEF Spec
  <1>2. LedgerInv => TypeOK
    BY DEF LedgerInv
  <1>3. QED
    BY <1>1, <1>2, PTL

\* Nothing is ever supported or killed before somebody other than its author upheld
\* the verdict it stands on.
THEOREM OnlyReviewSettles == Spec => []SettledByIndependentReview
  <1>1. Spec => []LedgerInv
    BY InitInv, NextInv, PTL DEF Spec
  <1>2. QED
    BY <1>1, InvSettled, PTL

\* The evidence under a supported claim is live, of its project and counted once, however
\* many processes write and wherever their writes are cut short.
THEOREM EvidenceStands == Spec => []SupportStands
  <1>1. Spec => []LedgerInv
    BY InitInv, NextInv, PTL DEF Spec
  <1>2. QED
    BY <1>1, InvSupport, PTL

\* As long as no process dies between a verdict and its quotes, support is earned: two
\* people behind a need, a run of the experiment behind what it is said to show.
THEOREM SupportEarned == WholeSpec => []SupportIsEarned
  <1>1. WholeSpec => []WholeInv
    BY InitWhole, NextWhole, PTL DEF WholeSpec
  <1>2. QED
    BY <1>1, InvEarned, PTL

\* Under the same assumption kills, ideas and findings rest on what they cite.
THEOREM NothingUncited == WholeSpec => []CitationsHold
  <1>1. WholeSpec => []WholeInv
    BY InitWhole, NextWhole, PTL DEF WholeSpec
  <1>2. QED
    BY <1>1, InvCitations, PTL

\* Whatever processes do at once, an entry is withdrawn once, and every verdict in the
\* review queue is one that somebody can review.
THEOREM RacesSettle ==
  ASSUME SomebodyReviews
  PROVE  Spec => []RacesSettleOnce
  <1>1. Init => LedgerInv /\ RetractedOnce
    BY InitInv DEF Init, EmptyLedger, RetractedOnce, IdsOf, RowTable
  <1>2. LedgerInv /\ RetractedOnce /\ [Next]_vars => (LedgerInv /\ RetractedOnce)'
    BY NextInv, NextRetractedOnce
  <1>3. LedgerInv /\ RetractedOnce => RacesSettleOnce
    BY InvReviewable DEF RacesSettleOnce
  <1>4. QED
    BY <1>1, <1>2, <1>3, PTL DEF Spec

\* A row, once written, stays in its place and never changes.
RowsKept ==
  \A t \in RowTable : \A id \in IdsOf(t) :
    id \in IdsOf(t)' /\ ledger'[t][id] = ledger[t][id]

\* The ledger is append-only.
THEOREM LedgerAppendOnly == Spec => [][RowsKept]_vars
  <1>1. Spec => []LedgerInv
    BY InitInv, NextInv, PTL DEF Spec
  <1>2. LedgerInv /\ [Next]_vars => [RowsKept]_vars
    BY NextKeeps DEF LedgerInv, RowsKept
  <1>3. QED
    BY <1>1, <1>2, PTL DEF Spec

-----------------------------------------------------------------------------
(* The ledger moves every claim as ClaimLifecycle promises: one lemma says  *)
(* which statuses a step may give a claim, then each kind of row is looked  *)
(* at in turn.                                                              *)

\* The statuses one claim goes through, and what spoiling does to any number of them.
Moves(old, new) ==
  \/ old = new
  \/ old = "absent" /\ new = "untested"
  \/ old \in {"untested", "testing"} /\ new \in {"untested", "testing"}
  \/ /\ old \in Lifecycle!Live /\ new \in Lifecycle!Pending
     /\ new = "provisional" => old # "untested"
  \/ old \in Lifecycle!Live /\ new \in {"stale", "retracted"}
  \/ old = "provisional" /\ new = "supported"
  \/ old = "kill-pending" /\ new = "killed"
  \/ old \in Lifecycle!Pending \cup Lifecycle!Settled /\ new = "overturned"

Spoils(old, new) == old = new \/ (old \in Lifecycle!Decided /\ new = "stale")

\* A step that moves one claim is one of the lifecycle's.
LEMMA OneMoves ==
  ASSUME NEW c, Moves(StatusSeen(c), StatusSeen(c)'),
         \A d \in Watched : d # c => StatusSeen(d)' = StatusSeen(d)
  PROVE  [Lifecycle!Next]_Seen
  <1> DEFINE old == Seen[c]
             new == Seen'[c]
  <1>1. CASE c \notin Watched \/ StatusSeen(c)' = StatusSeen(c)
    BY <1>1 DEF Seen
  <1>2. CASE c \in Watched /\ StatusSeen(c)' # StatusSeen(c)
    <2>1. old = StatusSeen(c) /\ new = StatusSeen(c)' /\ old # new /\ Moves(old, new)
      BY <1>2 DEF Seen
    <2>2. Lifecycle!Become(c, new)
      BY <1>2 DEF Seen, Lifecycle!Become
    <2> HIDE DEF old, new
    <2>3. CASE old = "absent" /\ new = "untested"
      BY <1>2, <2>2, <2>3 DEF Lifecycle!Next, Lifecycle!State, old
    <2>4. CASE old = "untested" /\ new = "testing"
      BY <1>2, <2>2, <2>4 DEF Lifecycle!Next, Lifecycle!Predict, old
    <2>5. CASE old = "testing" /\ new = "untested"
      BY <1>2, <2>2, <2>5 DEF Lifecycle!Next, Lifecycle!WithdrawTest, old
    <2>6. CASE /\ old \in Lifecycle!Live /\ new \in Lifecycle!Pending
               /\ new = "provisional" => old # "untested"
      BY <1>2, <2>2, <2>6 DEF Lifecycle!Next, Lifecycle!Decide, old
    <2>7. CASE old \in {"untested", "testing"} /\ new = "stale"
      BY <1>2, <2>2, <2>7 DEF Lifecycle!Next, Lifecycle!DecideTooLate, old
    <2>8. CASE old \in Lifecycle!Decided /\ new = "stale"
      <3>1. Seen' = [d \in Watched |-> IF d \in {c} THEN "stale" ELSE Seen[d]]
        BY <2>2, <2>8 DEF Lifecycle!Become, Seen
      <3>2. Lifecycle!Spoil({c})
        BY <2>8, <3>1 DEF Lifecycle!Spoil, old
      <3>3. QED
        BY <1>2, <3>2 DEF Lifecycle!Next
    <2>9. CASE old \in Lifecycle!Live /\ new = "retracted"
      BY <1>2, <2>2, <2>9 DEF Lifecycle!Next, Lifecycle!RetractClaim, old
    <2>10. CASE (old = "provisional" /\ new = "supported") \/ (old = "kill-pending" /\ new = "killed")
      BY <1>2, <2>2, <2>10 DEF Lifecycle!Next, Lifecycle!Uphold, old
    <2>11. CASE old \in Lifecycle!Pending \cup Lifecycle!Settled /\ new = "overturned"
      BY <1>2, <2>2, <2>11 DEF Lifecycle!Next, Lifecycle!Overturn, old
    <2>12. old \in Lifecycle!Live => old \in Lifecycle!Decided \/ old \in {"untested", "testing"}
      BY DEF Lifecycle!Live
    <2>13. QED
      BY <2>1, <2>3, <2>4, <2>5, <2>6, <2>7, <2>8, <2>9, <2>10, <2>11, <2>12 DEF Moves
  <1>3. QED
    BY <1>1, <1>2

\* So is a step that spoils any number of decided claims.
LEMMA ManySpoilt ==
  ASSUME \A d \in Watched : Spoils(StatusSeen(d), StatusSeen(d)')
  PROVE  [Lifecycle!Next]_Seen
  <1> DEFINE spoilt == {d \in Watched : StatusSeen(d)' # StatusSeen(d)}
  <1>1. CASE spoilt = {}
    BY <1>1 DEF Seen
  <1>2. CASE spoilt # {}
    <2>1. \A d \in spoilt : Seen[d] \in Lifecycle!Decided
      BY DEF Spoils, Seen
    <2>2. Seen' = [d \in Watched |-> IF d \in spoilt THEN "stale" ELSE Seen[d]]
      BY DEF Spoils, Seen
    <2>3. spoilt \in SUBSET Watched
      OBVIOUS
    <2> HIDE DEF spoilt
    <2>4. Lifecycle!Spoil(spoilt)
      BY <1>2, <2>1, <2>2 DEF Lifecycle!Spoil
    <2>5. QED
      BY <2>3, <2>4 DEF Lifecycle!Next
  <1>3. QED
    BY <1>1, <1>2

-----------------------------------------------------------------------------
(***************************************************************************)
(* What a status is read from.                                             *)
(***************************************************************************)
\* What is still written of a claim when its reads are those of the step before.
LEMMA StatusKept ==
  ASSUME NEW c, NEW v, v = LatestVerdict(c),
         VerdictsOf(c, LATEST)' = VerdictsOf(c, LATEST),
         Retracted("claims", c, LATEST)' <=> Retracted("claims", c, LATEST),
         VerdictsOf(c, LATEST) = {} => (LiveTests(c, LATEST)' = {} <=> LiveTests(c, LATEST) = {}),
         VerdictsOf(c, LATEST) # {} =>
           /\ ledger'.verdicts[v].result = ledger.verdicts[v].result
           /\ VerdictStale(v, LATEST) => VerdictStale(v, LATEST)'
           /\ Overturned(v, LATEST)' <=> Overturned(v, LATEST)
           /\ ReviewsOf(v, LATEST)' = {} <=> ReviewsOf(v, LATEST) = {},
         VerdictsOf(c, LATEST) # {} => ledger.verdicts[v].result \in VERDICT_RESULTS
  PROVE  /\ Spoils(Status(c), Status(c)')
         /\ (VerdictsOf(c, LATEST) # {} => (VerdictStale(v, LATEST)' <=> VerdictStale(v, LATEST)))
              => Status(c)' = Status(c)
  <1>1. LatestVerdict(c)' = v
    BY DEF LatestVerdict
  <1>2. VerdictsOf(c, LATEST) # {} => VerdictMeans(v, LATEST)' = VerdictMeans(v, LATEST)
    BY DEF VerdictMeans
  <1>3. VerdictsOf(c, LATEST) # {} => VerdictMeans(v, LATEST) \in Lifecycle!Pending \cup Lifecycle!Settled
    BY DEF VerdictMeans, VERDICT_RESULTS, Lifecycle!Pending, Lifecycle!Settled
  <1>4. QED
    BY <1>1, <1>2, <1>3
       DEF Status, ClaimStatus, LatestVerdict, Spoils, Lifecycle!Decided, Lifecycle!Pending, Lifecycle!Settled

\* Which tables a read looks at.
LEMMA ReadsSame ==
  /\ ledger'["verdicts"] = ledger["verdicts"] =>
       \A c : VerdictsOf(c, LATEST)' = VerdictsOf(c, LATEST)
  /\ ledger'["retractions"] = ledger["retractions"] =>
       \A entity, id : Retracted(entity, id, LATEST)' <=> Retracted(entity, id, LATEST)
  /\ ledger'["reviews"] = ledger["reviews"] =>
       \A v : /\ ReviewsOf(v, LATEST)' = ReviewsOf(v, LATEST)
              /\ Overturned(v, LATEST)' <=> Overturned(v, LATEST)
  /\ ledger'["tests"] = ledger["tests"] /\ ledger'["retractions"] = ledger["retractions"] =>
       \A c : LiveTests(c, LATEST)' = LiveTests(c, LATEST)
  <1>1. ASSUME ledger'["verdicts"] = ledger["verdicts"], NEW c
        PROVE  VerdictsOf(c, LATEST)' = VerdictsOf(c, LATEST)
    BY <1>1 DEF VerdictsOf, IdsOf, LATEST
  <1>2. ASSUME ledger'["retractions"] = ledger["retractions"], NEW entity, NEW id
        PROVE  Retracted(entity, id, LATEST)' <=> Retracted(entity, id, LATEST)
    BY <1>2 DEF Retracted, IdsOf, LATEST
  <1>3. ASSUME ledger'["reviews"] = ledger["reviews"], NEW v
        PROVE  /\ ReviewsOf(v, LATEST)' = ReviewsOf(v, LATEST)
               /\ Overturned(v, LATEST)' <=> Overturned(v, LATEST)
    BY <1>3 DEF ReviewsOf, Overturned, IdsOf, LATEST
  <1>4. ASSUME ledger'["tests"] = ledger["tests"], ledger'["retractions"] = ledger["retractions"],
               NEW c
        PROVE  LiveTests(c, LATEST)' = LiveTests(c, LATEST)
    BY <1>2, <1>4 DEF LiveTests, IdsOf, LATEST
  <1>5. QED
    BY <1>1, <1>2, <1>3, <1>4

\* The quotes linked to a verdict are all of the ledger, so a new quote changes nothing
\* of what a verdict in the ledger cites.
LEMMA CitedSame ==
  ASSUME LedgerInv, [Next]_vars, NEW v,
         \A q : <<v, q>> \in ledger'.verdict_quotes <=> <<v, q>> \in ledger.verdict_quotes
  PROVE  Cited(v)' = Cited(v)
  <1>1. "verdicts" \in CitingTable /\ LinksFrom["verdicts"] = "verdict_quotes"
    BY CitingTables DEF LinksFrom
  <1>2. ASSUME NEW q, <<v, q>> \in ledger.verdict_quotes
        PROVE  q \in IdsOf("quotes")
    <2>1. v \in IdsOf("verdicts")
      BY <1>1, <1>2 DEF LedgerInv, CitationsRest
    <2>2. q \in CitedBy("verdicts", v)
      BY <1>1, <1>2, CitedIsLinked
    <2>3. QED
      BY <2>1, <2>2, VerdictCites DEF Rests
  <1>3. \A q \in IdsOf("quotes") : q \in IdsOf("quotes")'
    BY NextKeeps DEF LedgerInv, RowTable
  <1>4. QED
    BY <1>2, <1>3 DEF Cited

\* A verdict's own row decides with the retractions whether it is stale.
LEMMA StaleSame ==
  ASSUME LedgerInv, [Next]_vars, NEW v \in IdsOf("verdicts"),
         Cited(v)' = Cited(v),
         ledger.verdicts[v].test # 0 =>
           (Retracted("tests", ledger.verdicts[v].test, LATEST)'
              <=> Retracted("tests", ledger.verdicts[v].test, LATEST)),
         \A q \in Cited(v) : Retracted("quotes", q, LATEST)' <=> Retracted("quotes", q, LATEST)
  PROVE  VerdictStale(v, LATEST)' <=> VerdictStale(v, LATEST)
  <1>1. ledger'.verdicts[v] = ledger.verdicts[v]
    BY NextKeeps DEF LedgerInv, RowTable
  <1>2. QED
    BY <1>1 DEF VerdictStale, LATEST

\* Withdrawals and links only ever spoil.
LEMMA StaleStays ==
  ASSUME LedgerInv, [Next]_vars, NEW v \in IdsOf("verdicts"), VerdictStale(v, LATEST)
  PROVE  VerdictStale(v, LATEST)'
  <1>1. /\ ledger'.verdicts[v] = ledger.verdicts[v]
        /\ \A q \in IdsOf("quotes") : q \in IdsOf("quotes")'
        /\ \A x \in IdsOf("retractions") :
             x \in IdsOf("retractions")' /\ ledger'.retractions[x] = ledger.retractions[x]
    BY NextKeeps DEF LedgerInv, RowTable
  <1>2. \A entity, id : Retracted(entity, id, LATEST) => Retracted(entity, id, LATEST)'
    BY <1>1 DEF Retracted, LATEST
  <1>3. ledger.verdict_quotes \subseteq ledger'.verdict_quotes
    BY StepKinds, JobType, LinkTables DEF LedgerInv, WholeStep, HandsOver, Drops, RowIn, LinkIn, ResultIn, AddsTo,
       RowTable, LinkTable
  <1>4. \A q \in Cited(v) : q \in Cited(v)'
    BY <1>1, <1>3 DEF Cited
  <1>5. QED
    BY <1>1, <1>2, <1>4 DEF VerdictStale, LATEST

\* A claim none of whose reads change keeps its status; withdrawals and links spoil it.
LEMMA QuietClaim ==
  ASSUME LedgerInv, [Next]_vars, NEW c, c \in IdsOf("claims")' <=> c \in IdsOf("claims"),
         NEW v, v = LatestVerdict(c),
         VerdictsOf(c, LATEST)' = VerdictsOf(c, LATEST),
         Retracted("claims", c, LATEST)' <=> Retracted("claims", c, LATEST),
         VerdictsOf(c, LATEST) = {} => (LiveTests(c, LATEST)' = {} <=> LiveTests(c, LATEST) = {}),
         v \in VerdictsOf(c, LATEST) =>
           /\ Overturned(v, LATEST)' <=> Overturned(v, LATEST)
           /\ ReviewsOf(v, LATEST)' = {} <=> ReviewsOf(v, LATEST) = {}
  PROVE  /\ Spoils(StatusSeen(c), StatusSeen(c)')
         /\ (v \in VerdictsOf(c, LATEST) => (VerdictStale(v, LATEST)' <=> VerdictStale(v, LATEST)))
              => StatusSeen(c)' = StatusSeen(c)
  <1>1. CASE c \notin IdsOf("claims")
    BY <1>1 DEF StatusSeen, Spoils
  <1>2. CASE c \in IdsOf("claims")
    <2>1. VerdictsOf(c, LATEST) # {} =>
            /\ v \in IdsOf("verdicts") /\ v \in VerdictsOf(c, LATEST)
            /\ ledger'.verdicts[v] = ledger.verdicts[v]
            /\ ledger.verdicts[v].result \in VERDICT_RESULTS
            /\ VerdictStale(v, LATEST) => VerdictStale(v, LATEST)'
      <3> SUFFICES ASSUME VerdictsOf(c, LATEST) # {}
                   PROVE  /\ v \in IdsOf("verdicts") /\ v \in VerdictsOf(c, LATEST)
                          /\ ledger'.verdicts[v] = ledger.verdicts[v]
                          /\ ledger.verdicts[v].result \in VERDICT_RESULTS
                          /\ VerdictStale(v, LATEST) => VerdictStale(v, LATEST)'
        OBVIOUS
      <3>1. v \in IdsOf("verdicts") /\ ledger.verdicts[v].claim = c
        BY LatestIsThere DEF LedgerInv
      <3>2. ledger'.verdicts[v] = ledger.verdicts[v] /\ ledger.verdicts[v] \in Verdict
        BY <3>1, NextKeeps, RowWithId DEF LedgerInv, RowTable, RowsOf
      <3>3. QED
        BY <3>1, <3>2, StaleStays DEF VerdictsOf, UpTo, Verdict
    <2>2. /\ Spoils(Status(c), Status(c)')
          /\ (VerdictsOf(c, LATEST) # {} => (VerdictStale(v, LATEST)' <=> VerdictStale(v, LATEST)))
               => Status(c)' = Status(c)
      BY <2>1, StatusKept
    <2>3. QED
      BY <1>2, <2>1, <2>2 DEF StatusSeen
  <1>3. QED
    BY <1>1, <1>2

\* A claim in the ledger has one of the statuses of the lifecycle.
LEMMA StatusRange ==
  ASSUME LedgerInv, NEW c \in IdsOf("claims")
  PROVE  /\ StatusSeen(c) \in Lifecycle!Live \cup {"retracted"}
         /\ StatusSeen(c) = Status(c)
         /\ StatusSeen(c) = "retracted" <=> Retracted("claims", c, LATEST)
         /\ StatusSeen(c) = "untested" => VerdictsOf(c, LATEST) = {} /\ LiveTests(c, LATEST) = {}
  <1>1. VerdictsOf(c, LATEST) # {} =>
          VerdictMeans(LatestVerdict(c), LATEST) \in Lifecycle!Pending \cup Lifecycle!Settled
    <2>1. VerdictsOf(c, LATEST) # {} => ledger.verdicts[LatestVerdict(c)].result \in VERDICT_RESULTS
      BY LatestIsThere, RowWithId DEF LedgerInv, RowTable, RowsOf, Verdict
    <2>2. QED
      BY <2>1 DEF VerdictMeans, VERDICT_RESULTS, Lifecycle!Pending, Lifecycle!Settled
  <1>2. StatusSeen(c) = Status(c)
    BY DEF StatusSeen
  <1>3. QED
    BY <1>1, <1>2 DEF Status, ClaimStatus, LatestVerdict, Lifecycle!Live, Lifecycle!Decided,
       Lifecycle!Pending, Lifecycle!Settled

-----------------------------------------------------------------------------
(***************************************************************************)
(* What each kind of row does to the statuses.                             *)
(***************************************************************************)
\* The tables statuses are read from.
ReadTable == {"claims", "tests", "verdicts", "reviews", "retractions"}

\* A row goes into one table and leaves the others and the links alone.
LEMMA RowElsewhere ==
  ASSUME LedgerInv, NEW p \in Process, RowIn(p), NEW u \in RowTable \cup LinkTable,
         u # job[p].table
  PROVE  ledger'[u] = ledger[u]
  BY DEF RowIn, AddsTo

\* It gets the next id.
LEMMA RowAppended ==
  ASSUME LedgerInv, NEW p \in Process, RowIn(p), NEW t \in RowTable, job[p].table = t
  PROVE  LET new == Len(ledger[t]) + 1 IN
         /\ job[p].row \in RowsOf[t] /\ job[p].owner = 0
         /\ new \notin IdsOf(t) /\ new \in Nat
         /\ \A id : id \in IdsOf(t)' <=> id \in IdsOf(t) \/ id = new
         /\ \A id \in IdsOf(t) : id < new /\ ledger'[t][id] = ledger[t][id]
         /\ ledger'[t][new] = [job[p].row EXCEPT !.at = Stamp(p)]
         /\ ~Refused(t, [job[p].row EXCEPT !.at = Stamp(p)])
  <1>1. job[p].row \in RowsOf[t] /\ job[p].owner = 0
    BY JobType DEF LedgerInv, RowIn
  <1>2. ledger[t] \in Seq(RowsOf[t])
    BY <1>1 DEF LedgerInv, TypeOK
  <1>3. ledger'[t] = Append(ledger[t], [job[p].row EXCEPT !.at = Stamp(p)])
        /\ ~Refused(t, [job[p].row EXCEPT !.at = Stamp(p)])
    BY DEF RowIn, AddsTo
  <1>4. IdsOf(t) = 1..Len(ledger[t]) /\ Len(ledger[t]) \in Nat
    BY <1>2 DEF IdsOf
  <1>5. QED
    BY <1>1, <1>2, <1>3, <1>4 DEF IdsOf

\* What is true of every step that leaves those tables and verdict_quotes alone.
LEMMA NothingRead ==
  ASSUME LedgerInv, [Next]_vars, \A t \in ReadTable : ledger'[t] = ledger[t],
         ledger'["verdict_quotes"] = ledger["verdict_quotes"], NEW c
  PROVE  StatusSeen(c)' = StatusSeen(c)
  <1> DEFINE v == LatestVerdict(c)
  <1>1. /\ ledger'["verdicts"] = ledger["verdicts"] /\ ledger'["reviews"] = ledger["reviews"]
        /\ ledger'["tests"] = ledger["tests"] /\ ledger'["claims"] = ledger["claims"]
        /\ ledger'["retractions"] = ledger["retractions"]
    BY DEF ReadTable
  <1>2. c \in IdsOf("claims")' <=> c \in IdsOf("claims")
    BY <1>1 DEF IdsOf
  <1>3. PICK w : w = v
    OBVIOUS
  <1>4. w \in VerdictsOf(c, LATEST) => (VerdictStale(w, LATEST)' <=> VerdictStale(w, LATEST))
    BY <1>1, ReadsSame, CitedSame, StaleSame DEF VerdictsOf
  <1>5. QED
    BY <1>1, <1>2, <1>3, <1>4, ReadsSame, QuietClaim

\* A claim starts out untested.
LEMMA ClaimWritten ==
  ASSUME LedgerInv, [Next]_vars, NEW p \in Process, RowIn(p), job[p].table = "claims"
  PROVE  [Lifecycle!Next]_Seen
  <1>0. PICK c0 : c0 = Len(ledger["claims"]) + 1
    OBVIOUS
  <1>1. /\ ledger'["verdicts"] = ledger["verdicts"] /\ ledger'["reviews"] = ledger["reviews"]
        /\ ledger'["tests"] = ledger["tests"] /\ ledger'["retractions"] = ledger["retractions"]
        /\ ledger'["verdict_quotes"] = ledger["verdict_quotes"]
    BY RowElsewhere DEF RowTable, LinkTable
  <1>2. /\ c0 \notin IdsOf("claims") /\ c0 \in IdsOf("claims")'
        /\ \A d : d # c0 => (d \in IdsOf("claims")' <=> d \in IdsOf("claims"))
    <2>1. PICK row : ledger'["claims"] = Append(ledger["claims"], row)
      BY DEF RowIn, AddsTo
    <2>2. ledger["claims"] \in Seq(RowsOf["claims"])
      BY DEF LedgerInv, TypeOK, RowTable
    <2>3. QED
      BY <1>0, <2>1, <2>2 DEF IdsOf
  <1>3. ASSUME NEW d \in Watched, d # c0
        PROVE  StatusSeen(d)' = StatusSeen(d)
    <2>1. PICK w : w = LatestVerdict(d)
      OBVIOUS
    <2>2. w \in VerdictsOf(d, LATEST) => (VerdictStale(w, LATEST)' <=> VerdictStale(w, LATEST))
      BY <1>1, ReadsSame, CitedSame, StaleSame DEF VerdictsOf
    <2>3. QED
      BY <1>1, <1>2, <1>3, <2>1, <2>2, ReadsSame, QuietClaim
  <1>4. StatusSeen(c0) = "absent" /\ StatusSeen(c0)' = "untested"
    <2>1. VerdictsOf(c0, LATEST) = {}
      BY <1>2, VerdictCites DEF VerdictsOf, Rests
    <2>2. LiveTests(c0, LATEST) = {}
      BY <1>2 DEF LiveTests, LedgerInv, TestsRefer
    <2>3. ~Retracted("claims", c0, LATEST)
      BY <1>2 DEF Retracted, LedgerInv, RetractionsRefer
    <2>4. /\ VerdictsOf(c0, LATEST)' = {} /\ LiveTests(c0, LATEST)' = {}
          /\ ~Retracted("claims", c0, LATEST)'
      BY <1>1, <2>1, <2>2, <2>3, ReadsSame
    <2>5. QED
      BY <1>2, <2>4 DEF StatusSeen, Status, ClaimStatus
  <1>5. QED
    BY <1>3, <1>4, OneMoves DEF Moves
\* The first test of a claim puts it to the test.
LEMMA TestWritten ==
  ASSUME LedgerInv, [Next]_vars, NEW p \in Process, RowIn(p), job[p].table = "tests"
  PROVE  [Lifecycle!Next]_Seen
  <1>0. PICK t0, c0 : t0 = Len(ledger["tests"]) + 1 /\ c0 = job[p].row.claim
    OBVIOUS
  <1>1. /\ ledger'["verdicts"] = ledger["verdicts"] /\ ledger'["reviews"] = ledger["reviews"]
        /\ ledger'["claims"] = ledger["claims"] /\ ledger'["retractions"] = ledger["retractions"]
        /\ ledger'["verdict_quotes"] = ledger["verdict_quotes"]
    BY RowElsewhere DEF RowTable, LinkTable
  <1>2. /\ \A t : t \in IdsOf("tests")' <=> t \in IdsOf("tests") \/ t = t0
        /\ \A t \in IdsOf("tests") : ledger'["tests"][t] = ledger["tests"][t]
        /\ ledger'["tests"][t0].claim = c0
    <2>1. /\ job[p].row \in RowsOf["tests"]
          /\ \A t : t \in IdsOf("tests")' <=> t \in IdsOf("tests") \/ t = t0
          /\ \A t \in IdsOf("tests") : ledger'["tests"][t] = ledger["tests"][t]
          /\ ledger'["tests"][t0] = [job[p].row EXCEPT !.at = Stamp(p)]
      BY <1>0, RowAppended DEF RowTable
    <2>2. QED
      BY <1>0, <2>1 DEF RowsOf, Test
  <1>3. c0 \in IdsOf("claims") /\ \A c : c \in IdsOf("claims")' <=> c \in IdsOf("claims")
    BY <1>0, <1>1 DEF LedgerInv, TestsRefer, IdsOf
  <1>4. ASSUME NEW d, d # c0
        PROVE  LiveTests(d, LATEST)' = LiveTests(d, LATEST)
    BY <1>1, <1>2, <1>4, ReadsSame DEF LiveTests, UpTo, LATEST
  <1>5. ASSUME NEW d, d # c0 \/ VerdictsOf(d, LATEST) # {}
        PROVE  StatusSeen(d)' = StatusSeen(d)
    <2>1. PICK w : w = LatestVerdict(d)
      OBVIOUS
    <2>2. w \in VerdictsOf(d, LATEST) => (VerdictStale(w, LATEST)' <=> VerdictStale(w, LATEST))
      BY <1>1, ReadsSame, CitedSame, StaleSame DEF VerdictsOf
    <2>3. QED
      BY <1>1, <1>3, <1>4, <1>5, <2>1, <2>2, ReadsSame, QuietClaim
  <1>6. ASSUME VerdictsOf(c0, LATEST) = {}
        PROVE  Moves(StatusSeen(c0), StatusSeen(c0)')
    <2>1. VerdictsOf(c0, LATEST)' = {}
          /\ (Retracted("claims", c0, LATEST)' <=> Retracted("claims", c0, LATEST))
      BY <1>1, <1>6, ReadsSame
    <2>2. QED
      BY <1>3, <1>6, <2>1 DEF StatusSeen, Status, ClaimStatus, Moves
  <1>7. QED
    BY <1>5, <1>6, OneMoves DEF Moves

\* A verdict decides its claim until somebody reviews it, unless what it used is gone.
LEMMA VerdictWritten ==
  ASSUME LedgerInv, [Next]_vars, NEW p \in Process, RowIn(p), job[p].table = "verdicts"
  PROVE  [Lifecycle!Next]_Seen
  <1>0. PICK v0, c0, t0 : /\ v0 = Len(ledger["verdicts"]) + 1
                          /\ c0 = job[p].row.claim /\ t0 = job[p].row.test
    OBVIOUS
  <1>1. /\ ledger'["tests"] = ledger["tests"] /\ ledger'["reviews"] = ledger["reviews"]
        /\ ledger'["claims"] = ledger["claims"] /\ ledger'["retractions"] = ledger["retractions"]
        /\ ledger'["verdict_quotes"] = ledger["verdict_quotes"]
    BY RowElsewhere DEF RowTable, LinkTable
  <1>2. /\ job[p].row \in Verdict /\ job[p].owner = 0 /\ v0 \notin IdsOf("verdicts") /\ v0 \in Nat
        /\ \A v : v \in IdsOf("verdicts")' <=> v \in IdsOf("verdicts") \/ v = v0
        /\ \A v \in IdsOf("verdicts") : v < v0 /\ ledger'["verdicts"][v] = ledger["verdicts"][v]
        /\ ledger'["verdicts"][v0] = [job[p].row EXCEPT !.at = Stamp(p)]
    <2>1. RowsOf["verdicts"] = Verdict
      BY DEF RowsOf
    <2>2. QED
      BY <1>0, <2>1, RowAppended DEF RowTable
  <1>3. /\ ledger'["verdicts"][v0].claim = c0 /\ ledger'["verdicts"][v0].test = job[p].row.test
        /\ ledger'["verdicts"][v0].result = job[p].row.result
        /\ job[p].row.result \in VERDICT_RESULTS
    BY <1>0, <1>2 DEF Verdict
  <1>4. Rests("verdicts", job[p].row, job[p].links)
    BY <1>2, CitingTables DEF LedgerInv, CitationsRest
  <1>5. c0 \in IdsOf("claims") /\ \A c : c \in IdsOf("claims")' <=> c \in IdsOf("claims")
    BY <1>0, <1>1, <1>4 DEF Rests, IdsOf
  <1>6. ASSUME NEW d, d # c0
        PROVE  StatusSeen(d)' = StatusSeen(d)
    <2>1. PICK w : w = LatestVerdict(d)
      OBVIOUS
    <2>2. VerdictsOf(d, LATEST)' = VerdictsOf(d, LATEST)
      BY <1>2, <1>3, <1>6 DEF VerdictsOf, UpTo, LATEST
    <2>3. w \in VerdictsOf(d, LATEST) => (VerdictStale(w, LATEST)' <=> VerdictStale(w, LATEST))
      <3>1. Cited(w)' = Cited(w)
        BY <1>1, CitedSame
      <3>2. \A entity, id : Retracted(entity, id, LATEST)' <=> Retracted(entity, id, LATEST)
        BY <1>1, ReadsSame
      <3>3. w \in IdsOf("verdicts") => (VerdictStale(w, LATEST)' <=> VerdictStale(w, LATEST))
        <4> SUFFICES ASSUME w \in IdsOf("verdicts")
                     PROVE  VerdictStale(w, LATEST)' <=> VerdictStale(w, LATEST)
          OBVIOUS
        <4>1. ledger'.verdicts[w] = ledger.verdicts[w]
          BY <1>2
        <4>2. Retracted("tests", ledger.verdicts[w].test, LATEST)'
                <=> Retracted("tests", ledger.verdicts[w].test, LATEST)
          BY <3>2, <4>1
        <4>3. QED
          BY <3>1, <3>2, <4>2, StaleSame
      <3>4. QED
        BY <3>3 DEF VerdictsOf
    <2>4. QED
      BY <1>1, <1>5, <2>1, <2>2, <2>3, ReadsSame, QuietClaim
  <1>7. LatestVerdict(c0)' = v0 /\ VerdictsOf(c0, LATEST)' # {}
    <2>1. \A v : v \in VerdictsOf(c0, LATEST)' <=> v \in VerdictsOf(c0, LATEST) \/ v = v0
      BY <1>2, <1>3 DEF VerdictsOf, UpTo, LATEST
    <2>2. VerdictsOf(c0, LATEST) \subseteq IdsOf("verdicts") /\ IdsOf("verdicts") \subseteq Nat
      BY IdsAreCounted DEF VerdictsOf, LedgerInv, RowTable
    <2>3. VerdictsOf(c0, LATEST)' \in SUBSET Nat /\ v0 \in VerdictsOf(c0, LATEST)'
          /\ \A v \in VerdictsOf(c0, LATEST)' : v <= v0
      BY <1>2, <2>1, <2>2
    <2>4. \A ids \in SUBSET Nat : \A id \in ids : (\A other \in ids : other <= id) => Newest(ids) = id
      BY NewestIs
    <2>5. Newest(VerdictsOf(c0, LATEST)') = v0
      BY <2>3, <2>4
    <2>6. LatestVerdict(c0)' = Newest(VerdictsOf(c0, LATEST)')
      BY DEF LatestVerdict, Newest
    <2>7. QED
      BY <2>3, <2>5, <2>6
  <1>8. ReviewsOf(v0, LATEST)' = {} /\ ~Overturned(v0, LATEST)'
    <2>1. ReviewsOf(v0, LATEST) = {}
      BY <1>2 DEF ReviewsOf, LedgerInv, ReviewsIndependent, Independent
    <2>2. QED
      BY <1>1, <2>1, ReadsSame DEF Overturned
  <1>9. Status(c0)' = IF Retracted("claims", c0, LATEST) THEN "retracted"
                      ELSE IF VerdictStale(v0, LATEST)' THEN "stale"
                      ELSE CASE job[p].row.result = "unclear" -> "unclear"
                             [] job[p].row.result = "provisional" -> "provisional"
                             [] OTHER -> "kill-pending"
    <2>1. Status(c0)' = IF Retracted("claims", c0, LATEST)' THEN "retracted"
                        ELSE IF VerdictStale(v0, LATEST)' THEN "stale"
                        ELSE VerdictMeans(v0, LATEST)'
      BY <1>7, <1>8 DEF Status, ClaimStatus, LatestVerdict
    <2>2. VerdictMeans(v0, LATEST)' = CASE job[p].row.result = "unclear" -> "unclear"
                                       [] job[p].row.result = "provisional" -> "provisional"
                                       [] OTHER -> "kill-pending"
      BY <1>3, <1>8 DEF VerdictMeans
    <2>3. Retracted("claims", c0, LATEST)' <=> Retracted("claims", c0, LATEST)
      BY <1>1, ReadsSame
    <2>4. QED
      BY <2>1, <2>2, <2>3
  <1>10. ASSUME job[p].row.result = "provisional", StatusSeen(c0) = "untested"
         PROVE  VerdictStale(v0, LATEST)'
    <2>1. t0 \in IdsOf("tests") /\ ledger["tests"][t0].claim = c0 /\ t0 # 0
      BY <1>0, <1>4, <1>10 DEF Rests
    <2>2. LiveTests(c0, LATEST) = {}
      BY <1>5, <1>10, StatusRange
    <2>3. Retracted("tests", t0, LATEST)
      BY <2>1, <2>2 DEF LiveTests, UpTo
    <2>4. Retracted("tests", t0, LATEST)'
      BY <1>1, <2>3, ReadsSame
    <2>5. ledger'["verdicts"][v0].test = t0
      BY <1>0, <1>3
    <2>6. QED
      BY <2>1, <2>4, <2>5 DEF VerdictStale, LATEST
  <1>11. Moves(StatusSeen(c0), StatusSeen(c0)')
    <2>1. StatusSeen(c0)' = Status(c0)'
      BY <1>5 DEF StatusSeen
    <2>2. /\ StatusSeen(c0) \in Lifecycle!Live \cup {"retracted"}
          /\ StatusSeen(c0) = "retracted" <=> Retracted("claims", c0, LATEST)
      BY <1>5, StatusRange
    <2>3. QED
      BY <1>3, <1>9, <1>10, <2>1, <2>2 DEF Moves, VERDICT_RESULTS, Lifecycle!Pending
  <1>12. QED
    BY <1>6, <1>11, OneMoves

\* A review settles the claim its verdict decides, or overturns it.
LEMMA ReviewWritten ==
  ASSUME LedgerInv, [Next]_vars, NEW p \in Process, RowIn(p), job[p].table = "reviews"
  PROVE  [Lifecycle!Next]_Seen
  <1>0. PICK r0, v0 : r0 = Len(ledger["reviews"]) + 1 /\ v0 = job[p].row.verdict
    OBVIOUS
  <1>1. /\ ledger'["verdicts"] = ledger["verdicts"] /\ ledger'["tests"] = ledger["tests"]
        /\ ledger'["claims"] = ledger["claims"] /\ ledger'["retractions"] = ledger["retractions"]
        /\ ledger'["verdict_quotes"] = ledger["verdict_quotes"]
    BY RowElsewhere DEF RowTable, LinkTable
  <1>2. /\ job[p].row \in Review
        /\ \A r : r \in IdsOf("reviews")' <=> r \in IdsOf("reviews") \/ r = r0
        /\ \A r \in IdsOf("reviews") : ledger'["reviews"][r] = ledger["reviews"][r]
        /\ ledger'["reviews"][r0].verdict = v0 /\ ledger'["reviews"][r0].result \in REVIEW_RESULTS
    <2>1. /\ job[p].row \in RowsOf["reviews"]
          /\ \A r : r \in IdsOf("reviews")' <=> r \in IdsOf("reviews") \/ r = r0
          /\ \A r \in IdsOf("reviews") : ledger'["reviews"][r] = ledger["reviews"][r]
          /\ ledger'["reviews"][r0] = [job[p].row EXCEPT !.at = Stamp(p)]
      BY <1>0, RowAppended DEF RowTable
    <2>2. QED
      BY <1>0, <2>1 DEF RowsOf, Review
  <1>3. v0 \in IdsOf("verdicts")
    BY <1>0 DEF LedgerInv, ReviewsIndependent, Independent
  <1>4. PICK c0 : c0 = ledger["verdicts"][v0].claim
    OBVIOUS
  <1>5. c0 \in IdsOf("claims") /\ \A c : c \in IdsOf("claims")' <=> c \in IdsOf("claims")
    BY <1>1, <1>3, <1>4, VerdictCites DEF Rests, IdsOf
  <1>6. ASSUME NEW v
        PROVE  /\ \A r : r \in ReviewsOf(v, LATEST)' <=> r \in ReviewsOf(v, LATEST) \/ (v = v0 /\ r = r0)
               /\ v # v0 => /\ ReviewsOf(v, LATEST)' = {} <=> ReviewsOf(v, LATEST) = {}
                           /\ Overturned(v, LATEST)' <=> Overturned(v, LATEST)
               /\ v = v0 => (Overturned(v, LATEST) => Overturned(v, LATEST)')
    <2>1. \A r : r \in ReviewsOf(v, LATEST)' <=> r \in ReviewsOf(v, LATEST) \/ (v = v0 /\ r = r0)
      BY <1>2 DEF ReviewsOf, UpTo, LATEST
    <2>2. \A r \in ReviewsOf(v, LATEST) : ledger'["reviews"][r] = ledger["reviews"][r]
      BY <1>2 DEF ReviewsOf
    <2>3. Overturned(v, LATEST) <=> \E r \in ReviewsOf(v, LATEST) : ledger["reviews"][r].result = "overturned"
      BY DEF Overturned
    <2>4. Overturned(v, LATEST)' <=> \E r \in ReviewsOf(v, LATEST)' : ledger'["reviews"][r].result = "overturned"
      BY DEF Overturned, LATEST
    <2>5. v # v0 => (ReviewsOf(v, LATEST)' = {} <=> ReviewsOf(v, LATEST) = {})
      BY <2>1
    <2>6. v # v0 => (Overturned(v, LATEST)' <=> Overturned(v, LATEST))
      BY <2>1, <2>2, <2>3, <2>4
    <2>7. Overturned(v, LATEST) => Overturned(v, LATEST)'
      BY <2>1, <2>2, <2>3, <2>4
    <2>8. QED
      BY <2>1, <2>5, <2>6, <2>7
  <1>7. ASSUME NEW d, NEW w, w = LatestVerdict(d)
        PROVE  /\ VerdictsOf(d, LATEST)' = VerdictsOf(d, LATEST)
               /\ Retracted("claims", d, LATEST)' <=> Retracted("claims", d, LATEST)
               /\ w \in VerdictsOf(d, LATEST) => (VerdictStale(w, LATEST)' <=> VerdictStale(w, LATEST))
               /\ ~(w \in VerdictsOf(d, LATEST) /\ w = v0) => StatusSeen(d)' = StatusSeen(d)
    <2>1. /\ VerdictsOf(d, LATEST)' = VerdictsOf(d, LATEST)
          /\ LiveTests(d, LATEST)' = LiveTests(d, LATEST)
          /\ \A entity, id : Retracted(entity, id, LATEST)' <=> Retracted(entity, id, LATEST)
      BY <1>1, ReadsSame
    <2>2. Cited(w)' = Cited(w)
      BY <1>1, CitedSame
    <2>3. w \in VerdictsOf(d, LATEST) => (VerdictStale(w, LATEST)' <=> VerdictStale(w, LATEST))
      BY <1>1, <2>1, <2>2, StaleSame DEF VerdictsOf
    <2>4. ~(w \in VerdictsOf(d, LATEST) /\ w = v0) => StatusSeen(d)' = StatusSeen(d)
      BY <1>5, <1>6, <1>7, <2>1, <2>3, QuietClaim
    <2>5. QED
      BY <2>1, <2>3, <2>4
  <1>8. ASSUME NEW d, d # c0
        PROVE  StatusSeen(d)' = StatusSeen(d)
    <2>1. PICK w : w = LatestVerdict(d)
      OBVIOUS
    <2>2. ~(w \in VerdictsOf(d, LATEST) /\ w = v0)
      BY <1>4, <1>8 DEF VerdictsOf
    <2>3. QED
      BY <1>7, <2>1, <2>2
  <1>9. Moves(StatusSeen(c0), StatusSeen(c0)')
    <2>1. PICK w : w = LatestVerdict(c0)
      OBVIOUS
    <2>2. CASE ~(w \in VerdictsOf(c0, LATEST) /\ w = v0)
      BY <1>7, <2>1, <2>2 DEF Moves
    <2>3. CASE w \in VerdictsOf(c0, LATEST) /\ w = v0
      <3>1. /\ VerdictsOf(c0, LATEST)' = VerdictsOf(c0, LATEST)
            /\ Retracted("claims", c0, LATEST)' <=> Retracted("claims", c0, LATEST)
            /\ VerdictStale(v0, LATEST)' <=> VerdictStale(v0, LATEST)
        BY <1>7, <2>1, <2>3
      <3>2. /\ VerdictsOf(c0, LATEST) # {} /\ LatestVerdict(c0) = v0 /\ LatestVerdict(c0)' = v0
            /\ ReviewsOf(v0, LATEST)' # {}
            /\ Overturned(v0, LATEST) => Overturned(v0, LATEST)'
            /\ StatusSeen(c0) = Status(c0) /\ StatusSeen(c0)' = Status(c0)'
        BY <1>5, <1>6, <2>1, <2>3, <3>1 DEF LatestVerdict, StatusSeen
      <3>3. ledger["verdicts"][v0].result \in VERDICT_RESULTS
        BY <1>3, RowWithId DEF LedgerInv, RowTable, RowsOf, Verdict
      <3>4. Status(c0) = IF Retracted("claims", c0, LATEST) THEN "retracted"
                         ELSE IF VerdictStale(v0, LATEST) THEN "stale"
                         ELSE IF Overturned(v0, LATEST) THEN "overturned"
                         ELSE VerdictMeans(v0, LATEST)
        BY <3>2 DEF Status, ClaimStatus, LatestVerdict
      <3>5. Status(c0)' = IF Retracted("claims", c0, LATEST)' THEN "retracted"
                          ELSE IF VerdictStale(v0, LATEST)' THEN "stale"
                          ELSE IF Overturned(v0, LATEST)' THEN "overturned"
                          ELSE VerdictMeans(v0, LATEST)'
        BY <3>1, <3>2 DEF Status, ClaimStatus, LatestVerdict
      <3>6. Moves(VerdictMeans(v0, LATEST), VerdictMeans(v0, LATEST)')
            /\ VerdictMeans(v0, LATEST) \in Lifecycle!Pending \cup Lifecycle!Settled
        BY <1>1, <3>2, <3>3 DEF VerdictMeans, Moves, VERDICT_RESULTS, Lifecycle!Pending, Lifecycle!Settled
      <3>7. QED
        BY <3>1, <3>2, <3>4, <3>5, <3>6 DEF Moves
    <2>4. QED
      BY <2>2, <2>3
  <1>10. QED
    BY <1>8, <1>9, OneMoves

\* Linking a withdrawn quote spoils what the verdict decides, any other changes nothing.
LEMMA QuoteLinked ==
  ASSUME LedgerInv, [Next]_vars, \A t \in RowTable : ledger'[t] = ledger[t]
  PROVE  [Lifecycle!Next]_Seen
  <1>1. ASSUME NEW d \in Watched
        PROVE  Spoils(StatusSeen(d), StatusSeen(d)')
    <2>1. /\ ledger'["verdicts"] = ledger["verdicts"] /\ ledger'["reviews"] = ledger["reviews"]
          /\ ledger'["tests"] = ledger["tests"] /\ ledger'["claims"] = ledger["claims"]
          /\ ledger'["retractions"] = ledger["retractions"]
      BY DEF RowTable
    <2>2. PICK w : w = LatestVerdict(d)
      OBVIOUS
    <2>3. d \in IdsOf("claims")' <=> d \in IdsOf("claims")
      BY <2>1 DEF IdsOf
    <2>4. QED
      BY <2>1, <2>2, <2>3, ReadsSame, QuietClaim
  <1>2. QED
    BY <1>1, ManySpoilt

\* Withdrawing a claim ends it, a test or a quote spoils what was decided by it, and
\* without its tests an undecided claim is untested again.
LEMMA RetractionWritten ==
  ASSUME LedgerInv, [Next]_vars, NEW p \in Process, RowIn(p), job[p].table = "retractions"
  PROVE  [Lifecycle!Next]_Seen
  <1>0. PICK x0, e0, i0 : /\ x0 = Len(ledger["retractions"]) + 1
                          /\ e0 = job[p].row.entity /\ i0 = job[p].row.target
    OBVIOUS
  <1>1. /\ ledger'["verdicts"] = ledger["verdicts"] /\ ledger'["tests"] = ledger["tests"]
        /\ ledger'["claims"] = ledger["claims"] /\ ledger'["reviews"] = ledger["reviews"]
        /\ ledger'["verdict_quotes"] = ledger["verdict_quotes"]
    BY RowElsewhere DEF RowTable, LinkTable
  <1>2. /\ e0 \in RETRACTABLE /\ i0 \in IdsOf(e0)
        /\ \A x : x \in IdsOf("retractions")' <=> x \in IdsOf("retractions") \/ x = x0
        /\ \A x \in IdsOf("retractions") : ledger'["retractions"][x] = ledger["retractions"][x]
        /\ ledger'["retractions"][x0].entity = e0 /\ ledger'["retractions"][x0].target = i0
    <2>1. /\ job[p].row \in RowsOf["retractions"]
          /\ \A x : x \in IdsOf("retractions")' <=> x \in IdsOf("retractions") \/ x = x0
          /\ \A x \in IdsOf("retractions") : ledger'["retractions"][x] = ledger["retractions"][x]
          /\ ledger'["retractions"][x0] = [job[p].row EXCEPT !.at = Stamp(p)]
      BY <1>0, RowAppended DEF RowTable
    <2>2. i0 \in IdsOf(e0)
      BY <1>0 DEF LedgerInv, RetractionsRefer
    <2>3. QED
      BY <1>0, <2>1, <2>2 DEF RowsOf, Retraction
  <1>3. ASSUME NEW entity, NEW id
        PROVE  Retracted(entity, id, LATEST)' <=>
                 Retracted(entity, id, LATEST) \/ (entity = e0 /\ id = i0)
    BY <1>2 DEF Retracted, UpTo, LATEST
  <1>4. \A c : /\ c \in IdsOf("claims")' <=> c \in IdsOf("claims")
              /\ VerdictsOf(c, LATEST)' = VerdictsOf(c, LATEST)
    BY <1>1, ReadsSame DEF IdsOf
  <1>5. ASSUME NEW v
        PROVE  /\ ReviewsOf(v, LATEST)' = ReviewsOf(v, LATEST)
               /\ Overturned(v, LATEST)' <=> Overturned(v, LATEST)
               /\ Cited(v)' = Cited(v)
    BY <1>1, ReadsSame, CitedSame
  <1>6. ASSUME NEW d, ~(e0 = "claims" /\ i0 = d), NEW w, w = LatestVerdict(d),
               VerdictsOf(d, LATEST) = {} => (LiveTests(d, LATEST)' = {} <=> LiveTests(d, LATEST) = {})
        PROVE  /\ Spoils(StatusSeen(d), StatusSeen(d)')
               /\ (w \in VerdictsOf(d, LATEST) => (VerdictStale(w, LATEST)' <=> VerdictStale(w, LATEST)))
                    => StatusSeen(d)' = StatusSeen(d)
    <2>1. Retracted("claims", d, LATEST)' <=> Retracted("claims", d, LATEST)
      BY <1>3, <1>6
    <2>2. /\ Overturned(w, LATEST)' <=> Overturned(w, LATEST)
          /\ ReviewsOf(w, LATEST)' = {} <=> ReviewsOf(w, LATEST) = {}
      BY <1>5
    <2>3. QED
      BY <1>4, <1>6, <2>1, <2>2, QuietClaim
  <1>7. ASSUME e0 # "tests", NEW d
        PROVE  LiveTests(d, LATEST)' = LiveTests(d, LATEST)
    BY <1>1, <1>3, <1>7 DEF LiveTests, IdsOf, LATEST
  <1>8. CASE e0 \in {"notes", "ideas", "quotes"}
    <2>1. ASSUME NEW d \in Watched
          PROVE  Spoils(StatusSeen(d), StatusSeen(d)')
      BY <1>6, <1>7, <1>8
    <2>2. QED
      BY <2>1, ManySpoilt
  <1>9. CASE e0 = "claims"
    <2>1. ASSUME NEW d, d # i0
          PROVE  StatusSeen(d)' = StatusSeen(d)
      <3>1. PICK w : w = LatestVerdict(d)
        OBVIOUS
      <3>2. w \in VerdictsOf(d, LATEST) => (VerdictStale(w, LATEST)' <=> VerdictStale(w, LATEST))
        <4> SUFFICES ASSUME w \in IdsOf("verdicts")
                     PROVE  VerdictStale(w, LATEST)' <=> VerdictStale(w, LATEST)
          BY DEF VerdictsOf
        <4>1. ledger'.verdicts[w] = ledger.verdicts[w]
          BY <1>1
        <4>2. QED
          <5>1. /\ Retracted("tests", ledger.verdicts[w].test, LATEST)'
                     <=> Retracted("tests", ledger.verdicts[w].test, LATEST)
                /\ \A q : Retracted("quotes", q, LATEST)' <=> Retracted("quotes", q, LATEST)
            BY <1>3, <1>9, <4>1
          <5>2. QED
            BY <1>5, <5>1, StaleSame
      <3>3. QED
        BY <1>6, <1>7, <1>9, <2>1, <3>1, <3>2
    <2>2. StatusSeen(i0)' = "retracted"
      BY <1>2, <1>3, <1>4, <1>9 DEF StatusSeen, Status, ClaimStatus, LATEST
    <2>3. StatusSeen(i0) \in Lifecycle!Live \cup {"retracted"}
      BY <1>2, <1>9, StatusRange
    <2>4. QED
      BY <2>1, <2>2, <2>3, OneMoves DEF Moves
  <1>10. CASE e0 = "tests"
    <2>1. PICK c0 : c0 = ledger["tests"][i0].claim
      OBVIOUS
    <2>2. c0 \in IdsOf("claims")
      BY <1>2, <1>10, <2>1 DEF LedgerInv, TestsRefer
    <2>3. ASSUME NEW d, d # c0
          PROVE  StatusSeen(d)' = StatusSeen(d)
      <3>1. PICK w : w = LatestVerdict(d)
        OBVIOUS
      <3>2. LiveTests(d, LATEST)' = LiveTests(d, LATEST)
        <4>1. \A t \in IdsOf("tests") : ledger["tests"][t].claim = d => t # i0
          BY <2>1, <2>3
        <4>2. QED
          BY <1>1, <1>3, <4>1 DEF LiveTests, IdsOf, LATEST
      <3>3. w \in VerdictsOf(d, LATEST) => (VerdictStale(w, LATEST)' <=> VerdictStale(w, LATEST))
        <4> SUFFICES ASSUME w \in IdsOf("verdicts"), ledger["verdicts"][w].claim = d
                     PROVE  VerdictStale(w, LATEST)' <=> VerdictStale(w, LATEST)
          BY DEF VerdictsOf
        <4>1. ledger'.verdicts[w] = ledger.verdicts[w]
          BY <1>1
        <4>2. ledger["verdicts"][w].test # 0 => ledger["verdicts"][w].test # i0
          BY <2>1, <2>3, VerdictCites DEF Rests
        <4>3. QED
          <5>1. /\ ledger.verdicts[w].test # 0 =>
                     (Retracted("tests", ledger.verdicts[w].test, LATEST)'
                        <=> Retracted("tests", ledger.verdicts[w].test, LATEST))
                /\ \A q : Retracted("quotes", q, LATEST)' <=> Retracted("quotes", q, LATEST)
            BY <1>3, <1>10, <4>1, <4>2
          <5>2. QED
            BY <1>5, <5>1, StaleSame
      <3>4. QED
        BY <1>6, <1>10, <3>1, <3>2, <3>3
    <2>4. CASE VerdictsOf(c0, LATEST) = {}
      <3>1. VerdictsOf(c0, LATEST)' = {}
            /\ (Retracted("claims", c0, LATEST)' <=> Retracted("claims", c0, LATEST))
        BY <1>3, <1>4, <1>10, <2>4
      <3>2. Moves(StatusSeen(c0), StatusSeen(c0)')
        BY <1>4, <2>2, <2>4, <3>1 DEF StatusSeen, Status, ClaimStatus, Moves
      <3>3. QED
        BY <2>3, <3>2, OneMoves
    <2>5. CASE VerdictsOf(c0, LATEST) # {}
      <3>1. PICK w : w = LatestVerdict(c0)
        OBVIOUS
      <3>2. Spoils(StatusSeen(c0), StatusSeen(c0)')
        BY <1>6, <1>10, <2>5, <3>1
      <3>3. QED
        BY <2>3, <3>2, OneMoves DEF Spoils, Moves, Lifecycle!Live
    <2>6. QED
      BY <2>4, <2>5
  <1>11. QED
    BY <1>2, <1>8, <1>9, <1>10 DEF RETRACTABLE

\* Every step of every process moves the claims as the lifecycle allows.
LEMMA NextMoves ==
  ASSUME LedgerInv, [Next]_vars
  PROVE  [Lifecycle!Next]_Seen
  <1>0. TypeOK
    BY DEF LedgerInv
  <1>1. CASE \A t \in RowTable : ledger'[t] = ledger[t]
    BY <1>1, QuoteLinked
  <1>2. ASSUME NEW p \in Process, RowIn(p)
        PROVE  [Lifecycle!Next]_Seen
    <2>1. CASE job[p].table \in ReadTable
      BY <1>2, <2>1, ClaimWritten, TestWritten, VerdictWritten, ReviewWritten, RetractionWritten
         DEF ReadTable
    <2>2. CASE job[p].table \notin ReadTable
      <3>1. job[p].table \in RowTable
        BY <1>0, <1>2, JobType DEF RowIn
      <3>2. \A t \in ReadTable : ledger'[t] = ledger[t]
        BY <1>2, <2>2, RowElsewhere DEF ReadTable, RowTable
      <3>3. ledger'["verdict_quotes"] = ledger["verdict_quotes"]
        BY <1>2, <3>1, RowElsewhere DEF RowTable, LinkTable
      <3>4. \A d \in Watched : StatusSeen(d)' = StatusSeen(d)
        BY <3>2, <3>3, NothingRead
      <3>5. QED
        BY <3>4 DEF Seen
    <2>3. QED
      BY <2>1, <2>2
  <1>3. ASSUME NEW p \in Process, NEW link, ResultIn(p, link)
        PROVE  [Lifecycle!Next]_Seen
    <2>1. /\ \A t \in ReadTable : ledger'[t] = ledger[t]
          /\ ledger'["verdict_quotes"] = ledger["verdict_quotes"]
      BY <1>3 DEF ResultIn, AddsTo, ReadTable, RowTable, LinkTable
    <2>2. \A d \in Watched : StatusSeen(d)' = StatusSeen(d)
      BY <2>1, NothingRead
    <2>3. QED
      BY <2>2 DEF Seen
  <1>4. ASSUME NEW p \in Process, NEW link, LinkIn(p, link)
        PROVE  \A t \in RowTable : ledger'[t] = ledger[t]
    BY <1>4, LinkTables DEF LinkIn
  <1>5. QED
    BY <1>0, <1>1, <1>2, <1>3, <1>4, StepKinds DEF WholeStep, HandsOver, Drops

\* Nothing is written yet when the ledger is opened for the first time.
LEMMA InitMoves == Init => Lifecycle!Init
  BY DEF Init, EmptyLedger, Lifecycle!Init, Seen, StatusSeen, IdsOf, RowTable

-----------------------------------------------------------------------------
\* Whoever writes, in whatever order, and wherever writes are cut short, no step moves a
\* claim in a way the lifecycle does not know: only a review settles it, and a claim
\* that was overturned or spoilt comes back only by a new verdict.
THEOREM ClaimsMoveByTheRules == Spec => LifecycleSteps
  <1>1. Spec => []LedgerInv
    BY InitInv, NextInv, PTL DEF Spec
  <1>2. LedgerInv /\ [Next]_vars => [Lifecycle!Next]_Seen
    BY NextMoves
  <1>3. QED
    BY <1>1, <1>2, PTL DEF Spec, LifecycleSteps

\* The ledger implements the lifecycle of claims.
THEOREM LedgerImplementsLifecycle == Spec => LifecycleSpec
  <1>1. Init => Lifecycle!Init
    BY InitMoves
  <1>2. QED
    BY <1>1, ClaimsMoveByTheRules, PTL DEF Spec, LifecycleSteps, LifecycleSpec, Lifecycle!Spec
=============================================================================

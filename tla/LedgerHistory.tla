--------------------------- MODULE LedgerHistory ----------------------------
(***************************************************************************)
(* The evidence ledger with what really happened beside what its stamps    *)
(* say happened.  The ledger reconstructs the past by comparing stamps     *)
(* (newSincePrediction, lookedSince, claimStatus as of a moment); the      *)
(* history variables remember the past itself, so that the two can be      *)
(* compared.  They restrict nothing: every step of the ledger is a step.   *)
(***************************************************************************)
EXTENDS EvidenceLedger

VARIABLES
  before,  \* before[t]: how many sources and searches there were when test t was written
  basis,   \* basis[i]: the status every claim had when idea i was saved
  torn     \* the verdicts whose process died before all their quotes were saved

historyVars == <<ledger, job, lastStamp, clock, restarts, before, basis, torn>>

Before == [sources |-> Len(ledger.sources), searches |-> Len(ledger.searches)]

Basis == [c \in IdsOf("claims") |-> Status(c)]

\* The verdicts whose quotes processes are still saving.
Writing == {job[p].owner : p \in {x \in Process : job[x] # Idle /\ job[x].table = "verdicts"}}

Remember ==
  /\ before' = IF Len(ledger'.tests) > Len(ledger.tests) THEN Append(before, Before)
                                                          ELSE before
  /\ basis' = IF Len(ledger'.ideas) > Len(ledger.ideas) THEN Append(basis, Basis)
                                                         ELSE basis
  /\ torn' = IF restarts' > restarts THEN torn \union (Writing \ Writing') ELSE torn

HistoryInit == Init /\ before = <<>> /\ basis = <<>> /\ torn = {}

HistoryNext == Next /\ Remember

HistorySpec == HistoryInit /\ [][HistoryNext]_historyVars

-----------------------------------------------------------------------------
Written(verdict) == verdict \notin Writing \union torn

\* A provisional verdict answers a test written before at least one of its quotes
\* was readable anywhere in the ledger (newSincePrediction in addVerdict).
TestedBeforeReadable ==
  \A v \in IdsOf("verdicts") :
    ledger.verdicts[v].result = "provisional" /\ Written(v) =>
      \E q \in Cited(v) :
        \A s \in 1..before[ledger.verdicts[v].test].sources :
          ~ ledger.quotes[q].text \subseteq ledger.sources[s].text

\* A kill that cites nothing answers a test after which somebody in the project
\* searched, or fetched, or ran something (lookedSince in addVerdict).
KilledAfterLooking ==
  \A v \in IdsOf("verdicts") :
    ledger.verdicts[v].result = "killed" /\ Written(v) /\ Cited(v) = {} =>
      LET t == ledger.verdicts[v].test
          project == ledger.claims[ledger.verdicts[v].claim].project
      IN  /\ t # 0
          /\ \/ \E w \in IdsOf("searches") :
                  /\ w > before[t].searches
                  /\ ledger.searches[w].project = project
             \/ \E s \in IdsOf("sources") :
                  /\ s > before[t].sources
                  /\ ledger.sources[s].search = 0
                  /\ ledger.sources[s].project = project

\* statusWhenSaved, computed from stamps whenever the project is shown, is what each
\* claim's status was when the idea was saved; later evidence never rewrites what an
\* idea was based on (show, claimStatus as of ideaRow.created_at).
BasisNeverRewritten ==
  \A i \in IdsOf("ideas") : \A c \in ClaimsOf(i) :
    ClaimStatus(c, ledger.ideas[i].at) = basis[i][c]

\* What the ledger reads from stamps is what happened: evidence came after the test it
\* settles, and ideas show what they were based on (newSincePrediction, lookedSince,
\* claimStatus).
StampsTellThePast == TestedBeforeReadable /\ KilledAfterLooking /\ BasisNeverRewritten
=============================================================================

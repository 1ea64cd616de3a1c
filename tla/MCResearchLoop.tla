--------------------------- MODULE MCResearchLoop ---------------------------
(***************************************************************************)
(* Instances of ResearchLoop for TLC.  Scenarios that are about what comes *)
(* after the first split start from a project that was framed, surveyed    *)
(* and split, as Frame, Survey and Split leave it when the survey found no *)
(* pages and the framing asked no question, or one that was answered.      *)
(***************************************************************************)
EXTENDS ResearchLoop

\* The entries name the notes made so far: the frame's are the framing and its questions.
Build(rows) ==
  FoldLeft(LAMBDA d, w : Written(d, w, IF w.op = "log" THEN [n \in DOMAIN d.notes |-> n] ELSE <<>>,
                                 Now(d)), EmptyProject, rows)

Framed == <<Note("framing"), Log("frame", 0), Log("survey", 0)>>
Asked == <<Note("framing"), Note("question"), Log("frame", 0), Log("survey", 0),
           Note("constraint")>>
Rests(kinds) == [i \in 1..Len(kinds) |-> Claim(kinds[i])]
                  \o <<Idea(1..Len(kinds)), Log("split", 0)>>

\* Its claim has a desk test whose pages were gathered and read, or an experiment.
DeskRead == <<Test(1, "desk"), Log("design", 1), Log("gather", 1), Log("read", 1)>>
Experiment == <<Test(1, "experiment"), Log("design", 1)>>

OneNeed == Build(Asked \o Rests(<<"need">>))
OneNeedRead == Build(Framed \o Rests(<<"need">>) \o DeskRead)
OneNeedTried == Build(Framed \o Rests(<<"need">>) \o Experiment)

\* The commands of a careful owner, of one who trusts the loop, and of a calling agent.
Careful == [trust |-> FALSE, skipQuestions |-> FALSE, agentFindings |-> FALSE]
Trusting == [trust |-> TRUE, skipQuestions |-> TRUE, agentFindings |-> FALSE]
Calling == [trust |-> TRUE, skipQuestions |-> TRUE, agentFindings |-> TRUE]
TrustingOnly == {Trusting}
Everyone == {Careful, Trusting, Calling}

Nothing == {<<>>}

\* Work by hand on a pass from its first verdict on, and what is taken back; the ledger
\* refuses the run, as the test is a desk test.
PassPlans ==
  {<<"test">>, <<"verdict">>, <<"review">>, <<"write-up">>, <<"retract-test">>,
   <<"accept">>, <<"run">>, <<"retract-quote">>, <<"retract-claim">>, <<"retract-idea">>}

\* What an owner says and hands over who is asked.
OwnerPlans == {<<"constraint", "retract-note">>, <<"retract-note", "constraint">>,
               <<"file", "constraint">>}

\* A desk test that was read; a claim with no test yet and an owner who is asked; an
\* experiment with a run by hand and a process that dies.
HandsSpec ==
  /\ \/ StartFrom(OneNeedRead, PassPlans, 0)
     \/ StartFrom(OneNeed, OwnerPlans, 0)
     \/ StartFrom(OneNeedTried, {<<"run">>}, 1)
  /\ [][Next]_vars

\* The first two go on with desk tests; in the first an owner trusts the loop or has an agent
\* write, the latter on a pass of one verdict; the others have a careful owner and no variants.
Asking == \E n \in Ids(db.notes) : db.notes[n].kind = "question"
Cautious == Asking \/ (db.tests # <<>> /\ db.tests[1].kind = "experiment")
Desks == \A t \in Ids(db.tests) : db.tests[t].kind = "desk"
AsScened ==
  /\ step # Idle => (step.trust <=> ~Cautious)
  /\ Cautious => /\ \A n \in Ids(db.notes) : db.notes[n].kind # "variant"
                 /\ Logged(db, "handoff") = {}
  /\ Asking => Desks
  /\ ~Cautious => /\ Desks
                  /\ Logged(db, "handoff") = {} \/ Len(db.verdicts) <= 1
                  /\ Logged(db, "blocked") \cup Logged(db, "untestable") = {}
=============================================================================

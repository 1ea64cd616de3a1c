----------------------------- MODULE MCWorkflow -----------------------------
(* Launches for the workflow's instances. *)
EXTENDS WorkflowSession

Launch(mode, purpose, framed, ranked, batches) ==
  [mode |-> mode, purpose |-> purpose, framed |-> framed, ranked |-> ranked, batches |-> batches,
   enforced |-> purpose = "known", project |-> purpose = "known"]
\* A new run that finds problems and generates by itself, and one that waits for review at every step.
ByItself(framed) == Launch("vibe", "discovery", framed, TRUE, 1)
Reviewed(framed) == Launch("babysit", "discovery", framed, TRUE, 1)
\* An older saved run about a known problem, within its limits, that fills toward a project target.
Filled(batches) == Launch("vibe", "known", FALSE, FALSE, batches)

Projects == {Reviewed(FALSE), Filled(1), Filled(2)}
Kinds == {Reviewed(TRUE), ByItself(TRUE), ByItself(FALSE)}

\* A project whose sessions are launched alike, the second one in the process of the first.
LaunchedAlike ==
  /\ \A s, u \in Sessions : /\ session[s].contract.ranked = session[u].contract.ranked
                           /\ session[s].contract.batches = session[u].contract.batches
  /\ Len(session) = 2 => crashes = 0

\* Of runs side by side none asks a stage again; a run that is alone may.
AskedOnceSideBySide ==
  (Sessions # {} /\ session[1].contract.batches = 2 /\ Len(run) = 2) => \A r \in DOMAIN run : Len(run[r].calls) <= 1
=============================================================================

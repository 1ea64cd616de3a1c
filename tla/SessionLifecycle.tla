-------------------------- MODULE SessionLifecycle --------------------------
(***************************************************************************)
(* What the workflow of a project promises its owner: one session at a     *)
(* time; a stop is never taken back; what is settled stays settled, until  *)
(* the owner reopens one task of a session that is over; and a session     *)
(* that is over leaves nothing running.                                    *)
(***************************************************************************)
EXTENDS Integers, Sequences

VARIABLES
  life,  \* the sessions: [state, outcome]
  work   \* their tasks: [session, state]

vars == <<life, work>>

Over(s) == life[s].state = "finished"
Unsettled == {"ready", "running"}

\* Where a session may go while it is under way.
Onward(state) ==
  CASE state = "running" -> {"running", "pause-requested", "stop-requested", "paused", "waiting-for-review"}
    [] state = "pause-requested" -> {"pause-requested", "paused", "stop-requested"}
    [] state = "stop-requested" -> {"stop-requested"}
    [] state = "paused" -> {"paused", "running", "waiting-for-review", "stop-requested"}
    [] OTHER -> {"waiting-for-review", "running"}

\* Tasks of session s may start and settle, and new ones come; settled ones and those of other sessions stay.
Worked(s) ==
  /\ Len(work') >= Len(work)
  /\ \A t \in DOMAIN work : work'[t] = work[t] \/ (work[t].session = s /\ work'[t].session = s /\ work[t].state \in Unsettled)
  /\ \A t \in DOMAIN work' \ DOMAIN work : work'[t].session = s

Open ==
  /\ \A s \in DOMAIN life : Over(s)
  /\ life' = Append(life, [state |-> "running", outcome |-> "none"])
  /\ Worked(Len(life) + 1)
Move(s) ==
  /\ ~Over(s)
  /\ life' \in {[life EXCEPT ![s].state = state] : state \in Onward(life[s].state)}
  /\ Worked(s)
Finish(s) ==
  /\ ~Over(s) /\ Worked(s)
  /\ \E outcome \in {"target-met", "partial", "no-qualifying-ideas", "failed", "cancelled", "needs-attention"} :
       life' = [life EXCEPT ![s] = [state |-> "finished", outcome |-> outcome]]
  /\ \A t \in DOMAIN work' : work'[t].session = s => work'[t].state # "running"
Reopen(s, t) ==
  /\ \A u \in DOMAIN life : Over(u)
  /\ work[t].session = s
  /\ \/ work[t].state \in {"failed", "unknown"} /\ life[s].outcome \in {"needs-attention", "failed", "partial"}
     \/ work[t].state = "succeeded" /\ life[s].outcome = "no-qualifying-ideas"
  /\ life' = [life EXCEPT ![s] = [state |-> "running", outcome |-> "none"]]
  /\ work' = [work EXCEPT ![t].state = "running"]

Init == life = <<>> /\ work = <<>>
Next ==
  \/ Open
  \/ \E s \in DOMAIN life : Move(s)
  \/ \E s \in DOMAIN life : Finish(s)
  \/ \E s \in DOMAIN life : \E t \in DOMAIN work : Reopen(s, t)
Spec == Init /\ [][Next]_vars
=============================================================================

--------------------------- MODULE FollowUpsProofs ---------------------------
(***************************************************************************)
(* What is true of the requests and turns of a project whatever the owner, *)
(* the models and the crashes do.                                          *)
(*                                                                         *)
(* The argument rests on where work can be: only the newest session may be *)
(* open, and whatever runs belongs to it.  A step is therefore confined to *)
(* one open session (`Confined`), and what it does there decides all.      *)
(***************************************************************************)
EXTENDS ProjectFollowUps, FiniteSetTheorems, WellFoundedInduction, TLAPS

States == {"ready", "running"} \cup Settled
Runs == {"none", "queued", "running", "completed", "failed", "cancelled"}
ItemShape == [session : Nat, kind : {"question", "redo", "reevaluate", "turn"}, target : Findings \cup Nat,
              base : Nat, state : States, run : Runs, exec : {"none", "going", "stopped"},
              call : {"none", "prepared", "sent", "done", "unknown"}, calls : 0..Allowance,
              found : BOOLEAN, kept : BOOLEAN, budget : {"reserved", "spent", "released", "uncertain"},
              cost : {"none", "reserved", "committed", "released"}]
SessionShape == [purpose : {"research", "followup", "turn"},
                 state : {"waiting-for-review", "running", "pause-requested", "stop-requested", "paused", "finished"},
                 outcome : {"none", "target-met", "partial", "cancelled", "failed", "needs-attention"},
                 active : Nat, limit : Nat, disc : {"none", "going", "saved"}]
ShotShape == [session : Nat, parent : Nat, findings : SUBSET (Findings \cup Nat), included : SUBSET Nat]
Typed ==
  /\ session \in Seq(SessionShape) /\ item \in Seq(ItemShape) /\ shot \in Seq(ShotShape)
  /\ phase \in {"up", "down", "turns", "sessions"}

Engaged == {"prepared", "sent"}
\* What one request or turn says of itself.
Rules(x) ==
  /\ x.state \in {"ready", "running"} <=> x.budget = "reserved"
  /\ x.budget = "released" => x.calls = 0
  /\ x.call = "unknown" => x.budget \in {"reserved", "uncertain"}
  /\ x.budget = "uncertain" => x.call = "unknown" \/ x.kind = "turn"
  /\ x.state = "succeeded" => x.run = "completed"
  /\ (x.state \in Settled) => (x.run \notin {"queued", "running"} /\ x.cost # "reserved" /\ x.exec = "none")
  /\ (x.state = "ready") =>
       (x.run = "none" /\ x.exec = "none" /\ x.call = "none" /\ x.calls = 0 /\ x.cost = "none")
  /\ x.state = "running" => x.run # "none"
  /\ x.cost # "none" => x.kind = "turn"
  /\ x.call \in Engaged => x.state = "running"
  /\ x.call = "prepared" => x.calls < Allowance

Latest == Len(session)
ItemsOK == \A i \in DOMAIN item :
  /\ Rules(item[i]) /\ item[i].session \in DOMAIN session
  /\ item[i].kind = "turn" <=> session[item[i].session].purpose = "turn"
\* Whatever runs is alone, and in the session that is open.
Alone ==
  /\ \A i \in DOMAIN item : item[i].state = "running" =>
       item[i].session = Latest /\ session[Latest].state # "finished"
  /\ \A i, j \in DOMAIN item : item[i].state = "running" /\ item[j].state = "running" => i = j
\* A call is under way only while its process works on it.
CallsOK == \A i \in DOMAIN item :
  /\ item[i].call \in Engaged => item[i].exec # "none" \/ phase = "down" \/ todo = <<"open", i>>
  /\ phase # "up" => item[i].exec = "none"
  /\ phase = "sessions" => ~(item[i].kind = "turn" /\ item[i].state = "running")
  /\ session[item[i].session].state = "paused" => item[i].exec = "none"
SessionsOK == \A s \in DOMAIN session :
  /\ session[s].state # "finished" <=> session[s].outcome = "none"
  /\ session[s].state # "finished" => s = Latest
  /\ session[s].active \in 0..Len(shot)
  /\ session[s].disc # "none" => session[s].state # "finished" /\ session[s].purpose # "turn"
  /\ session[s].purpose = "turn" => session[s].state \in {"running", "finished"}
  /\ session[s].purpose = "turn" /\ session[s].state # "finished" =>
       \E i \in DOMAIN item : item[i].session = s /\ item[i].state = "running"
\* While the first research of a project is under way nothing else is, and nothing has been found.
FirstAlone == \A s \in DOMAIN session : session[s].disc # "none" =>
  /\ \A i \in DOMAIN item : item[i].state # "running" /\ (item[i].session = s => item[i].state # "succeeded")
  /\ \A k \in DOMAIN shot : shot[k].session # s
\* What the process goes on to concerns something that runs.
TodoOK ==
  /\ \/ todo = Nothing
     \/ todo[1] = "dispatch" /\ todo[2] \in DOMAIN session /\ todo = <<todo[1], todo[2]>>
     \/ /\ todo[1] \in {"launch", "resume", "cancel", "close", "open", "save", "event"}
        /\ todo[2] \in DOMAIN item /\ todo = <<todo[1], todo[2]>>
  /\ phase # "up" => todo = Nothing
  /\ \A i \in DOMAIN item : todo[2] = i =>
       /\ todo[1] \in {"launch", "resume", "cancel", "close", "open", "save"} => item[i].state = "running"
       /\ todo[1] \in {"launch", "resume", "open", "event"} => item[i].exec = "none"
       /\ todo[1] \in {"launch", "resume", "open"} => session[item[i].session].state = "running"
       /\ todo[1] \in {"launch", "resume", "cancel", "event"} => item[i].kind # "turn"
       /\ (todo[1] = "close") =>
            /\ item[i].kind \in {"reevaluate", "turn"} /\ item[i].call \notin Engaged
            /\ item[i].kind = "turn" => item[i].cost # "reserved"
       /\ (todo[1] = "save") => (item[i].kind = "turn" /\ item[i].cost = "committed" /\ item[i].call = "done")
       /\ todo[1] = "open" => item[i].kind = "turn"
\* A finding is replaced in a snapshot newer than the one it was asked about.
ShotsOK == \A k \in DOMAIN shot :
  /\ shot[k].session \in DOMAIN session /\ k <= session[shot[k].session].active
  /\ \A i \in shot[k].included :
       /\ i \in DOMAIN item /\ item[i].session = shot[k].session /\ ~item[i].kept
       /\ item[i].kind \in {"redo", "reevaluate"} =>
            item[i].base < k /\ \A m \in DOMAIN shot : i \in shot[m].included => m = k
ReviewOK == \A s \in DOMAIN session : session[s].purpose = "followup" /\ session[s].outcome = "partial" =>
  \A i \in DOMAIN item : item[i].session = s =>
    /\ item[i].state \in {"succeeded", "failed", "cancelled", "skipped"}
    /\ item[i].state = "succeeded" => item[i].kept \/ \E k \in DOMAIN shot : shot[k].session = s /\ i \in shot[k].included
IInv == Typed /\ ItemsOK /\ Alone /\ CallsOK /\ SessionsOK /\ FirstAlone /\ TodoOK /\ ShotsOK /\ ReviewOK

-----------------------------------------------------------------------------
(* Steps of one open session. *)

\* What may become of a request: it starts, it settles, and what is settled stays.
Follows(x, y) ==
  /\ y \in ItemShape /\ Rules(y)
  /\ y.session = x.session /\ y.kind = x.kind /\ y.base = x.base
  /\ x.state \notin {"ready", "running"} => y.state = x.state
  /\ x.kept => y.kept
Goes(s, r) ==
  /\ session[s].state # "finished" /\ r \in SessionShape
  /\ r.purpose = session[s].purpose /\ r.active \in 0..Len(shot)
  /\ r.state # "finished" <=> r.outcome = "none"

\* The requests become `items`, all of them within session s, which becomes r.
Confined(s, items, r) ==
  /\ items \in Seq(ItemShape) /\ Len(items) = Len(item)
  /\ \A i \in DOMAIN item : items[i] = item[i] \/ (item[i].session = s /\ Follows(item[i], items[i]))
  /\ Goes(s, r)

\* What has to be seen for itself, step by step.
Sound(s, items, r) ==
  /\ \A i, j \in DOMAIN item : items[i].state = "running" /\ items[j].state = "running" => i = j
  /\ r.state = "finished" => \A i \in DOMAIN item : item[i].session = s => items[i].state # "running"
  /\ r.disc # "none" => r.state # "finished" /\ session[s].disc # "none" /\
       \A i \in DOMAIN item : item[i].session = s => items[i].state \notin {"running", "succeeded"}
  /\ r.purpose = "turn" => r.state \in {"running", "finished"}
  /\ r.purpose = "turn" /\ r.state # "finished" =>
       \E i \in DOMAIN item : item[i].session = s /\ items[i].state = "running"
  /\ r.state = "paused" => \A i \in DOMAIN item : item[i].session = s => items[i].exec = "none"
SoundReview(s, items, r) ==
  r.purpose = "followup" /\ r.outcome = "partial" =>
    \A i \in DOMAIN item : item[i].session = s =>
      /\ items[i].state \in {"succeeded", "failed", "cancelled", "skipped"}
      /\ items[i].state = "succeeded" =>
           items[i].kept \/ \E k \in DOMAIN shot : shot[k].session = s /\ i \in shot[k].included

LEMMA SessionFacts ==
  ASSUME Typed
  PROVE /\ \A s \in DOMAIN session : session[s] \in SessionShape
        /\ \A i \in DOMAIN item : item[i] \in ItemShape
        /\ \A k \in DOMAIN shot : shot[k] \in ShotShape
        /\ DOMAIN session = 1..Len(session) /\ DOMAIN item = 1..Len(item) /\ DOMAIN shot = 1..Len(shot)
        /\ Len(session) \in Nat /\ Len(item) \in Nat /\ Len(shot) \in Nat
BY DEF Typed

\* One session replaced in its list.
LEMMA OneSession ==
  ASSUME Typed, NEW s \in DOMAIN session, NEW r \in SessionShape
  PROVE /\ [session EXCEPT ![s] = r] \in Seq(SessionShape) /\ Len([session EXCEPT ![s] = r]) = Len(session)
        /\ DOMAIN [session EXCEPT ![s] = r] = DOMAIN session
        /\ [session EXCEPT ![s] = r][s] = r
        /\ \A t \in DOMAIN session : t # s => [session EXCEPT ![s] = r][t] = session[t]
BY DEF Typed

LEMMA OneItem ==
  ASSUME Typed, NEW i \in DOMAIN item, NEW y \in ItemShape
  PROVE /\ [item EXCEPT ![i] = y] \in Seq(ItemShape) /\ Len([item EXCEPT ![i] = y]) = Len(item)
        /\ [item EXCEPT ![i] = y][i] = y
        /\ \A j \in DOMAIN item : j # i => [item EXCEPT ![i] = y][j] = item[j]
BY DEF Typed

\* The new session and the new requests as they are, from a step that is confined.
LEMMA ConfinedHolds ==
  ASSUME IInv, NEW s \in DOMAIN session, NEW items, NEW r,
         Confined(s, items, r), Sound(s, items, r), SoundReview(s, items, r),
         item' = items, session' = [session EXCEPT ![s] = r], shot' = shot,
         phase' \in {"up", "down", "turns", "sessions"},
         \A k \in DOMAIN shot : shot[k].session = s => k <= r.active,
         \A i \in DOMAIN item : items[i].kept # item[i].kept => \A k \in DOMAIN shot : i \notin shot[k].included
  PROVE Typed' /\ ItemsOK' /\ Alone' /\ SessionsOK' /\ FirstAlone' /\ ShotsOK' /\ ReviewOK'
<1> USE DEF IInv
<1>0. /\ DOMAIN session = 1..Len(session) /\ DOMAIN item = 1..Len(item) /\ Len(session) \in Nat /\ Len(item) \in Nat
      /\ \A i \in DOMAIN item : item[i] \in ItemShape
  BY SessionFacts
<1>1. r \in SessionShape /\ r.purpose = session[s].purpose /\ r.active \in 0..Len(shot)
      /\ (r.state # "finished" <=> r.outcome = "none") /\ session[s].state # "finished" /\ s = Latest
  BY DEF Confined, Goes, SessionsOK
<1>2. /\ session' \in Seq(SessionShape) /\ Len(session') = Len(session) /\ DOMAIN session' = DOMAIN session
      /\ session'[s] = r /\ \A t \in DOMAIN session : t # s => session'[t] = session[t]
  BY <1>1, OneSession
<1>3. /\ item' \in Seq(ItemShape) /\ Len(item') = Len(item) /\ DOMAIN item' = DOMAIN item
      /\ \A i \in DOMAIN item : item'[i] = item[i] \/ (item[i].session = s /\ Follows(item[i], item'[i]))
  <2>1. /\ item' \in Seq(ItemShape) /\ Len(item') = Len(item)
        /\ \A i \in DOMAIN item : item'[i] = item[i] \/ (item[i].session = s /\ Follows(item[i], item'[i]))
    BY DEF Confined
  <2>2. DOMAIN item' = 1..Len(item')
    BY <2>1
  <2> QED BY <1>0, <2>1, <2>2
<1>4. \A i \in DOMAIN item : /\ Rules(item'[i]) /\ item'[i].session = item[i].session
                             /\ item'[i].kind = item[i].kind /\ item'[i].base = item[i].base
                             /\ (item[i].session # s => item'[i] = item[i])
                             /\ item[i].kept => item'[i].kept
  BY <1>3 DEF Follows, ItemsOK
<1>5. /\ \A t \in DOMAIN session : session'[t].purpose = session[t].purpose
      /\ Latest' = Latest
  BY <1>1, <1>2 DEF Latest
<1>6. ItemsOK'
  BY <1>2, <1>3, <1>4, <1>5 DEF ItemsOK
<1>7. Alone'
  <2>1. ASSUME NEW i \in DOMAIN item', item'[i].state = "running"
        PROVE item'[i].session = Latest' /\ session'[Latest'].state # "finished"
    <3>1. CASE item[i].session = s
      <4>1. r.state # "finished"
        BY <1>3, <2>1, <3>1 DEF Sound
      <4> QED BY <1>1, <1>2, <1>3, <1>4, <1>5, <3>1, <4>1
    <3>2. CASE item[i].session # s
      <4>1. item[i].state = "running" /\ i \in DOMAIN item
        BY <1>3, <1>4, <2>1, <3>2
      <4>2. item[i].session = Latest
        BY <4>1 DEF Alone
      <4> QED BY <1>1, <3>2, <4>2
    <3> QED BY <3>1, <3>2
  <2>2. \A i, j \in DOMAIN item' : item'[i].state = "running" /\ item'[j].state = "running" => i = j
    BY <1>3 DEF Sound
  <2> QED BY <2>1, <2>2 DEF Alone
<1>8. SessionsOK'
  <2> SUFFICES ASSUME NEW t \in DOMAIN session'
      PROVE /\ session'[t].state # "finished" <=> session'[t].outcome = "none"
            /\ session'[t].state # "finished" => t = Latest'
            /\ session'[t].active \in 0..Len(shot')
            /\ session'[t].disc # "none" => session'[t].state # "finished" /\ session'[t].purpose # "turn"
            /\ session'[t].purpose = "turn" => session'[t].state \in {"running", "finished"}
            /\ session'[t].purpose = "turn" /\ session'[t].state # "finished" =>
                 \E i \in DOMAIN item' : item'[i].session = t /\ item'[i].state = "running"
    BY DEF SessionsOK
  <2>1. CASE t = s
    <3>1. r.disc # "none" => r.state # "finished" /\ r.purpose # "turn"
      BY <1>1 DEF Sound, SessionsOK
    <3>2. r.purpose = "turn" /\ r.state # "finished" =>
            \E i \in DOMAIN item' : item'[i].session = s /\ item'[i].state = "running"
      BY <1>3, <1>4 DEF Sound
    <3>3. r.purpose = "turn" => r.state \in {"running", "finished"}
      BY DEF Sound
    <3> QED BY <1>1, <1>2, <1>5, <2>1, <3>1, <3>2, <3>3
  <2>2. CASE t # s
    <3>1. session'[t] = session[t] /\ session[t].state = "finished" /\ t \in DOMAIN session
      BY <1>1, <1>2, <2>2 DEF SessionsOK
    <3> QED BY <3>1 DEF SessionsOK
  <2> QED BY <2>1, <2>2
<1>9. FirstAlone'
  <2> SUFFICES ASSUME NEW t \in DOMAIN session', session'[t].disc # "none"
      PROVE /\ \A i \in DOMAIN item' : item'[i].state # "running" /\ (item'[i].session = t => item'[i].state # "succeeded")
            /\ \A k \in DOMAIN shot' : shot'[k].session # t
    BY DEF FirstAlone
  <2>1. t = s
    <3>1. ASSUME t # s PROVE FALSE
      <4>1. session'[t] = session[t] /\ session[t].state = "finished" /\ t \in DOMAIN session
        BY <1>1, <1>2, <3>1 DEF SessionsOK
      <4> QED BY <4>1 DEF SessionsOK
    <3> QED BY <3>1
  <2>2. r.disc # "none" /\ session[s].disc # "none"
    BY <1>2, <2>1 DEF Sound
  <2>3. \A k \in DOMAIN shot' : shot'[k].session # t
    BY <2>1, <2>2 DEF FirstAlone
  <2>4. ASSUME NEW i \in DOMAIN item'
        PROVE item'[i].state # "running" /\ (item'[i].session = t => item'[i].state # "succeeded")
    <3>1. CASE item[i].session = s
      BY <1>3, <1>4, <2>2, <3>1 DEF Sound
    <3>2. CASE item[i].session # s
      BY <1>3, <1>4, <2>1, <2>2, <3>2 DEF FirstAlone
    <3> QED BY <3>1, <3>2
  <2> QED BY <2>3, <2>4
<1>10. ShotsOK'
  <2> SUFFICES ASSUME NEW k \in DOMAIN shot'
      PROVE /\ shot'[k].session \in DOMAIN session' /\ k <= session'[shot'[k].session].active
            /\ \A i \in shot'[k].included :
                 /\ i \in DOMAIN item' /\ item'[i].session = shot'[k].session /\ ~item'[i].kept
                 /\ item'[i].kind \in {"redo", "reevaluate"} =>
                      item'[i].base < k /\ \A m \in DOMAIN shot' : i \in shot'[m].included => m = k
    BY DEF ShotsOK
  <2>1. shot'[k].session \in DOMAIN session' /\ k <= session'[shot'[k].session].active
    BY <1>2 DEF ShotsOK
  <2>2. ASSUME NEW i \in shot'[k].included
        PROVE /\ i \in DOMAIN item' /\ item'[i].session = shot'[k].session /\ ~item'[i].kept
              /\ item'[i].kind \in {"redo", "reevaluate"} =>
                   item'[i].base < k /\ \A m \in DOMAIN shot' : i \in shot'[m].included => m = k
    <3>1. i \in DOMAIN item /\ item[i].session = shot[k].session /\ ~item[i].kept
          /\ (item[i].kind \in {"redo", "reevaluate"} =>
                item[i].base < k /\ \A m \in DOMAIN shot : i \in shot[m].included => m = k)
      BY DEF ShotsOK
    <3>2. item'[i].kept = item[i].kept
      BY <3>1
    <3> QED BY <1>3, <1>4, <3>1, <3>2
  <2> QED BY <2>1, <2>2
<1>11. ReviewOK'
  <2> SUFFICES ASSUME NEW t \in DOMAIN session', session'[t].purpose = "followup", session'[t].outcome = "partial",
                      NEW i \in DOMAIN item', item'[i].session = t
      PROVE /\ item'[i].state \in {"succeeded", "failed", "cancelled", "skipped"}
            /\ item'[i].state = "succeeded" =>
                 item'[i].kept \/ \E k \in DOMAIN shot' : shot'[k].session = t /\ i \in shot'[k].included
    BY DEF ReviewOK
  <2>1. CASE t = s
    BY <1>2, <1>3, <1>4, <2>1 DEF SoundReview
  <2>2. CASE t # s
    <3>1. item'[i] = item[i] /\ session'[t] = session[t]
      BY <1>2, <1>3, <1>4, <2>2
    <3> QED BY <1>2, <1>3, <3>1 DEF ReviewOK
  <2> QED BY <2>1, <2>2
<1>12. Typed'
  BY <1>2, <1>3 DEF Typed
<1> QED BY <1>6, <1>7, <1>8, <1>9, <1>10, <1>11, <1>12

-----------------------------------------------------------------------------
(* What the process goes on to. *)

LEMMA TodoNothing ==
  ASSUME todo' = Nothing
  PROVE TodoOK'
BY DEF TodoOK, Nothing

LEMMA TodoDispatch ==
  ASSUME NEW s \in DOMAIN session', todo' = <<"dispatch", s>>, phase' = "up"
  PROVE TodoOK'
BY DEF TodoOK

LEMMA TodoItem ==
  ASSUME NEW what \in {"launch", "resume", "cancel", "close", "open", "save", "event"}, NEW i \in DOMAIN item',
         todo' = <<what, i>>, phase' = "up",
         what # "event" => item'[i].state = "running",
         what \in {"launch", "resume", "open", "event"} => item'[i].exec = "none",
         what \in {"launch", "resume", "open"} => session'[item'[i].session].state = "running",
         what \in {"launch", "resume", "cancel", "event"} => item'[i].kind # "turn",
         (what = "close") => /\ item'[i].kind \in {"reevaluate", "turn"} /\ item'[i].call \notin Engaged
                             /\ item'[i].kind = "turn" => item'[i].cost # "reserved",
         (what = "save") => (item'[i].kind = "turn" /\ item'[i].cost = "committed" /\ item'[i].call = "done"),
         what = "open" => item'[i].kind = "turn"
  PROVE TodoOK'
<1>1. todo'[1] = what /\ todo'[2] = i /\ todo' = <<todo'[1], todo'[2]>>
  OBVIOUS
<1> QED BY <1>1 DEF TodoOK

\* While something is left to do the process is up, and what it concerns is what TodoOK says.
LEMMA TodoFacts ==
  ASSUME IInv, NEW what, NEW i, todo = <<what, i>>, what # "none"
  PROVE /\ phase = "up"
        /\ what # "dispatch" => i \in DOMAIN item
        /\ i \in DOMAIN item =>
             /\ what \in {"launch", "resume", "cancel", "close", "open", "save"} => item[i].state = "running"
             /\ what \in {"launch", "resume", "open", "event"} => item[i].exec = "none"
             /\ what \in {"launch", "resume", "open"} => session[item[i].session].state = "running"
             /\ what \in {"launch", "resume", "cancel", "event"} => item[i].kind # "turn"
             /\ (what = "close") => /\ item[i].kind \in {"reevaluate", "turn"} /\ item[i].call \notin Engaged
                                    /\ item[i].kind = "turn" => item[i].cost # "reserved"
             /\ (what = "save") => (item[i].kind = "turn" /\ item[i].cost = "committed" /\ item[i].call = "done")
             /\ what = "open" => item[i].kind = "turn"
<1>1. todo[1] = what /\ todo[2] = i
  OBVIOUS
<1>2. phase = "up"
  BY <1>1 DEF IInv, TodoOK, Nothing, Typed
<1> QED BY <1>1, <1>2 DEF IInv, TodoOK, Nothing

\* A confined step of a process that is up and stays up.
LEMMA ConfinedStep ==
  ASSUME IInv, NEW s \in DOMAIN session, NEW items, NEW r,
         Confined(s, items, r), Sound(s, items, r), SoundReview(s, items, r),
         item' = items, session' = [session EXCEPT ![s] = r], shot' = shot, phase = "up", phase' = "up",
         r.active = session[s].active,
         \A i \in DOMAIN item : items[i].kept # item[i].kept => \A k \in DOMAIN shot : i \notin shot[k].included,
         \A i \in DOMAIN item : items[i].call \in Engaged => items[i].exec # "none" \/ todo' = <<"open", i>>,
         TodoOK'
  PROVE IInv'
<1>1. \A k \in DOMAIN shot : shot[k].session = s => k <= r.active
  BY DEF IInv, ShotsOK
<1>2. Typed' /\ ItemsOK' /\ Alone' /\ SessionsOK' /\ FirstAlone' /\ ShotsOK' /\ ReviewOK'
  BY <1>1, ConfinedHolds, ZenonT(60)
<1>3. CallsOK'
  <2>1. /\ DOMAIN item' = DOMAIN item /\ DOMAIN session' = DOMAIN session /\ session'[s] = r
        /\ \A t \in DOMAIN session : t # s => session'[t] = session[t]
    <3>1. r \in SessionShape /\ item' \in Seq(ItemShape) /\ Len(item') = Len(item)
      BY DEF Confined, Goes
    <3>2. DOMAIN item' = 1..Len(item') /\ DOMAIN item = 1..Len(item)
      BY <3>1, SessionFacts DEF IInv
    <3> QED BY <3>1, <3>2, OneSession DEF IInv
  <2>2. ASSUME NEW i \in DOMAIN item' PROVE session'[item'[i].session].state = "paused" => item'[i].exec = "none"
    <3>1. item'[i].session = item[i].session /\ item[i].session \in DOMAIN session
      BY <2>1 DEF Confined, Follows, IInv, ItemsOK
    <3>2. CASE item[i].session = s
      BY <2>1, <3>1, <3>2 DEF Sound
    <3>3. CASE item[i].session # s
      <4>1. session'[item[i].session] = session[item[i].session] /\ item'[i] = item[i]
        BY <2>1, <3>1, <3>3 DEF Confined
      <4> QED BY <2>1, <3>1, <4>1 DEF IInv, CallsOK
    <3> QED BY <3>2, <3>3
  <2> QED BY <2>1, <2>2 DEF CallsOK
<1> QED BY <1>2, <1>3 DEF IInv

\* Where what runs is, and what its session is like.
LEMMA AtWork ==
  ASSUME IInv, NEW i \in DOMAIN item, item[i].state = "running"
  PROVE /\ item[i].session \in DOMAIN session /\ session[item[i].session].state # "finished"
        /\ session[item[i].session].disc = "none" /\ session[item[i].session].outcome = "none"
        /\ item[i].session = Latest
        /\ \A j \in DOMAIN item : j # i => item[j].state # "running" /\ item[j].exec = "none" /\ item[j].call \notin Engaged
        /\ item[i].kind = "turn" <=> session[item[i].session].purpose = "turn"
        /\ item[i].run # "none" /\ Rules(item[i]) /\ item[i] \in ItemShape
<1>1. item[i].session \in DOMAIN session /\ (item[i].kind = "turn" <=> session[item[i].session].purpose = "turn")
      /\ Rules(item[i]) /\ item[i] \in ItemShape
  BY SessionFacts DEF IInv, ItemsOK
<1>2. item[i].session = Latest /\ session[Latest].state # "finished"
  BY DEF IInv, Alone
<1>3. session[item[i].session].disc = "none"
  BY <1>1 DEF IInv, FirstAlone
<1>4. session[item[i].session].outcome = "none"
  BY <1>1, <1>2 DEF IInv, SessionsOK
<1>5. ASSUME NEW j \in DOMAIN item, j # i
      PROVE item[j].state # "running" /\ item[j].exec = "none" /\ item[j].call \notin Engaged
  <2>1. item[j].state # "running"
    BY <1>5 DEF IInv, Alone
  <2>2. item[j] \in ItemShape /\ Rules(item[j])
    BY SessionFacts DEF IInv, ItemsOK
  <2>3. item[j].state = "ready" \/ item[j].state \in Settled
    BY <2>1, <2>2 DEF ItemShape, States
  <2> QED BY <2>1, <2>2, <2>3 DEF Rules
<1>6. item[i].run # "none"
  BY <1>1 DEF Rules
<1> QED BY <1>1, <1>2, <1>3, <1>4, <1>5, <1>6

LEMMA SameSession ==
  ASSUME Typed, NEW s \in DOMAIN session, session' = session
  PROVE session' = [session EXCEPT ![s] = session[s]]
<1>1. session = [t \in 1..Len(session) |-> session[t]]
  BY DEF Typed
<1> QED BY <1>1

\* Something that runs goes on running.
LEMMA Tended ==
  ASSUME IInv, NEW i \in DOMAIN item, item[i].state = "running", NEW y, Follows(item[i], y), y.state = "running",
         y.kept = item[i].kept,
         session[item[i].session].state = "paused" => y.exec = "none",
         y.call \in Engaged => y.exec # "none" \/ todo' = <<"open", i>>,
         item' = [item EXCEPT ![i] = y], UNCHANGED <<session, shot, phase>>, phase = "up", TodoOK'
  PROVE IInv'
<1> DEFINE s == item[i].session
           items == [item EXCEPT ![i] = y]
<1>1. /\ s \in DOMAIN session /\ session[s].state # "finished" /\ session[s].disc = "none"
      /\ session[s].outcome = "none"
      /\ \A j \in DOMAIN item : j # i => item[j].state # "running" /\ item[j].exec = "none" /\ item[j].call \notin Engaged
  BY AtWork
<1>2. y \in ItemShape
  BY DEF Follows
<1>3. /\ items \in Seq(ItemShape) /\ Len(items) = Len(item) /\ items[i] = y
      /\ \A j \in DOMAIN item : j # i => items[j] = item[j]
  BY <1>2, OneItem DEF IInv
<1>4. session' = [session EXCEPT ![s] = session[s]]
  BY <1>1, SameSession DEF IInv
<1>5. Goes(s, session[s])
  BY <1>1, SessionFacts DEF IInv, Goes, SessionsOK
<1>6. item' = items
  OBVIOUS
<1> HIDE DEF items
<1>7. Confined(s, items, session[s])
  BY <1>3, <1>5 DEF Confined
<1>8. Sound(s, items, session[s])
  <2>1. session[s].purpose = "turn" => session[s].state \in {"running", "finished"}
    BY <1>1 DEF IInv, SessionsOK
  <2>2. \A j \in DOMAIN item : items[j].state = "running" => j = i
    BY <1>1, <1>3
  <2>3. \E j \in DOMAIN item : item[j].session = s /\ items[j].state = "running"
    BY <1>3
  <2>4. session[s].state = "paused" => \A j \in DOMAIN item : items[j].exec = "none"
    BY <1>1, <1>3
  <2> QED BY <1>1, <2>1, <2>2, <2>3, <2>4 DEF Sound
<1>9. SoundReview(s, items, session[s])
  BY <1>1 DEF SoundReview
<1>10. \A j \in DOMAIN item : items[j].kept = item[j].kept
  BY <1>3
<1>11. \A j \in DOMAIN item : items[j].call \in Engaged => items[j].exec # "none" \/ todo' = <<"open", j>>
  BY <1>1, <1>3
<1> HIDE DEF s
<1> QED BY <1>1, <1>4, <1>6, <1>7, <1>8, <1>9, <1>10, <1>11, ConfinedStep

\* What is worked on runs, in a session that is not paused.
LEMMA Executed ==
  ASSUME IInv, NEW i \in DOMAIN item, item[i].exec # "none"
  PROVE item[i].state = "running" /\ session[item[i].session].state # "paused" /\ phase = "up"
<1>1. item[i] \in ItemShape /\ Rules(item[i])
  BY SessionFacts DEF IInv, ItemsOK
<1>2. item[i].state \notin Settled /\ item[i].state # "ready"
  BY <1>1 DEF Rules
<1>3. item[i].state = "running"
  BY <1>1, <1>2 DEF ItemShape, States
<1>4. phase = "up" /\ session[item[i].session].state # "paused"
  BY DEF IInv, CallsOK
<1> QED BY <1>3, <1>4

\* A model call is saved, sent and answered.
LEMMA CallSteps ==
  ASSUME IInv, NEW i \in DOMAIN item, Prepare(i) \/ Send(i) \/ Answer(i)
  PROVE IInv'
<1>1. /\ item[i].exec # "none" /\ todo' = Nothing /\ UNCHANGED <<session, shot, phase>>
  BY DEF Prepare, Send, Answer, Gives, Steady
<1>2. item[i].state = "running" /\ session[item[i].session].state # "paused" /\ phase = "up"
  BY <1>1, Executed
<1>3. item[i] \in ItemShape /\ Rules(item[i]) /\ item[i].calls \in 0..Allowance
  BY SessionFacts DEF IInv, ItemsOK, ItemShape
<1>4. TodoOK'
  BY <1>1, TodoNothing
<1>5. ASSUME NEW y, Follows(item[i], y), y.state = "running", y.kept = item[i].kept, y.exec # "none",
             item' = [item EXCEPT ![i] = y]
      PROVE IInv'
  BY <1>1, <1>2, <1>4, <1>5, Tended
<1>6. CASE Prepare(i)
  <2> DEFINE y == [item[i] EXCEPT !.call = "prepared"]
  <2>1. item' = [item EXCEPT ![i] = y] /\ item[i].call \in {"none", "done"} /\ item[i].calls < Allowance
    BY <1>6 DEF Prepare
  <2>2. y \in ItemShape /\ y.state = "running" /\ y.kept = item[i].kept /\ y.exec # "none"
    BY <1>1, <1>2, <1>3 DEF ItemShape
  <2>3. Rules(y)
    BY <1>2, <1>3, <2>1 DEF Rules, ItemShape, Settled, Engaged
  <2>4. Follows(item[i], y)
    BY <1>2, <1>3, <2>2, <2>3 DEF Follows, ItemShape
  <2> HIDE DEF y
  <2> QED BY <1>5, <2>1, <2>2, <2>4
<1>7. CASE Send(i)
  <2> DEFINE n == item[i].calls + 1
             y == [item[i] EXCEPT !.call = "sent", !.calls = n]
  <2>1. item' = [item EXCEPT ![i] = y] /\ item[i].call = "prepared"
    BY <1>7 DEF Send
  <2>2. n \in 0..Allowance
    BY <1>3, <2>1, FollowUpsAssumption DEF Rules
  <2> HIDE DEF n
  <2>3. y \in ItemShape /\ y.state = "running" /\ y.kept = item[i].kept /\ y.exec # "none"
    BY <1>1, <1>2, <1>3, <2>2 DEF ItemShape
  <2>4. Rules(y)
    BY <1>2, <1>3, <2>1 DEF Rules, ItemShape, Settled, Engaged
  <2>5. Follows(item[i], y)
    BY <1>2, <1>3, <2>3, <2>4 DEF Follows, ItemShape
  <2> HIDE DEF y
  <2> QED BY <1>5, <2>1, <2>3, <2>5
<1>8. CASE Answer(i)
  <2> DEFINE y == [item[i] EXCEPT !.call = "done"]
  <2>1. item' = [item EXCEPT ![i] = y] /\ item[i].call = "sent"
    BY <1>8 DEF Answer
  <2>2. y \in ItemShape /\ y.state = "running" /\ y.kept = item[i].kept /\ y.exec # "none"
    BY <1>1, <1>2, <1>3 DEF ItemShape
  <2>3. Rules(y)
    BY <1>2, <1>3, <2>1 DEF Rules, ItemShape, Settled, Engaged
  <2>4. Follows(item[i], y)
    BY <1>2, <1>3, <2>2, <2>3 DEF Follows, ItemShape
  <2> HIDE DEF y
  <2> QED BY <1>5, <2>1, <2>2, <2>4
<1> QED BY <1>6, <1>7, <1>8

\* What an attempt that ended without a result may say.
LEMMA FallenFacts ==
  ASSUME NEW c \in {"none", "prepared", "sent", "done", "unknown"}, NEW call \in Fallen(c)
  PROVE /\ call \in {"none", "done", "unknown"} /\ (c = "none" => call = "none") /\ (c = "done" => call = "done")
BY DEF Fallen

\* A run ends, a review fails or a turn is answered: what follows is in the same turn of the event loop.
LEMMA EndSteps ==
  ASSUME IInv, NEW i \in DOMAIN item,
         \/ \E how \in {"completed", "failed", "cancelled"}, found \in BOOLEAN :
              \E call \in Fallen(item[i].call) : RunEnds(i, how, call, found)
         \/ \E call \in Fallen(item[i].call) : ReevaluationFails(i, call) \/ TurnFails(i, call)
         \/ TurnAnswered(i)
  PROVE IInv'
<1>1. /\ item[i].exec # "none" /\ UNCHANGED <<session, shot, phase>>
  BY DEF RunEnds, ReevaluationFails, TurnFails, TurnAnswered, Steady
<1>2. item[i].state = "running" /\ session[item[i].session].state # "paused" /\ phase = "up"
  BY <1>1, Executed
<1>3. item[i] \in ItemShape /\ Rules(item[i])
  BY SessionFacts DEF IInv, ItemsOK
<1>4. ASSUME NEW y \in ItemShape, Rules(y), y.session = item[i].session, y.kind = item[i].kind, y.base = item[i].base,
             y.state = "running", y.kept = item[i].kept, y.call \notin Engaged, item' = [item EXCEPT ![i] = y],
             NEW what \in {"event", "close", "save"}, todo' = <<what, i>>,
             (what = "event") => (y.exec = "none" /\ y.kind # "turn"),
             (what = "close") => (y.kind \in {"reevaluate", "turn"} /\ (y.kind = "turn" => y.cost # "reserved")),
             (what = "save") => (y.kind = "turn" /\ y.cost = "committed" /\ y.call = "done")
      PROVE IInv'
  <2>1. item'[i] = y /\ i \in DOMAIN item'
    BY <1>4, OneItem, SessionFacts DEF IInv
  <2>2. TodoOK'
    BY <1>1, <1>2, <1>4, <2>1, TodoItem
  <2>3. Follows(item[i], y)
    BY <1>2, <1>4 DEF Follows
  <2> QED BY <1>1, <1>2, <1>4, <2>2, <2>3, Tended
<1>5. CASE \E how \in {"completed", "failed", "cancelled"}, found \in BOOLEAN :
             \E call \in Fallen(item[i].call) : RunEnds(i, how, call, found)
  <2>1. PICK how \in {"completed", "failed", "cancelled"}, found \in BOOLEAN :
             \E call \in Fallen(item[i].call) : RunEnds(i, how, call, found)
    BY <1>5
  <2>2. PICK call \in Fallen(item[i].call) : RunEnds(i, how, call, found)
    BY <2>1
  <2> DEFINE y == [item[i] EXCEPT !.run = how, !.exec = "none", !.call = call, !.found = found]
  <2>3. call \in {"none", "done", "unknown"}
    BY <1>3, FallenFacts DEF ItemShape
  <2>4. item' = [item EXCEPT ![i] = y] /\ todo' = <<"event", i>> /\ item[i].kind # "turn"
    BY <2>2 DEF RunEnds, Then
  <2>8. y \in ItemShape
    <3>1. how \in Runs /\ call \in {"none", "prepared", "sent", "done", "unknown"}
      BY <2>3 DEF Runs
    <3> QED BY <1>3, <3>1 DEF ItemShape
  <2>5. /\ y.session = item[i].session /\ y.kind = item[i].kind /\ y.base = item[i].base
        /\ y.state = "running" /\ y.kept = item[i].kept /\ y.call = call /\ y.exec = "none"
        /\ y.run = how /\ y.budget = item[i].budget /\ y.calls = item[i].calls /\ y.cost = item[i].cost
    BY <1>2, <1>3 DEF ItemShape
  <2> HIDE DEF y
  <2>6. Rules(y)
    BY <1>2, <1>3, <2>3, <2>5, <2>8 DEF Rules, Settled, Engaged
  <2>7. y.call \notin Engaged
    BY <2>3, <2>5 DEF Engaged
  <2> QED BY <1>4, <2>4, <2>5, <2>6, <2>7, <2>8
<1>6. CASE \E call \in Fallen(item[i].call) : ReevaluationFails(i, call)
  <2>1. PICK call \in Fallen(item[i].call) : ReevaluationFails(i, call)
    BY <1>6
  <2> DEFINE y == [item[i] EXCEPT !.call = call]
  <2>2. call \in {"none", "done", "unknown"}
    BY <1>3, FallenFacts DEF ItemShape
  <2>3. item' = [item EXCEPT ![i] = y] /\ todo' = <<"close", i>> /\ item[i].kind = "reevaluate"
    BY <2>1 DEF ReevaluationFails, Then
  <2>7. y \in ItemShape
    <3>1. call \in {"none", "prepared", "sent", "done", "unknown"}
      BY <2>2
    <3> QED BY <1>3, <3>1 DEF ItemShape
  <2>4. /\ y.session = item[i].session /\ y.kind = item[i].kind /\ y.base = item[i].base
        /\ y.state = "running" /\ y.kept = item[i].kept /\ y.call = call /\ y.exec = item[i].exec
        /\ y.run = item[i].run /\ y.budget = item[i].budget /\ y.calls = item[i].calls /\ y.cost = item[i].cost
    BY <1>2, <1>3 DEF ItemShape
  <2> HIDE DEF y
  <2>5. Rules(y)
    BY <1>2, <1>3, <2>2, <2>4 DEF Rules, Settled, Engaged
  <2>6. y.call \notin Engaged
    BY <2>2, <2>4 DEF Engaged
  <2> QED BY <1>4, <2>3, <2>4, <2>5, <2>6, <2>7
<1>7. CASE \E call \in Fallen(item[i].call) : TurnFails(i, call)
  <2>1. PICK call \in Fallen(item[i].call) : TurnFails(i, call)
    BY <1>7
  <2> DEFINE cost == IF call = "none" THEN "released" ELSE "committed"
             y == [item[i] EXCEPT !.call = call, !.cost = cost]
  <2>2. call \in {"none", "done", "unknown"} /\ cost \in {"released", "committed"}
    BY <1>3, FallenFacts DEF ItemShape
  <2>3. item' = [item EXCEPT ![i] = y] /\ todo' = <<"close", i>> /\ item[i].kind = "turn"
    BY <2>1 DEF TurnFails, Then
  <2> HIDE DEF cost
  <2>7. y \in ItemShape
    <3>1. call \in {"none", "prepared", "sent", "done", "unknown"} /\ cost \in {"none", "reserved", "committed", "released"}
      BY <2>2
    <3>2. [item[i] EXCEPT !.call = call] \in ItemShape
      BY <1>3, <3>1 DEF ItemShape
    <3>3. y = [[item[i] EXCEPT !.call = call] EXCEPT !.cost = cost]
      BY <1>3 DEF ItemShape
    <3> QED BY <3>1, <3>2, <3>3 DEF ItemShape
  <2>4. /\ y.session = item[i].session /\ y.kind = item[i].kind /\ y.base = item[i].base
        /\ y.state = "running" /\ y.kept = item[i].kept /\ y.call = call /\ y.exec = item[i].exec
        /\ y.run = item[i].run /\ y.budget = item[i].budget /\ y.calls = item[i].calls /\ y.cost = cost
    BY <1>2, <1>3 DEF ItemShape
  <2> HIDE DEF y
  <2>5. Rules(y)
    BY <1>2, <1>3, <2>2, <2>3, <2>4 DEF Rules, Settled, Engaged
  <2>6. y.call \notin Engaged
    BY <2>2, <2>4 DEF Engaged
  <2> QED BY <1>4, <2>2, <2>3, <2>4, <2>5, <2>6, <2>7
<1>8. CASE TurnAnswered(i)
  <2> DEFINE y == [item[i] EXCEPT !.call = "done", !.cost = "committed"]
  <2>1. item' = [item EXCEPT ![i] = y] /\ todo' = <<"save", i>> /\ item[i].kind = "turn"
    BY <1>8 DEF TurnAnswered, Then
  <2>2. /\ y \in ItemShape /\ y.session = item[i].session /\ y.kind = item[i].kind /\ y.base = item[i].base
        /\ y.state = "running" /\ y.kept = item[i].kept /\ y.call = "done" /\ y.exec = item[i].exec
        /\ y.run = item[i].run /\ y.budget = item[i].budget /\ y.calls = item[i].calls /\ y.cost = "committed"
    BY <1>2, <1>3, ZenonT(60) DEF ItemShape
  <2> HIDE DEF y
  <2>3. Rules(y)
    BY <1>2, <1>3, <2>1, <2>2 DEF Rules, Settled, Engaged
  <2>4. y.call \notin Engaged
    BY <2>2 DEF Engaged
  <2> QED BY <1>4, <2>1, <2>2, <2>3, <2>4
<1> QED BY <1>5, <1>6, <1>7, <1>8

\* A request keeps what its record must say.
LEMMA ItemFacts ==
  ASSUME IInv, NEW i \in DOMAIN item
  PROVE item[i] \in ItemShape /\ Rules(item[i]) /\ item[i].session \in DOMAIN session
BY SessionFacts DEF IInv, ItemsOK

LEMMA OpenTurnStep ==
  ASSUME IInv, NEW i \in DOMAIN item, OpenTurn(i)
  PROVE IInv'
<1> DEFINE y == [item[i] EXCEPT !.exec = "going", !.cost = "reserved"]
<1>1. /\ todo = <<"open", i>> /\ todo' = Nothing /\ item' = [item EXCEPT ![i] = y] /\ UNCHANGED <<session, shot, phase>>
  <2>1. item = [j \in DOMAIN item |-> item[j]] /\ item[i] \in ItemShape
    BY SessionFacts DEF IInv, Typed
  <2> QED BY <2>1 DEF OpenTurn, Steady, Done, ItemShape
<1>2. item[i].state = "running" /\ session[item[i].session].state = "running" /\ item[i].kind = "turn" /\ phase = "up"
  BY <1>1, TodoFacts
<1>3. item[i] \in ItemShape /\ Rules(item[i])
  BY ItemFacts
<1>4. /\ y \in ItemShape /\ y.session = item[i].session /\ y.kind = item[i].kind /\ y.base = item[i].base
      /\ y.state = "running" /\ y.kept = item[i].kept /\ y.call = item[i].call /\ y.exec = "going"
      /\ y.run = item[i].run /\ y.budget = item[i].budget /\ y.calls = item[i].calls /\ y.cost = "reserved"
  BY <1>2, <1>3 DEF ItemShape
<1> HIDE DEF y
<1>5. Rules(y)
  BY <1>2, <1>3, <1>4 DEF Rules, Settled
<1>6. Follows(item[i], y)
  BY <1>2, <1>4, <1>5 DEF Follows
<1>7. TodoOK'
  BY <1>1, TodoNothing
<1> QED BY <1>1, <1>2, <1>4, <1>6, <1>7, Tended

\* A run is launched, or launched again.
LEMMA LaunchStarts ==
  ASSUME IInv, NEW i \in DOMAIN item, Launch(i, TRUE)
  PROVE IInv'
<1> DEFINE y == [item[i] EXCEPT !.run = "running", !.exec = "going"]
<1>1. /\ todo \in {<<"launch", i>>, <<"resume", i>>} /\ todo' = Nothing
      /\ item' = [item EXCEPT ![i] = y] /\ UNCHANGED <<session, shot, phase>>
  <2>1. item = [j \in DOMAIN item |-> item[j]] /\ item[i] \in ItemShape
    BY SessionFacts DEF IInv, Typed
  <2> QED BY <2>1 DEF Launch, Steady, Done, ItemShape
<1>2. item[i].state = "running" /\ session[item[i].session].state = "running" /\ phase = "up"
  BY <1>1, TodoFacts
<1>3. item[i] \in ItemShape /\ Rules(item[i])
  BY ItemFacts
<1>4. /\ y \in ItemShape /\ y.session = item[i].session /\ y.kind = item[i].kind /\ y.base = item[i].base
      /\ y.state = "running" /\ y.kept = item[i].kept /\ y.call = item[i].call /\ y.exec = "going"
      /\ y.run = "running" /\ y.budget = item[i].budget /\ y.calls = item[i].calls /\ y.cost = item[i].cost
  BY <1>2, <1>3 DEF ItemShape, Runs
<1> HIDE DEF y
<1>5. Rules(y)
  BY <1>2, <1>3, <1>4 DEF Rules, Settled
<1>6. Follows(item[i], y)
  BY <1>2, <1>4, <1>5 DEF Follows
<1>7. TodoOK'
  BY <1>1, TodoNothing
<1> QED BY <1>1, <1>2, <1>4, <1>6, <1>7, Tended

\* What has no process working on it has no call under way either.
LEMMA Idle ==
  ASSUME IInv, NEW i \in DOMAIN item, item[i].exec = "none", phase = "up", todo # <<"open", i>>
  PROVE item[i].call \notin Engaged
BY DEF IInv, CallsOK

\* Only what comes next changes.
LEMMA OnlyTodo ==
  ASSUME IInv, UNCHANGED <<session, item, shot, phase>>, TodoOK',
         \A i \in DOMAIN item : todo # <<"open", i>>
  PROVE IInv'
<1>1. CallsOK'
  BY DEF IInv, CallsOK
<1>2. Typed' /\ ItemsOK' /\ Alone' /\ SessionsOK' /\ FirstAlone' /\ ShotsOK' /\ ReviewOK'
  BY DEF IInv, Typed, ItemsOK, Alone, SessionsOK, FirstAlone, ShotsOK, ReviewOK, Latest
<1> QED BY <1>1, <1>2 DEF IInv

LEMMA CancelStep ==
  ASSUME IInv, NEW i \in DOMAIN item, Cancel(i)
  PROVE IInv'
<1>1. todo = <<"cancel", i>> /\ UNCHANGED <<session, shot, phase>>
  BY DEF Cancel, Steady
<1>2. item[i].state = "running" /\ item[i].kind # "turn" /\ phase = "up"
  BY <1>1, TodoFacts
<1>3. item[i] \in ItemShape /\ Rules(item[i])
  BY ItemFacts
<1>4. \A j \in DOMAIN item : todo # <<"open", j>>
  BY <1>1
<1>5. CASE item[i].exec # "none"
  <2> DEFINE run == IF item[i].kind = "reevaluate" THEN item[i].run ELSE "cancelled"
             y == [item[i] EXCEPT !.exec = "stopped", !.run = run]
  <2>1. item' = [item EXCEPT ![i] = y] /\ todo' = Nothing
    <3>1. item = [j \in DOMAIN item |-> item[j]]
      BY DEF IInv, Typed
    <3> QED BY <1>3, <1>5, <3>1 DEF Cancel, Done, ItemShape
  <2>2. run \in Runs /\ run # "none"
    BY <1>2, <1>3 DEF ItemShape, Runs, Rules
  <2> HIDE DEF run
  <2>3. /\ y \in ItemShape /\ y.session = item[i].session /\ y.kind = item[i].kind /\ y.base = item[i].base
        /\ y.state = "running" /\ y.kept = item[i].kept /\ y.call = item[i].call /\ y.exec = "stopped"
        /\ y.run = run /\ y.budget = item[i].budget /\ y.calls = item[i].calls /\ y.cost = item[i].cost
    BY <1>2, <1>3, <2>2 DEF ItemShape
  <2> HIDE DEF y
  <2>4. Rules(y)
    BY <1>2, <1>3, <2>2, <2>3 DEF Rules, Settled
  <2>5. Follows(item[i], y)
    BY <1>2, <2>3, <2>4 DEF Follows
  <2>6. TodoOK' /\ session[item[i].session].state # "paused"
    BY <1>5, <2>1, TodoNothing, Executed
  <2> QED BY <1>1, <1>2, <2>1, <2>3, <2>5, <2>6, Tended
<1>6. CASE item[i].exec = "none" /\ i \in Active
  <2> DEFINE y == [item[i] EXCEPT !.run = "cancelled"]
  <2>1. item' = [item EXCEPT ![i] = y] /\ todo' = <<"event", i>>
    BY <1>6 DEF Cancel, Then
  <2>3. /\ y \in ItemShape /\ y.session = item[i].session /\ y.kind = item[i].kind /\ y.base = item[i].base
        /\ y.state = "running" /\ y.kept = item[i].kept /\ y.call = item[i].call /\ y.exec = item[i].exec
        /\ y.run = "cancelled" /\ y.budget = item[i].budget /\ y.calls = item[i].calls /\ y.cost = item[i].cost
    BY <1>2, <1>3 DEF ItemShape, Runs
  <2> HIDE DEF y
  <2>4. Rules(y)
    BY <1>2, <1>3, <2>3 DEF Rules, Settled
  <2>5. Follows(item[i], y)
    BY <1>2, <2>3, <2>4 DEF Follows
  <2>6. item'[i] = y /\ i \in DOMAIN item'
    BY <2>1, <2>3, OneItem, SessionFacts DEF IInv
  <2>7. TodoOK'
    BY <1>1, <1>2, <1>6, <2>1, <2>3, <2>6, TodoItem
  <2>8. y.call \notin Engaged
    BY <1>2, <1>4, <1>6, <2>3, Idle
  <2> QED BY <1>1, <1>2, <1>6, <2>1, <2>3, <2>5, <2>7, <2>8, Tended
<1>7. CASE item[i].exec = "none" /\ i \notin Active
  <2>1. item' = item /\ (todo' = <<"event", i>> \/ todo' = Nothing)
    BY <1>7 DEF Cancel, Then, Done
  <2>2. TodoOK'
    <3>1. CASE todo' = Nothing
      BY <3>1, TodoNothing
    <3>2. CASE todo' = <<"event", i>>
      BY <1>1, <1>2, <1>7, <2>1, <3>2, TodoItem
    <3> QED BY <2>1, <3>1, <3>2
  <2> QED BY <1>1, <1>4, <2>1, <2>2, OnlyTodo
<1> QED BY <1>5, <1>6, <1>7

-----------------------------------------------------------------------------
(* A request settles, and its session goes on. *)

\* Requests that wait are put aside without having used anything.
PutAside(s, state) ==
  [i \in DOMAIN item |-> IF i \in In(s, "ready") THEN [item[i] EXCEPT !.state = state, !.budget = "released"]
                                                 ELSE item[i]]

LEMMA PutAsideFacts ==
  ASSUME IInv, NEW s, NEW state \in {"failed", "skipped", "cancelled"}
  PROVE /\ PutAside(s, state) \in Seq(ItemShape) /\ Len(PutAside(s, state)) = Len(item)
        /\ \A i \in DOMAIN item : i \notin In(s, "ready") => PutAside(s, state)[i] = item[i]
        /\ \A i \in In(s, "ready") :
             /\ Follows(item[i], PutAside(s, state)[i]) /\ PutAside(s, state)[i].state = state
             /\ PutAside(s, state)[i].kept = item[i].kept
             /\ PutAside(s, state)[i].exec = "none" /\ PutAside(s, state)[i].call = "none"
<1> DEFINE y(i) == [item[i] EXCEPT !.state = state, !.budget = "released"]
<1>1. ASSUME NEW i \in DOMAIN item, item[i].state = "ready"
      PROVE y(i) \in ItemShape /\ Follows(item[i], y(i)) /\ y(i).state = state /\ y(i).kept = item[i].kept
            /\ y(i).exec = "none" /\ y(i).call = "none"
  <2>1. item[i] \in ItemShape /\ Rules(item[i])
    BY ItemFacts
  <2>2. /\ y(i).state = state /\ y(i).kept = item[i].kept /\ y(i).budget = "released" /\ y(i).session = item[i].session
        /\ y(i).kind = item[i].kind /\ y(i).base = item[i].base /\ y(i).calls = item[i].calls
        /\ y(i).call = item[i].call /\ y(i).exec = item[i].exec /\ y(i).run = item[i].run /\ y(i).cost = item[i].cost
    BY <2>1 DEF ItemShape
  <2>3. y(i) \in ItemShape
    <3>1. state \in States /\ "released" \in {"reserved", "spent", "released", "uncertain"}
      BY DEF States, Settled
    <3> QED BY <2>1, <3>1 DEF ItemShape
  <2> HIDE DEF y
  <2>4. item[i].calls = 0 /\ item[i].call = "none" /\ item[i].exec = "none" /\ item[i].run = "none" /\ item[i].cost = "none"
    BY <1>1, <2>1 DEF Rules
  <2>5. Rules(y(i))
    BY <2>1, <2>2, <2>4 DEF Rules, Settled, Engaged
  <2> QED BY <1>1, <2>2, <2>3, <2>4, <2>5 DEF Follows
<1>2. \A i \in In(s, "ready") : i \in DOMAIN item /\ item[i].state = "ready" /\ PutAside(s, state)[i] = y(i)
  BY DEF In, Items, PutAside
<1>3. \A i \in DOMAIN item : i \notin In(s, "ready") => PutAside(s, state)[i] = item[i]
  BY DEF PutAside
<1>4. DOMAIN item = 1..Len(item) /\ Len(item) \in Nat /\ \A i \in DOMAIN item : item[i] \in ItemShape
  BY SessionFacts DEF IInv
<1> HIDE DEF y
<1>5. \A i \in 1..Len(item) : PutAside(s, state)[i] \in ItemShape
  BY <1>1, <1>2, <1>3, <1>4
<1>6. PutAside(s, state) = [i \in 1..Len(item) |-> PutAside(s, state)[i]]
  BY <1>4 DEF PutAside
<1>7. PutAside(s, state) \in Seq(ItemShape) /\ Len(PutAside(s, state)) = Len(item)
  BY <1>4, <1>5, <1>6
<1> QED BY <1>1, <1>2, <1>3, <1>7

\* Where a session goes once a request of its has settled.
LEMMA OnwardFacts ==
  ASSUME NEW x \in SessionShape, x.state # "finished", x.outcome = "none", NEW left \in BOOLEAN, NEW reviewed \in BOOLEAN,
         NEW r, r = Onward(x, left, reviewed)
  PROVE /\ r \in SessionShape /\ r.purpose = x.purpose /\ r.active = x.active /\ r.disc = x.disc /\ r.limit = x.limit
        /\ r.state # "finished" <=> r.outcome = "none"
        /\ r.outcome = "partial" => reviewed /\ x.state = "running"
<1>1. CASE x.state = "stop-requested"
  BY <1>1 DEF Onward, Over, SessionShape
<1>2. CASE x.state = "pause-requested"
  BY <1>2 DEF Onward, Over, SessionShape
<1>3. CASE x.state = "running" /\ ~left /\ x.purpose = "followup" /\ reviewed
  BY <1>3 DEF Onward, Over, SessionShape
<1>4. CASE x.state = "running" /\ ~left /\ ~(x.purpose = "followup" /\ reviewed)
  BY <1>4 DEF Onward, Over, SessionShape
<1>5. CASE x.state \notin {"stop-requested", "pause-requested", "running"} \/ (x.state = "running" /\ left)
  <2>1. r = x
    BY <1>5 DEF Onward
  <2> QED BY <2>1
<1> QED BY <1>1, <1>2, <1>3, <1>4, <1>5

\* settleSessionAfterRequest, once no request of the session runs any more.
LEMMA SettleStep ==
  ASSUME IInv, NEW s \in DOMAIN session, session[s].state # "finished", session[s].disc = "none",
         session[s].purpose # "turn",
         NEW items, items \in Seq(ItemShape), Len(items) = Len(item),
         \A i \in DOMAIN item : items[i] = item[i] \/ (item[i].session = s /\ Follows(item[i], items[i])),
         \A i \in DOMAIN item : /\ items[i].state # "running" /\ items[i].kept = item[i].kept /\ Rules(items[i])
                                /\ items[i].exec = "none" /\ items[i].call \notin Engaged,
         Settle(s, items), shot' = shot, phase = "up", phase' = "up", todo' \in {Nothing, <<"dispatch", s>>}
  PROVE IInv'
<1> DEFINE ready == {i \in Items(s) : items[i].state = "ready"}
           aside(i) == [items[i] EXCEPT !.state = "cancelled", !.budget = "released"]
           after == IF session[s].state # "stop-requested" THEN items
                    ELSE [i \in DOMAIN items |-> IF i \in ready THEN aside(i) ELSE items[i]]
           reviewed == Reviewed(s, items)
           left == ready # {}
           r == Onward(session[s], left, reviewed)
<1>1. item' = after /\ session' = [session EXCEPT ![s] = r]
  BY DEF Settle
<1>2. DOMAIN items = DOMAIN item /\ DOMAIN item = 1..Len(item) /\ Len(item) \in Nat
      /\ \A i \in DOMAIN item : items[i] \in ItemShape
  BY SessionFacts DEF IInv
<1>3. session[s] \in SessionShape /\ session[s].outcome = "none"
  BY SessionFacts DEF IInv, SessionsOK
<1>4. ASSUME NEW i \in ready
      PROVE /\ aside(i) \in ItemShape /\ aside(i).state = "cancelled" /\ aside(i).exec = "none"
            /\ aside(i).call \notin Engaged /\ aside(i).kept = item[i].kept
            /\ item[i].session = s /\ Follows(item[i], aside(i))
  <2>1. i \in DOMAIN item /\ items[i] \in ItemShape /\ Rules(items[i]) /\ items[i].state = "ready" /\ item[i].session = s
    BY <1>2 DEF Items
  <2>2. /\ items[i].calls = 0 /\ items[i].call = "none" /\ items[i].exec = "none" /\ items[i].run = "none"
        /\ items[i].cost = "none" /\ items[i].kept = item[i].kept
    BY <2>1 DEF Rules
  <2>3. /\ aside(i).state = "cancelled" /\ aside(i).budget = "released" /\ aside(i).session = items[i].session
        /\ aside(i).kind = items[i].kind /\ aside(i).base = items[i].base /\ aside(i).calls = 0
        /\ aside(i).call = "none" /\ aside(i).exec = "none" /\ aside(i).run = "none" /\ aside(i).cost = "none"
        /\ aside(i).kept = items[i].kept
    BY <2>1, <2>2 DEF ItemShape
  <2>4. aside(i) \in ItemShape
    <3>1. "cancelled" \in States /\ "released" \in {"reserved", "spent", "released", "uncertain"}
      BY DEF States, Settled
    <3> QED BY <2>1, <3>1 DEF ItemShape
  <2> HIDE DEF aside
  <2>5. Rules(aside(i))
    BY <2>1, <2>3 DEF Rules, Settled, Engaged
  <2>6. items[i].session = item[i].session /\ items[i].kind = item[i].kind /\ items[i].base = item[i].base
        /\ item[i].state \in {"ready", "running"}
    BY <2>1 DEF Follows
  <2>7. Follows(item[i], aside(i))
    BY <2>2, <2>3, <2>4, <2>5, <2>6 DEF Follows
  <2> QED BY <2>1, <2>2, <2>3, <2>4, <2>7 DEF Engaged
<1> HIDE DEF aside
<1>5. /\ \A i \in DOMAIN item : i \notin ready => after[i] = items[i]
      /\ \A i \in ready : i \in DOMAIN item /\ (after[i] = items[i] \/ after[i] = aside(i))
      /\ session[s].state = "running" => after = items
      /\ DOMAIN after = 1..Len(item) /\ after = [i \in 1..Len(item) |-> after[i]]
  BY <1>2, SMTT(30) DEF Items
<1>6. /\ r \in SessionShape /\ r.purpose = session[s].purpose /\ r.active = session[s].active
      /\ r.disc = session[s].disc /\ (r.state # "finished" <=> r.outcome = "none")
      /\ r.outcome = "partial" => reviewed /\ session[s].state = "running"
  <2>1. left \in BOOLEAN /\ reviewed \in BOOLEAN
    BY DEF Reviewed
  <2> HIDE DEF left, reviewed
  <2>2. r = Onward(session[s], left, reviewed)
    OBVIOUS
  <2> HIDE DEF r
  <2> QED BY <1>3, <2>1, <2>2, OnwardFacts
<1> HIDE DEF r, after, ready, reviewed, left
<1>7. \A i \in DOMAIN item :
        /\ after[i] \in ItemShape /\ (after[i] = item[i] \/ (item[i].session = s /\ Follows(item[i], after[i])))
        /\ after[i].state # "running" /\ after[i].kept = item[i].kept /\ after[i].exec = "none"
        /\ after[i].call \notin Engaged
  BY <1>2, <1>4, <1>5, SMTT(30)
<1>8. after \in Seq(ItemShape) /\ Len(after) = Len(item)
  BY <1>2, <1>5, <1>7
<1>9. Goes(s, r)
  BY <1>6 DEF Goes, IInv, SessionsOK
<1>10. Confined(s, after, r)
  BY <1>7, <1>8, <1>9 DEF Confined
<1>11. Sound(s, after, r)
  BY <1>6, <1>7 DEF Sound
<1>12. SoundReview(s, after, r)
  <2> SUFFICES ASSUME r.outcome = "partial", NEW i \in DOMAIN item, item[i].session = s
      PROVE /\ after[i].state \in {"succeeded", "failed", "cancelled", "skipped"}
            /\ after[i].state = "succeeded" =>
                 after[i].kept \/ \E k \in DOMAIN shot : shot[k].session = s /\ i \in shot[k].included
    BY DEF SoundReview
  <2>1. reviewed /\ after[i] = items[i]
    BY <1>5, <1>6
  <2>2. /\ items[i].state \notin {"ready", "running", "unknown"}
        /\ items[i].state = "succeeded" => i \in Applied(s) \/ item[i].kept
    BY <2>1 DEF reviewed, Reviewed, Items
  <2>3. items[i].state \in States
    BY <1>2 DEF ItemShape
  <2>4. i \in Applied(s) => \E k \in DOMAIN shot : shot[k].session = s /\ i \in shot[k].included
    BY DEF Applied, Snapshots
  <2> QED BY <1>7, <2>1, <2>2, <2>3, <2>4 DEF States, Settled
<1>13. TodoOK'
  <2>1. DOMAIN session' = DOMAIN session
    BY <1>1
  <2> QED BY <2>1, TodoNothing, TodoDispatch
<1> QED BY <1>1, <1>6, <1>7, <1>10, <1>11, <1>12, <1>13, ConfinedStep

\* What runs comes to an end: its reservation says how.
LEMMA EndedFacts ==
  ASSUME IInv, NEW i \in DOMAIN item, NEW state \in Settled, NEW y, y = Ended(i, state)
  PROVE /\ y \in ItemShape /\ y.state = state /\ y.exec = "none" /\ y.session = item[i].session /\ y.kind = item[i].kind
        /\ y.base = item[i].base /\ y.kept = item[i].kept /\ y.call = item[i].call /\ y.calls = item[i].calls
        /\ y.run = item[i].run /\ y.cost = item[i].cost
        /\ y.budget \in {"spent", "released", "uncertain"} /\ (y.budget = "uncertain" <=> item[i].call = "unknown")
        /\ (y.budget = "released" => item[i].calls = 0)
<1> DEFINE b == RequestBudget(i)
<1>1. item[i] \in ItemShape
  BY ItemFacts
<1>2. item[i].calls \in Nat
  BY <1>1, FollowUpsAssumption DEF ItemShape
<1>3. /\ b \in {"spent", "released", "uncertain"} /\ (b = "uncertain" <=> item[i].call = "unknown")
      /\ (b = "released" => item[i].calls = 0)
  <2>1. CASE item[i].call = "unknown"
    BY <2>1 DEF RequestBudget
  <2>2. CASE item[i].call # "unknown" /\ item[i].calls > 0
    BY <2>2 DEF RequestBudget
  <2>3. CASE item[i].call # "unknown" /\ ~(item[i].calls > 0)
    BY <1>2, <2>3 DEF RequestBudget
  <2> QED BY <2>1, <2>2, <2>3
<1>4. y = [item[i] EXCEPT !.state = state, !.exec = "none", !.budget = b]
  BY DEF Ended
<1> HIDE DEF b
<1>5. /\ y.state = state /\ y.exec = "none" /\ y.session = item[i].session /\ y.kind = item[i].kind
      /\ y.base = item[i].base /\ y.kept = item[i].kept /\ y.call = item[i].call /\ y.calls = item[i].calls
      /\ y.run = item[i].run /\ y.cost = item[i].cost /\ y.budget = b
  BY <1>1, <1>4 DEF ItemShape
<1>6. y \in ItemShape
  <2>1. state \in States /\ b \in {"reserved", "spent", "released", "uncertain"}
        /\ "none" \in {"none", "going", "stopped"}
    BY <1>3 DEF States
  <2>2. [item[i] EXCEPT !.state = state] \in ItemShape
    BY <1>1, <2>1 DEF ItemShape
  <2>3. [[item[i] EXCEPT !.state = state] EXCEPT !.exec = "none"] \in ItemShape
    BY <2>1, <2>2 DEF ItemShape
  <2>4. [[[item[i] EXCEPT !.state = state] EXCEPT !.exec = "none"] EXCEPT !.budget = b] \in ItemShape
    BY <2>1, <2>3 DEF ItemShape
  <2>5. y = [[[item[i] EXCEPT !.state = state] EXCEPT !.exec = "none"] EXCEPT !.budget = b]
    BY <1>1, <1>4 DEF ItemShape
  <2> QED BY <2>4, <2>5
<1> QED BY <1>3, <1>5, <1>6

\* A request that ran is settled, and its session with it.
LEMMA SettledWith ==
  ASSUME IInv, NEW i \in DOMAIN item, item[i].state = "running", item[i].kind # "turn",
         NEW y, Follows(item[i], y), y.state \in Settled, y.kept = item[i].kept, y.call \notin Engaged,
         Settle(item[i].session, [item EXCEPT ![i] = y]), shot' = shot, phase = "up", phase' = "up",
         todo' \in {Nothing, <<"dispatch", item[i].session>>}
  PROVE IInv'
<1> DEFINE s == item[i].session
           items == [item EXCEPT ![i] = y]
<1>1. /\ s \in DOMAIN session /\ session[s].state # "finished" /\ session[s].disc = "none" /\ session[s].purpose # "turn"
      /\ \A j \in DOMAIN item : j # i => item[j].state # "running" /\ item[j].exec = "none" /\ item[j].call \notin Engaged
  BY AtWork
<1>2. y \in ItemShape /\ Rules(y) /\ y.exec = "none" /\ y.state # "running"
  BY DEF Follows, Rules, Settled
<1>3. /\ items \in Seq(ItemShape) /\ Len(items) = Len(item) /\ items[i] = y
      /\ \A j \in DOMAIN item : j # i => items[j] = item[j]
  BY <1>2, OneItem DEF IInv
<1>4. Settle(s, items)
  OBVIOUS
<1> HIDE DEF items
<1>5. \A j \in DOMAIN item : items[j] = item[j] \/ (item[j].session = s /\ Follows(item[j], items[j]))
  BY <1>3
<1>6. \A j \in DOMAIN item : /\ items[j].state # "running" /\ items[j].kept = item[j].kept /\ Rules(items[j])
                             /\ items[j].exec = "none" /\ items[j].call \notin Engaged
  BY <1>1, <1>2, <1>3, ItemFacts
<1>7. todo' \in {Nothing, <<"dispatch", s>>}
  OBVIOUS
<1> HIDE DEF s
<1> QED BY <1>1, <1>3, <1>4, <1>5, <1>6, <1>7, SettleStep

\* failBeforeDispatch
LEMMA LaunchFails ==
  ASSUME IInv, NEW i \in DOMAIN item, Launch(i, FALSE)
  PROVE IInv'
<1> DEFINE z == Ended(i, "failed")
           y == [z EXCEPT !.run = "failed"]
<1>1. /\ todo \in {<<"launch", i>>, <<"resume", i>>} /\ UNCHANGED <<shot, phase>>
      /\ Settle(item[i].session, [item EXCEPT ![i] = y]) /\ todo' \in {Nothing, <<"dispatch", item[i].session>>}
  BY DEF Launch, Steady, Done, Then
<1>2. item[i].state = "running" /\ item[i].kind # "turn" /\ item[i].exec = "none" /\ phase = "up"
  BY <1>1, TodoFacts
<1>3. item[i].call \notin Engaged
  BY <1>1, <1>2, Idle
<1>4. /\ z \in ItemShape /\ z.state = "failed" /\ z.exec = "none" /\ z.session = item[i].session /\ z.kind = item[i].kind
      /\ z.base = item[i].base /\ z.kept = item[i].kept /\ z.call = item[i].call /\ z.calls = item[i].calls
      /\ z.run = item[i].run /\ z.cost = item[i].cost
      /\ z.budget \in {"spent", "released", "uncertain"} /\ (z.budget = "uncertain" <=> item[i].call = "unknown")
      /\ (z.budget = "released" => item[i].calls = 0)
  <2>1. "failed" \in Settled
    BY DEF Settled
  <2> QED BY <2>1, EndedFacts
<1> HIDE DEF z
<1>5. /\ y \in ItemShape /\ y.state = "failed" /\ y.exec = "none" /\ y.session = z.session /\ y.kind = z.kind
      /\ y.base = z.base /\ y.kept = z.kept /\ y.call = z.call /\ y.calls = z.calls
      /\ y.run = "failed" /\ y.cost = z.cost /\ y.budget = z.budget
  BY <1>4 DEF ItemShape, Runs
<1> HIDE DEF y
<1>6. Rules(item[i])
  BY ItemFacts
<1>7. Rules(y)
  BY <1>2, <1>3, <1>4, <1>5, <1>6 DEF Rules, Settled, Engaged
<1>8. Follows(item[i], y)
  BY <1>2, <1>4, <1>5, <1>7 DEF Follows
<1>9. y.state \in Settled
  BY <1>5 DEF Settled
<1> QED BY <1>1, <1>2, <1>3, <1>4, <1>5, <1>8, <1>9, SettledWith

\* What runs comes to an end, and its session with it.
LEMMA EndsOver ==
  ASSUME IInv, NEW i \in DOMAIN item, item[i].state = "running",
         NEW y, Follows(item[i], y), y.state # "running", y.exec = "none", y.kept = item[i].kept, y.call \notin Engaged,
         NEW outcome \in {"target-met", "failed", "needs-attention"},
         NEW r, r = Over(session[item[i].session], outcome),
         item' = [item EXCEPT ![i] = y], session' = [session EXCEPT ![item[i].session] = r],
         shot' = shot, phase = "up", phase' = "up", todo' = Nothing
  PROVE IInv'
<1> DEFINE s == item[i].session
           items == [item EXCEPT ![i] = y]
<1>1. /\ s \in DOMAIN session /\ session[s].state # "finished" /\ session[s].disc = "none"
      /\ \A j \in DOMAIN item : j # i => item[j].state # "running" /\ item[j].exec = "none" /\ item[j].call \notin Engaged
  BY AtWork
<1>2. y \in ItemShape
  BY DEF Follows
<1>3. /\ items \in Seq(ItemShape) /\ Len(items) = Len(item) /\ items[i] = y
      /\ \A j \in DOMAIN item : j # i => items[j] = item[j]
  BY <1>2, OneItem DEF IInv
<1>4. item' = items /\ session' = [session EXCEPT ![s] = r]
  OBVIOUS
<1> HIDE DEF items
<1>5. /\ r \in SessionShape /\ r.state = "finished" /\ r.outcome = outcome /\ r.purpose = session[s].purpose
      /\ r.active = session[s].active /\ r.disc = "none"
  <2>1. session[s] \in SessionShape
    BY <1>1, SessionFacts DEF IInv
  <2> QED BY <1>1, <2>1 DEF Over, SessionShape
<1>6. Goes(s, r)
  BY <1>1, <1>5 DEF Goes, IInv, SessionsOK
<1>7. Confined(s, items, r)
  BY <1>3, <1>6 DEF Confined
<1>8. \A j \in DOMAIN item : /\ items[j].state # "running" /\ items[j].kept = item[j].kept
                             /\ items[j].exec = "none" /\ items[j].call \notin Engaged
  BY <1>1, <1>3
<1>9. Sound(s, items, r)
  BY <1>5, <1>8 DEF Sound
<1>10. SoundReview(s, items, r)
  BY <1>5 DEF SoundReview
<1>11. TodoOK'
  BY TodoNothing
<1> HIDE DEF s
<1> QED BY <1>1, <1>4, <1>5, <1>7, <1>8, <1>9, <1>10, <1>11, ConfinedStep

\* Its session finds that a request has ended; an answer may have been lost.
LEMMA EventStep ==
  ASSUME IInv, NEW i \in DOMAIN item, Event(i)
  PROVE IInv'
<1> DEFINE s == item[i].session
<1>1. todo = <<"event", i>> /\ UNCHANGED <<shot, phase>>
  BY DEF Event, Steady
<1>2. item[i].kind # "turn" /\ item[i].exec = "none" /\ phase = "up" /\ item[i] \in ItemShape /\ Rules(item[i])
  BY <1>1, TodoFacts, ItemFacts
<1>3. CASE ~Open(s) \/ ~Running(i) \/ i \in Active
  <2>1. UNCHANGED <<session, item>> /\ todo' = Nothing
    BY <1>3 DEF Event, Done
  <2>2. \A j \in DOMAIN item : todo # <<"open", j>>
    BY <1>1
  <2> QED BY <1>1, <2>1, <2>2, TodoNothing, OnlyTodo
<1>4. CASE Open(s) /\ Running(i) /\ i \notin Active /\ item[i].call = "unknown"
  <2> DEFINE y == Ended(i, "unknown")
             items == [item EXCEPT ![i] = y]
             r == Over(session[s], "needs-attention")
  <2>1. item' = items /\ session' = [session EXCEPT ![s] = r] /\ todo' = Nothing
    BY <1>4 DEF Event, Done
  <2>2. /\ y \in ItemShape /\ y.state = "unknown" /\ y.exec = "none" /\ y.session = item[i].session /\ y.kind = item[i].kind
        /\ y.base = item[i].base /\ y.kept = item[i].kept /\ y.call = item[i].call /\ y.calls = item[i].calls
        /\ y.run = item[i].run /\ y.cost = item[i].cost
        /\ y.budget \in {"spent", "released", "uncertain"} /\ (y.budget = "uncertain" <=> item[i].call = "unknown")
        /\ (y.budget = "released" => item[i].calls = 0)
    <3>1. "unknown" \in Settled
      BY DEF Settled
    <3> QED BY <3>1, EndedFacts
  <2> HIDE DEF y
  <2>3. Rules(y)
    BY <1>2, <1>4, <2>2 DEF Rules, Settled, Engaged, Active
  <2>4. Follows(item[i], y)
    BY <1>4, <2>2, <2>3 DEF Follows, Running
  <2> HIDE DEF r
  <2>5. r = Over(session[s], "needs-attention")
    BY DEF r
  <2> QED BY <1>1, <1>2, <1>4, <2>1, <2>2, <2>4, <2>5, EndsOver DEF Running, Engaged
<1>5. CASE Open(s) /\ Running(i) /\ i \notin Active /\ item[i].call # "unknown"
  <2> DEFINE how == IF item[i].run = "completed" THEN "succeeded" ELSE item[i].run
             y == Ended(i, how)
  <2>1. Settle(s, [item EXCEPT ![i] = y]) /\ todo' = <<"dispatch", s>>
    BY <1>5 DEF Event, Then
  <2>2. item[i].run \in {"completed", "failed", "cancelled"}
    <3>1. item[i].run \notin {"none", "queued", "running"}
      BY <1>2, <1>5 DEF Active, Running, Rules
    <3> QED BY <1>2, <3>1 DEF ItemShape, Runs
  <2>3. how \in {"succeeded", "failed", "cancelled"} /\ (how = "succeeded" => item[i].run = "completed")
    BY <2>2
  <2> HIDE DEF how
  <2>4. /\ y \in ItemShape /\ y.state = how /\ y.exec = "none" /\ y.session = item[i].session /\ y.kind = item[i].kind
        /\ y.base = item[i].base /\ y.kept = item[i].kept /\ y.call = item[i].call /\ y.calls = item[i].calls
        /\ y.run = item[i].run /\ y.cost = item[i].cost
        /\ y.budget \in {"spent", "released", "uncertain"} /\ (y.budget = "uncertain" <=> item[i].call = "unknown")
        /\ (y.budget = "released" => item[i].calls = 0)
    <3>1. how \in Settled
      BY <2>3 DEF Settled
    <3> QED BY <3>1, EndedFacts
  <2> HIDE DEF y
  <2>5. item[i].call \notin Engaged
    BY <1>1, <1>2, Idle
  <2>6. Rules(y)
    BY <1>2, <1>5, <2>2, <2>3, <2>4, <2>5 DEF Rules, Settled, Engaged
  <2>7. Follows(item[i], y)
    BY <1>5, <2>4, <2>6 DEF Follows, Running
  <2>8. y.state \in Settled
    BY <2>3, <2>4 DEF Settled
  <2> QED BY <1>1, <1>2, <1>5, <2>1, <2>4, <2>5, <2>7, <2>8, SettledWith DEF Running
<1> QED BY <1>3, <1>4, <1>5

\* executeReevaluation: its answer is saved.
LEMMA ReevaluatedStep ==
  ASSUME IInv, NEW i \in DOMAIN item, Reevaluated(i)
  PROVE IInv'
<1> DEFINE z == Ended(i, "succeeded")
           y == [z EXCEPT !.call = "done", !.run = "completed"]
<1>1. /\ item[i].exec = "going" /\ item[i].kind = "reevaluate" /\ item[i].call = "sent" /\ UNCHANGED <<shot, phase>>
      /\ Settle(item[i].session, [item EXCEPT ![i] = y]) /\ todo' = <<"dispatch", item[i].session>>
  BY DEF Reevaluated, Steady, Then
<1>2. item[i].state = "running" /\ phase = "up" /\ item[i] \in ItemShape /\ Rules(item[i])
  BY <1>1, Executed, ItemFacts
<1>3. /\ z \in ItemShape /\ z.state = "succeeded" /\ z.exec = "none" /\ z.session = item[i].session /\ z.kind = item[i].kind
      /\ z.base = item[i].base /\ z.kept = item[i].kept /\ z.call = item[i].call /\ z.calls = item[i].calls
      /\ z.run = item[i].run /\ z.cost = item[i].cost
      /\ z.budget \in {"spent", "released", "uncertain"} /\ (z.budget = "uncertain" <=> item[i].call = "unknown")
      /\ (z.budget = "released" => item[i].calls = 0)
  <2>1. "succeeded" \in Settled
    BY DEF Settled
  <2> QED BY <2>1, EndedFacts
<1> HIDE DEF z
<1>4. /\ y \in ItemShape /\ y.state = "succeeded" /\ y.exec = "none" /\ y.session = z.session /\ y.kind = z.kind
      /\ y.base = z.base /\ y.kept = z.kept /\ y.call = "done" /\ y.calls = z.calls
      /\ y.run = "completed" /\ y.cost = z.cost /\ y.budget = z.budget
  BY <1>3 DEF ItemShape, Runs
<1> HIDE DEF y
<1>5. Rules(y)
  BY <1>1, <1>2, <1>3, <1>4 DEF Rules, Settled, Engaged
<1>6. Follows(item[i], y)
  BY <1>2, <1>3, <1>4, <1>5 DEF Follows
<1>7. y.state \in Settled /\ y.call \notin Engaged
  BY <1>4 DEF Settled, Engaged
<1> QED BY <1>1, <1>2, <1>3, <1>4, <1>6, <1>7, SettledWith

LEMMA CloseReevaluationStep ==
  ASSUME IInv, NEW i \in DOMAIN item, CloseReevaluation(i)
  PROVE IInv'
<1> DEFINE how == IF item[i].exec = "stopped" \/ session[item[i].session].state = "stop-requested"
                  THEN "cancelled" ELSE "failed"
           z == Ended(i, how)
           y == [z EXCEPT !.run = how]
<1>1. /\ todo = <<"close", i>> /\ item[i].kind = "reevaluate" /\ UNCHANGED <<shot, phase>>
      /\ Settle(item[i].session, [item EXCEPT ![i] = y]) /\ todo' = <<"dispatch", item[i].session>>
  BY DEF CloseReevaluation, Steady, Then
<1>2. item[i].state = "running" /\ phase = "up" /\ item[i] \in ItemShape /\ Rules(item[i]) /\ item[i].call \notin Engaged
  BY <1>1, TodoFacts, ItemFacts
<1>3. how \in {"failed", "cancelled"}
  OBVIOUS
<1> HIDE DEF how
<1>4. /\ z \in ItemShape /\ z.state = how /\ z.exec = "none" /\ z.session = item[i].session /\ z.kind = item[i].kind
      /\ z.base = item[i].base /\ z.kept = item[i].kept /\ z.call = item[i].call /\ z.calls = item[i].calls
      /\ z.run = item[i].run /\ z.cost = item[i].cost
      /\ z.budget \in {"spent", "released", "uncertain"} /\ (z.budget = "uncertain" <=> item[i].call = "unknown")
      /\ (z.budget = "released" => item[i].calls = 0)
  <2>1. how \in Settled
    BY <1>3 DEF Settled
  <2> QED BY <2>1, EndedFacts
<1> HIDE DEF z
<1>5. /\ y \in ItemShape /\ y.state = how /\ y.exec = "none" /\ y.session = z.session /\ y.kind = z.kind
      /\ y.base = z.base /\ y.kept = z.kept /\ y.call = z.call /\ y.calls = z.calls
      /\ y.run = how /\ y.cost = z.cost /\ y.budget = z.budget
  <2>1. how \in Runs
    BY <1>3 DEF Runs
  <2> QED BY <1>4, <2>1 DEF ItemShape
<1> HIDE DEF y
<1>6. Rules(y)
  BY <1>1, <1>2, <1>3, <1>4, <1>5 DEF Rules, Settled, Engaged
<1>7. Follows(item[i], y)
  BY <1>2, <1>4, <1>5, <1>6 DEF Follows
<1>8. y.state \in Settled
  BY <1>3, <1>5 DEF Settled
<1> QED BY <1>1, <1>2, <1>4, <1>5, <1>7, <1>8, SettledWith

\* The answer to a turn is saved, or put down as one whose completion is unknown.
LEMMA SaveTurnStep ==
  ASSUME IInv, NEW i \in DOMAIN item, NEW saved \in BOOLEAN, SaveTurn(i, saved)
  PROVE IInv'
<1>1. todo = <<"save", i>> /\ todo' = Nothing /\ UNCHANGED <<shot, phase>>
  BY DEF SaveTurn, Steady, Done
<1>2. item[i].state = "running" /\ item[i].kind = "turn" /\ item[i].cost = "committed" /\ item[i].call = "done" /\ phase = "up"
  BY <1>1, TodoFacts
<1>3. item[i] \in ItemShape /\ Rules(item[i])
  BY ItemFacts
<1>4. CASE saved
  <2> DEFINE z == Ended(i, "succeeded")
             y == [z EXCEPT !.run = "completed"]
  <2>1. /\ item' = [item EXCEPT ![i] = y]
        /\ session' = [session EXCEPT ![item[i].session] = Over(session[item[i].session], "target-met")]
    BY <1>4 DEF SaveTurn, TurnOver
  <2>2. /\ z \in ItemShape /\ z.state = "succeeded" /\ z.exec = "none" /\ z.session = item[i].session /\ z.kind = item[i].kind
        /\ z.base = item[i].base /\ z.kept = item[i].kept /\ z.call = item[i].call /\ z.calls = item[i].calls
        /\ z.run = item[i].run /\ z.cost = item[i].cost
        /\ z.budget \in {"spent", "released", "uncertain"} /\ (z.budget = "uncertain" <=> item[i].call = "unknown")
        /\ (z.budget = "released" => item[i].calls = 0)
    <3>1. "succeeded" \in Settled
      BY DEF Settled
    <3> QED BY <3>1, EndedFacts
  <2> HIDE DEF z
  <2>3. /\ y \in ItemShape /\ y.state = "succeeded" /\ y.exec = "none" /\ y.session = z.session /\ y.kind = z.kind
        /\ y.base = z.base /\ y.kept = z.kept /\ y.call = z.call /\ y.calls = z.calls
        /\ y.run = "completed" /\ y.cost = z.cost /\ y.budget = z.budget
    BY <2>2 DEF ItemShape, Runs
  <2> HIDE DEF y
  <2>4. Rules(y)
    BY <1>2, <1>3, <2>2, <2>3 DEF Rules, Settled, Engaged
  <2>5. Follows(item[i], y)
    BY <1>2, <2>2, <2>3, <2>4 DEF Follows
  <2>6. y.call \notin Engaged
    BY <1>2, <2>2, <2>3 DEF Engaged
  <2> DEFINE r == Over(session[item[i].session], "target-met")
  <2>7. r = Over(session[item[i].session], "target-met")
    OBVIOUS
  <2>8. session' = [session EXCEPT ![item[i].session] = r]
    BY <2>1
  <2> HIDE DEF r
  <2> QED BY <1>1, <1>2, <2>1, <2>2, <2>3, <2>5, <2>6, <2>7, <2>8, EndsOver
<1>5. CASE ~saved
  <2> DEFINE y == [item[i] EXCEPT !.state = "unknown", !.exec = "none", !.budget = "uncertain",
                                  !.call = "unknown", !.run = "failed"]
  <2>1. /\ item' = [item EXCEPT ![i] = y]
        /\ session' = [session EXCEPT ![item[i].session] = Over(session[item[i].session], "needs-attention")]
    BY <1>5 DEF SaveTurn, TurnOver
  <2>2. /\ y.state = "unknown" /\ y.exec = "none" /\ y.session = item[i].session /\ y.kind = item[i].kind
        /\ y.base = item[i].base /\ y.kept = item[i].kept /\ y.call = "unknown" /\ y.calls = item[i].calls
        /\ y.run = "failed" /\ y.cost = item[i].cost /\ y.budget = "uncertain"
    BY <1>3 DEF ItemShape
  <2>3. y \in ItemShape
    <3>1. "unknown" \in States /\ "failed" \in Runs
      BY DEF States, Settled, Runs
    <3> QED BY <1>3, <3>1 DEF ItemShape
  <2> HIDE DEF y
  <2>4. Rules(y)
    BY <1>2, <1>3, <2>2 DEF Rules, Settled, Engaged
  <2>5. Follows(item[i], y)
    BY <1>2, <2>2, <2>3, <2>4 DEF Follows
  <2>6. y.call \notin Engaged
    BY <2>2 DEF Engaged
  <2> DEFINE r == Over(session[item[i].session], "needs-attention")
  <2>7. r = Over(session[item[i].session], "needs-attention")
    OBVIOUS
  <2>8. session' = [session EXCEPT ![item[i].session] = r]
    BY <2>1
  <2> HIDE DEF r
  <2> QED BY <1>1, <1>2, <2>1, <2>2, <2>5, <2>6, <2>7, <2>8, EndsOver
<1> QED BY <1>4, <1>5

\* finishFailure
LEMMA CloseTurnStep ==
  ASSUME IInv, NEW i \in DOMAIN item, CloseTurn(i)
  PROVE IInv'
<1> DEFINE unknown == item[i].call = "unknown"
           how == IF unknown THEN "unknown" ELSE "failed"
           outcome == IF unknown THEN "needs-attention" ELSE "failed"
           z == Ended(i, how)
           y == [z EXCEPT !.run = "failed"]
           r == Over(session[item[i].session], outcome)
<1>1. /\ todo = <<"close", i>> /\ todo' = Nothing /\ UNCHANGED <<shot, phase>> /\ item[i].kind = "turn"
      /\ item' = [item EXCEPT ![i] = y] /\ session' = [session EXCEPT ![item[i].session] = r]
  BY DEF CloseTurn, TurnOver, Steady, Done
<1>2. /\ item[i].state = "running" /\ phase = "up" /\ item[i] \in ItemShape /\ Rules(item[i])
      /\ item[i].call \notin Engaged /\ item[i].cost # "reserved"
  BY <1>1, TodoFacts, ItemFacts
<1>3. how \in {"failed", "unknown"} /\ outcome \in {"target-met", "failed", "needs-attention"}
  OBVIOUS
<1>4. r = Over(session[item[i].session], outcome)
  OBVIOUS
<1> HIDE DEF how, outcome, r
<1>5. /\ z \in ItemShape /\ z.state = how /\ z.exec = "none" /\ z.session = item[i].session /\ z.kind = item[i].kind
      /\ z.base = item[i].base /\ z.kept = item[i].kept /\ z.call = item[i].call /\ z.calls = item[i].calls
      /\ z.run = item[i].run /\ z.cost = item[i].cost
      /\ z.budget \in {"spent", "released", "uncertain"} /\ (z.budget = "uncertain" <=> item[i].call = "unknown")
      /\ (z.budget = "released" => item[i].calls = 0)
  <2>1. how \in Settled
    BY <1>3 DEF Settled
  <2> QED BY <2>1, EndedFacts
<1> HIDE DEF z
<1>6. /\ y \in ItemShape /\ y.state = how /\ y.exec = "none" /\ y.session = z.session /\ y.kind = z.kind
      /\ y.base = z.base /\ y.kept = z.kept /\ y.call = z.call /\ y.calls = z.calls
      /\ y.run = "failed" /\ y.cost = z.cost /\ y.budget = z.budget
  BY <1>5 DEF ItemShape, Runs
<1> HIDE DEF y
<1>7. Rules(y)
  BY <1>1, <1>2, <1>3, <1>5, <1>6 DEF Rules, Settled, Engaged
<1>8. Follows(item[i], y)
  BY <1>2, <1>5, <1>6, <1>7 DEF Follows
<1>9. y.state # "running"
  BY <1>3, <1>6
<1> QED BY <1>1, <1>2, <1>3, <1>4, <1>5, <1>6, <1>8, <1>9, EndsOver

-----------------------------------------------------------------------------
(* Commands that change a session alone. *)

LEMMA SessionOnly ==
  ASSUME IInv, NEW s \in DOMAIN session, session[s].purpose # "turn", phase = "up",
         NEW r, Goes(s, r), r.active = session[s].active, r.outcome # "partial",
         r.disc # "none" => session[s].disc # "none" /\ r.state # "finished",
         r.state = "finished" => \A i \in DOMAIN item : item[i].session = s => item[i].state # "running",
         r.state = "paused" => session[s].state = "paused",
         \A i \in DOMAIN item : todo # <<"open", i>>,
         session' = [session EXCEPT ![s] = r], UNCHANGED <<item, shot, phase>>, TodoOK'
  PROVE IInv'
<1>1. \A i \in DOMAIN item : item[i].call \in Engaged => item[i].exec # "none"
  BY DEF IInv, CallsOK
<1>2. Confined(s, item, r)
  BY DEF Confined, IInv, Typed
<1>3. Sound(s, item, r)
  <2>1. \A i, j \in DOMAIN item : item[i].state = "running" /\ item[j].state = "running" => i = j
    BY DEF IInv, Alone
  <2>2. r.purpose # "turn"
    BY DEF Goes
  <2>3. r.disc # "none" => \A i \in DOMAIN item : item[i].session = s => item[i].state \notin {"running", "succeeded"}
    BY DEF IInv, FirstAlone
  <2>4. r.state = "paused" => \A i \in DOMAIN item : item[i].session = s => item[i].exec = "none"
    BY DEF IInv, CallsOK
  <2> QED BY <2>1, <2>2, <2>3, <2>4 DEF Sound
<1>4. SoundReview(s, item, r)
  BY DEF SoundReview
<1> QED BY <1>1, <1>2, <1>3, <1>4, ConfinedStep

\* An open session that holds no conversation, and what its record must say.
LEMMA OpenFacts ==
  ASSUME IInv, NEW s \in DOMAIN session, session[s].state # "finished"
  PROVE /\ session[s] \in SessionShape /\ session[s].outcome = "none" /\ s = Latest
        /\ session[s].active \in 0..Len(shot)
BY SessionFacts DEF IInv, SessionsOK

LEMMA PauseStep ==
  ASSUME IInv, NEW s \in DOMAIN session, Pause(s)
  PROVE IInv'
<1> DEFINE r == [session[s] EXCEPT !.state = "pause-requested"]
<1>1. /\ todo = Nothing /\ todo' = Nothing /\ phase = "up" /\ session[s].purpose # "turn" /\ session[s].state = "running"
      /\ session' = [session EXCEPT ![s] = r] /\ UNCHANGED <<item, shot, phase>>
  BY DEF Pause, Gives, Steady
<1>2. session[s] \in SessionShape /\ session[s].outcome = "none" /\ session[s].active \in 0..Len(shot)
  BY <1>1, OpenFacts
<1>3. /\ r \in SessionShape /\ r.state = "pause-requested" /\ r.outcome = "none" /\ r.active = session[s].active
      /\ r.purpose = session[s].purpose /\ r.disc = session[s].disc
  BY <1>2 DEF SessionShape
<1> HIDE DEF r
<1>4. Goes(s, r)
  BY <1>1, <1>2, <1>3 DEF Goes
<1>5. TodoOK' /\ \A i \in DOMAIN item : todo # <<"open", i>>
  BY <1>1, TodoNothing DEF Nothing
<1> QED BY <1>1, <1>3, <1>4, <1>5, SessionOnly

LEMMA ExtendStep ==
  ASSUME IInv, NEW s \in DOMAIN session, Extend(s)
  PROVE IInv'
<1> DEFINE r == [session[s] EXCEPT !.limit = session[s].limit + Allowance]
<1>1. /\ todo = Nothing /\ todo' = Nothing /\ phase = "up" /\ session[s].purpose # "turn" /\ session[s].state # "finished"
      /\ session' = [session EXCEPT ![s] = r] /\ UNCHANGED <<item, shot, phase>>
  BY DEF Extend, Gives, Open
<1>2. session[s] \in SessionShape /\ session[s].outcome = "none" /\ session[s].active \in 0..Len(shot)
  BY <1>1, OpenFacts
<1>3. /\ r \in SessionShape /\ r.state = session[s].state /\ r.outcome = "none" /\ r.active = session[s].active
      /\ r.purpose = session[s].purpose /\ r.disc = session[s].disc
  <2>1. session[s].limit + Allowance \in Nat
    BY <1>2, FollowUpsAssumption DEF SessionShape
  <2> QED BY <1>2, <2>1 DEF SessionShape
<1> HIDE DEF r
<1>4. Goes(s, r)
  BY <1>1, <1>2, <1>3 DEF Goes
<1>5. TodoOK' /\ \A i \in DOMAIN item : todo # <<"open", i>>
  BY <1>1, TodoNothing DEF Nothing
<1> QED BY <1>1, <1>3, <1>4, <1>5, SessionOnly

\* Whatever does not run has nobody working on it.
LEMMA AtRest ==
  ASSUME IInv, NEW i \in DOMAIN item, item[i].state # "running"
  PROVE item[i].exec = "none" /\ item[i].call \notin Engaged
<1>1. item[i] \in ItemShape /\ Rules(item[i])
  BY ItemFacts
<1>2. item[i].state = "ready" \/ item[i].state \in Settled
  BY <1>1 DEF ItemShape, States
<1> QED BY <1>1, <1>2 DEF Rules

\* What runs belongs to the session that is open.
LEMMA RunsIn ==
  ASSUME IInv, NEW s \in DOMAIN session, session[s].state # "finished", In(s, "running") = {}
  PROVE \A i \in DOMAIN item : item[i].state # "running" /\ item[i].exec = "none" /\ item[i].call \notin Engaged
<1> SUFFICES ASSUME NEW i \in DOMAIN item
             PROVE item[i].state # "running" /\ item[i].exec = "none" /\ item[i].call \notin Engaged
  OBVIOUS
<1>1. s = Latest
  BY OpenFacts
<1>2. item[i].state # "running"
  BY <1>1 DEF In, Items, IInv, Alone
<1> QED BY <1>2, AtRest

LEMMA FirstIn ==
  ASSUME NEW set \in SUBSET Nat, set # {}
  PROVE First(set) \in set
<1>1. IsWellFoundedOn(OpToRel(<, Nat), Nat)
  BY NatLessThanWellFounded
<1>2. PICK m \in set : \A n \in set : ~(<<n, m>> \in OpToRel(<, Nat))
  BY <1>1, WFMin
<1>3. \A n \in set : m <= n
  <2>1. \A n \in set : ~(n < m)
    BY <1>2 DEF OpToRel
  <2> QED BY <2>1
<1> QED BY <1>3 DEF First

\* Waiting requests are put aside and their session ends.
LEMMA AsideOver ==
  ASSUME IInv, NEW s \in DOMAIN session, session[s].state # "finished", In(s, "running") = {},
         NEW r \in SessionShape, r.purpose = session[s].purpose, r.active = session[s].active,
         r.state = "finished", r.outcome \notin {"none", "partial"}, r.disc = "none",
         item' = SkipReady(s), session' = [session EXCEPT ![s] = r],
         shot' = shot, phase = "up", phase' = "up", todo' = Nothing
  PROVE IInv'
<1> DEFINE items == PutAside(s, "skipped")
<1>1. item' = items
  BY DEF SkipReady, PutAside
<1>2. /\ items \in Seq(ItemShape) /\ Len(items) = Len(item)
      /\ \A i \in DOMAIN item : i \notin In(s, "ready") => items[i] = item[i]
      /\ \A i \in In(s, "ready") : Follows(item[i], items[i]) /\ items[i].state = "skipped"
           /\ items[i].kept = item[i].kept /\ items[i].exec = "none" /\ items[i].call = "none"
  BY PutAsideFacts
<1> HIDE DEF items
<1>3. \A i \in DOMAIN item : item[i].state # "running" /\ item[i].exec = "none" /\ item[i].call \notin Engaged
  BY RunsIn
<1>4. \A i \in In(s, "ready") : item[i].session = s
  BY DEF In, Items
<1>5. Goes(s, r)
  BY OpenFacts DEF Goes
<1>6. Confined(s, items, r)
  BY <1>2, <1>4, <1>5 DEF Confined
<1>7. \A i \in DOMAIN item : /\ items[i].state # "running" /\ items[i].kept = item[i].kept
                             /\ items[i].exec = "none" /\ items[i].call \notin Engaged
  BY <1>2, <1>3 DEF Engaged
<1>8. Sound(s, items, r)
  BY <1>7 DEF Sound
<1>9. SoundReview(s, items, r)
  BY DEF SoundReview
<1>10. TodoOK'
  BY TodoNothing
<1> QED BY <1>1, <1>6, <1>7, <1>8, <1>9, <1>10, ConfinedStep

LEMMA StopStep ==
  ASSUME IInv, NEW s \in DOMAIN session, Stop(s)
  PROVE IInv'
<1>1. /\ todo = Nothing /\ phase = "up" /\ session[s].purpose # "turn" /\ session[s].state # "finished"
      /\ UNCHANGED <<shot, phase>>
  BY DEF Stop, Gives, Open, Steady
<1>2. session[s] \in SessionShape /\ session[s].outcome = "none" /\ session[s].active \in 0..Len(shot) /\ s = Latest
  BY <1>1, OpenFacts
<1>3. CASE In(s, "running") = {} /\ session[s].disc = "none"
  <2> DEFINE r == Over(session[s], "cancelled")
  <2>1. item' = SkipReady(s) /\ session' = [session EXCEPT ![s] = r] /\ todo' = Nothing
    BY <1>3 DEF Stop, Done
  <2>2. /\ r \in SessionShape /\ r.purpose = session[s].purpose /\ r.active = session[s].active
        /\ r.state = "finished" /\ r.outcome \notin {"none", "partial"} /\ r.disc = "none"
    BY <1>2, <1>3 DEF Over, SessionShape
  <2> HIDE DEF r
  <2> QED BY <1>1, <1>3, <2>1, <2>2, AsideOver
<1>4. CASE ~(In(s, "running") = {} /\ session[s].disc = "none")
  <2> DEFINE r == [session[s] EXCEPT !.state = "stop-requested"]
  <2>1. /\ session' = [session EXCEPT ![s] = r] /\ item' = item
        /\ IF In(s, "running") = {} THEN todo' = Nothing ELSE todo' = <<"cancel", First(In(s, "running"))>>
    BY <1>4 DEF Stop, Done, Then
  <2>2. /\ r \in SessionShape /\ r.state = "stop-requested" /\ r.outcome = "none" /\ r.active = session[s].active
        /\ r.purpose = session[s].purpose /\ r.disc = session[s].disc
    BY <1>2 DEF SessionShape
  <2> HIDE DEF r
  <2>3. Goes(s, r)
    BY <1>1, <1>2, <2>2 DEF Goes
  <2>4. TodoOK'
    <3>1. CASE In(s, "running") = {}
      BY <2>1, <3>1, TodoNothing
    <3>2. CASE In(s, "running") # {}
      <4> DEFINE i == First(In(s, "running"))
      <4>1. i \in In(s, "running")
        <5>1. In(s, "running") \in SUBSET Nat
          BY SessionFacts DEF In, Items, IInv
        <5> QED BY <3>2, <5>1, FirstIn
      <4>2. todo' = <<"cancel", i>>
        BY <2>1, <3>2
      <4> HIDE DEF i
      <4>3. i \in DOMAIN item /\ item[i].state = "running" /\ item[i].session = s
        BY <4>1 DEF In, Items
      <4>4. item[i].kind # "turn"
        BY <1>1, <4>3 DEF IInv, ItemsOK
      <4> QED BY <1>1, <2>1, <4>2, <4>3, <4>4, TodoItem
    <3> QED BY <3>1, <3>2
  <2>5. \A i \in DOMAIN item : todo # <<"open", i>>
    BY <1>1 DEF Nothing
  <2> QED BY <1>1, <2>1, <2>2, <2>3, <2>4, <2>5, SessionOnly
<1> QED BY <1>3, <1>4

\* What had stopped goes on, from what is saved of it.
LEMMA ResumeStep ==
  ASSUME IInv, NEW s \in DOMAIN session, Resume(s)
  PROVE IInv'
<1> DEFINE running == In(s, "running")
           i == First(running)
           state == IF running = {} /\ session[s].disc = "none" /\ In(s, "ready") = {}
                    THEN "waiting-for-review" ELSE "running"
           disc == IF session[s].disc = "saved" THEN "going" ELSE session[s].disc
           r == [session[s] EXCEPT !.state = state, !.disc = disc]
<1>1. /\ todo = Nothing /\ phase = "up" /\ session[s].state = "paused" /\ UNCHANGED <<item, shot, phase>>
  BY DEF Resume, Gives, Steady
<1>2. /\ session[s] \in SessionShape /\ session[s].outcome = "none" /\ session[s].active \in 0..Len(shot) /\ s = Latest
      /\ session[s].purpose # "turn"
  BY <1>1, OpenFacts DEF IInv, SessionsOK
<1>3. session' = [session EXCEPT ![s] = r]
  <2>1. session = [t \in DOMAIN session |-> session[t]]
    BY DEF IInv, Typed
  <2> QED BY <1>2, <2>1 DEF Resume, SessionShape
<1>4. IF running # {} THEN todo' = <<IF item[i].run = "completed" THEN "event" ELSE "resume", i>>
                      ELSE todo' \in {Nothing, <<"dispatch", s>>}
  BY DEF Resume, Continued, Then, Done
<1>5. state \in {"waiting-for-review", "running"} /\ disc \in {"none", "going", "saved"}
      /\ (disc # "none" <=> session[s].disc # "none") /\ (running # {} => state = "running")
  BY <1>2 DEF SessionShape
<1> HIDE DEF state, disc
<1>6. /\ r \in SessionShape /\ r.state = state /\ r.outcome = "none" /\ r.active = session[s].active
      /\ r.purpose = session[s].purpose /\ r.disc = disc
  <2>1. state \in {"waiting-for-review", "running", "pause-requested", "stop-requested", "paused", "finished"}
    BY <1>5
  <2> QED BY <1>2, <1>5, <2>1 DEF SessionShape
<1> HIDE DEF r
<1>7. Goes(s, r)
  BY <1>1, <1>2, <1>5, <1>6 DEF Goes
<1>8. DOMAIN session' = DOMAIN session /\ session'[s] = r
  BY <1>3, <1>6, OneSession DEF IInv
<1>9. TodoOK'
  <2>1. CASE running = {}
    BY <1>1, <1>4, <1>8, <2>1, TodoNothing, TodoDispatch
  <2>2. CASE running # {}
    <3>1. i \in running
      <4>1. running \in SUBSET Nat
        BY SessionFacts DEF In, Items, IInv
      <4> QED BY <2>2, <4>1, FirstIn
    <3>2. i \in DOMAIN item /\ item[i].session = s /\ item[i].state = "running"
      BY <3>1 DEF In, Items
    <3>3. item[i].kind # "turn" /\ item[i].exec = "none"
      BY <1>1, <1>2, <3>2 DEF IInv, ItemsOK, CallsOK
    <3>4. PICK what \in {"event", "resume"} : todo' = <<what, i>>
      BY <1>4, <2>2
    <3>5. session'[item'[i].session].state = "running"
      BY <1>1, <1>5, <1>6, <1>8, <2>2, <3>2
    <3> HIDE DEF i
    <3> QED BY <1>1, <3>2, <3>3, <3>4, <3>5, TodoItem
  <2> QED BY <2>1, <2>2
<1>10. \A j \in DOMAIN item : todo # <<"open", j>>
  BY <1>1 DEF Nothing
<1> QED BY <1>1, <1>2, <1>3, <1>5, <1>6, <1>7, <1>9, <1>10, SessionOnly

-----------------------------------------------------------------------------
(* dispatchReady, the end of the first research, and what is set aside. *)

\* A request starts: nothing else is under way.
LEMMA Starts ==
  ASSUME IInv, NEW s \in DOMAIN session, session[s].state = "running", ~Busy(s), NEW i \in In(s, "ready"),
         StartRun(i) \/ StartReevaluation(i), todo' = <<"launch", i>>, UNCHANGED <<session, shot, phase>>, phase = "up"
  PROVE IInv'
<1>1. i \in DOMAIN item /\ item[i].session = s /\ item[i].state = "ready"
  BY DEF In, Items
<1>2. session[s].disc = "none" /\ In(s, "running") = {}
  BY DEF Busy, Discovering
<1>3. \A j \in DOMAIN item : item[j].state # "running" /\ item[j].exec = "none" /\ item[j].call \notin Engaged
  BY <1>2, RunsIn
<1>4. /\ session[s] \in SessionShape /\ session[s].outcome = "none" /\ session[s].active \in 0..Len(shot) /\ s = Latest
  BY OpenFacts
<1>5. session[s].purpose # "turn"
  BY <1>3 DEF IInv, SessionsOK
<1>6. item[i] \in ItemShape /\ Rules(item[i]) /\ item[i].kind # "turn"
  BY <1>1, <1>5, ItemFacts DEF IInv, ItemsOK
<1>7. \E y \in ItemShape : /\ item' = [item EXCEPT ![i] = y] /\ Follows(item[i], y) /\ y.state = "running"
                           /\ y.kept = item[i].kept /\ y.exec = "none" /\ y.call = "none"
  <2>0. item = [j \in DOMAIN item |-> item[j]]
    BY DEF IInv, Typed
  <2>1. CASE StartRun(i)
    <3> DEFINE y == [item[i] EXCEPT !.state = "running", !.run = "queued"]
    <3>1. item' = [item EXCEPT ![i] = y]
      BY <1>6, <2>0, <2>1 DEF StartRun, ItemShape
    <3>2. /\ y.state = "running" /\ y.run = "queued" /\ y.session = item[i].session /\ y.kind = item[i].kind
          /\ y.base = item[i].base /\ y.kept = item[i].kept /\ y.call = item[i].call /\ y.calls = item[i].calls
          /\ y.exec = item[i].exec /\ y.cost = item[i].cost /\ y.budget = item[i].budget
      BY <1>6 DEF ItemShape
    <3>3. y \in ItemShape
      <4>1. "running" \in States /\ "queued" \in Runs
        BY DEF States, Runs
      <4> QED BY <1>6, <4>1 DEF ItemShape
    <3> HIDE DEF y
    <3>4. Rules(y) /\ y.exec = "none" /\ y.call = "none"
      BY <1>1, <1>6, <3>2 DEF Rules, Settled, Engaged
    <3>5. Follows(item[i], y)
      BY <1>1, <3>2, <3>3, <3>4 DEF Follows
    <3> QED BY <3>1, <3>2, <3>3, <3>4, <3>5
  <2>2. CASE StartReevaluation(i)
    <3> DEFINE y == [item[i] EXCEPT !.state = "running", !.run = "running", !.found = TRUE]
    <3>1. item' = [item EXCEPT ![i] = y]
      BY <1>6, <2>0, <2>2 DEF StartReevaluation, ItemShape
    <3>2. /\ y.state = "running" /\ y.run = "running" /\ y.session = item[i].session /\ y.kind = item[i].kind
          /\ y.base = item[i].base /\ y.kept = item[i].kept /\ y.call = item[i].call /\ y.calls = item[i].calls
          /\ y.exec = item[i].exec /\ y.cost = item[i].cost /\ y.budget = item[i].budget
      BY <1>6 DEF ItemShape
    <3>3. y \in ItemShape
      <4>1. "running" \in States /\ "running" \in Runs
        BY DEF States, Runs
      <4> QED BY <1>6, <4>1 DEF ItemShape
    <3> HIDE DEF y
    <3>4. Rules(y) /\ y.exec = "none" /\ y.call = "none"
      BY <1>1, <1>6, <3>2 DEF Rules, Settled, Engaged
    <3>5. Follows(item[i], y)
      BY <1>1, <3>2, <3>3, <3>4 DEF Follows
    <3> QED BY <3>1, <3>2, <3>3, <3>4, <3>5
  <2> QED BY <2>1, <2>2
<1>8. PICK y \in ItemShape : /\ item' = [item EXCEPT ![i] = y] /\ Follows(item[i], y) /\ y.state = "running"
                             /\ y.kept = item[i].kept /\ y.exec = "none" /\ y.call = "none"
  BY <1>7
<1> DEFINE items == [item EXCEPT ![i] = y]
<1>9. /\ items \in Seq(ItemShape) /\ Len(items) = Len(item) /\ items[i] = y
      /\ \A j \in DOMAIN item : j # i => items[j] = item[j]
  BY <1>1, OneItem DEF IInv
<1>10. item' = items /\ session' = [session EXCEPT ![s] = session[s]]
  BY <1>8, SameSession DEF IInv
<1> HIDE DEF items
<1>11. Confined(s, items, session[s])
  <2>1. Goes(s, session[s])
    BY <1>4 DEF Goes
  <2> QED BY <1>1, <1>8, <1>9, <2>1 DEF Confined
<1>12. Sound(s, items, session[s])
  <2>1. \A j \in DOMAIN item : items[j].state = "running" => j = i
    BY <1>3, <1>9
  <2>2. \A j \in DOMAIN item : items[j].exec = "none"
    BY <1>3, <1>8, <1>9
  <2> QED BY <1>2, <1>5, <2>1, <2>2 DEF Sound
<1>13. SoundReview(s, items, session[s])
  BY <1>4 DEF SoundReview
<1>14. \A j \in DOMAIN item : items[j].kept = item[j].kept /\ items[j].call \notin Engaged
  BY <1>3, <1>8, <1>9 DEF Engaged
<1>15. TodoOK'
  <2>1. i \in DOMAIN item' /\ item'[i] = y
    BY <1>1, <1>9, <1>10, SessionFacts DEF IInv
  <2>2. y.session = s /\ y.kind # "turn"
    BY <1>1, <1>6, <1>8 DEF Follows
  <2> QED BY <1>8, <2>1, <2>2, TodoItem
<1> QED BY <1>10, <1>11, <1>12, <1>13, <1>14, <1>15, ConfinedStep

LEMMA DispatchStep ==
  ASSUME IInv, NEW s \in DOMAIN session, Dispatch(s)
  PROVE IInv'
<1>1. todo = <<"dispatch", s>> /\ UNCHANGED <<shot, phase>> /\ phase = "up"
  <2>1. todo = <<"dispatch", s>> /\ UNCHANGED <<shot, phase>>
    BY DEF Dispatch, Steady
  <2> QED BY <2>1, TodoFacts
<1>2. \A i \in DOMAIN item : todo # <<"open", i>>
  BY <1>1
<1>3. CASE session[s].state \notin {"running", "waiting-for-review"} \/ Busy(s) \/ In(s, "ready") = {}
  <2>1. UNCHANGED <<session, item>> /\ todo' = Nothing
    BY <1>3 DEF Dispatch, Done
  <2> QED BY <1>1, <1>2, <2>1, TodoNothing, OnlyTodo
<1>4. CASE session[s].state = "waiting-for-review" /\ ~Busy(s) /\ In(s, "ready") # {}
  <2> DEFINE r == [session[s] EXCEPT !.state = "running"]
  <2>1. session' = [session EXCEPT ![s] = r] /\ UNCHANGED <<item, todo>>
    BY <1>4 DEF Dispatch
  <2>2. /\ session[s] \in SessionShape /\ session[s].outcome = "none" /\ session[s].active \in 0..Len(shot)
        /\ session[s].purpose # "turn"
    BY <1>4, OpenFacts DEF IInv, SessionsOK
  <2>3. /\ r \in SessionShape /\ r.state = "running" /\ r.outcome = "none" /\ r.active = session[s].active
        /\ r.purpose = session[s].purpose /\ r.disc = session[s].disc
    BY <2>2 DEF SessionShape
  <2> HIDE DEF r
  <2>4. Goes(s, r)
    BY <1>4, <2>2, <2>3 DEF Goes
  <2>5. TodoOK'
    <3>1. s \in DOMAIN session'
      BY <2>1
    <3> QED BY <1>1, <2>1, <3>1, TodoDispatch
  <2> QED BY <1>1, <1>2, <2>1, <2>2, <2>3, <2>4, <2>5, SessionOnly
<1>5. CASE session[s].state = "running" /\ ~Busy(s) /\ In(s, "ready") # {}
  <2> DEFINE i == First(In(s, "ready"))
  <2>1. \/ (StartRun(i) \/ StartReevaluation(i)) /\ todo' = <<"launch", i>> /\ session' = session
        \/ session[s].purpose = "followup" /\ todo' = Nothing /\ Settle(s, Unstarted(s))
    BY <1>5 DEF Dispatch, Done, Then
  <2>2. i \in In(s, "ready")
    <3>1. In(s, "ready") \in SUBSET Nat
      BY SessionFacts DEF In, Items, IInv
    <3> QED BY <1>5, <3>1, FirstIn
  <2>3. CASE (StartRun(i) \/ StartReevaluation(i)) /\ todo' = <<"launch", i>> /\ session' = session
    <3> HIDE DEF i
    <3> QED BY <1>1, <1>5, <2>2, <2>3, Starts
  <2>4. CASE session[s].purpose = "followup" /\ todo' = Nothing /\ Settle(s, Unstarted(s))
    <3> DEFINE items == PutAside(s, "failed")
    <3>1. Settle(s, items)
      BY <2>4 DEF Unstarted, PutAside
    <3>2. /\ items \in Seq(ItemShape) /\ Len(items) = Len(item)
          /\ \A j \in DOMAIN item : j \notin In(s, "ready") => items[j] = item[j]
          /\ \A j \in In(s, "ready") : Follows(item[j], items[j]) /\ items[j].state = "failed"
               /\ items[j].kept = item[j].kept /\ items[j].exec = "none" /\ items[j].call = "none"
      BY PutAsideFacts
    <3> HIDE DEF items
    <3>3. session[s].disc = "none" /\ In(s, "running") = {}
      BY <1>5 DEF Busy, Discovering
    <3>4. \A j \in DOMAIN item : item[j].state # "running" /\ item[j].exec = "none" /\ item[j].call \notin Engaged
      BY <1>5, <3>3, RunsIn
    <3>5. \A j \in In(s, "ready") : j \in DOMAIN item /\ item[j].session = s
      BY DEF In, Items
    <3>6. \A j \in DOMAIN item : items[j] = item[j] \/ (item[j].session = s /\ Follows(item[j], items[j]))
      BY <3>2, <3>5
    <3>7. \A j \in DOMAIN item : /\ items[j].state # "running" /\ items[j].kept = item[j].kept /\ Rules(items[j])
                                 /\ items[j].exec = "none" /\ items[j].call \notin Engaged
      BY <3>2, <3>4, ItemFacts DEF Follows, Engaged
    <3> QED BY <1>1, <1>5, <2>4, <3>1, <3>2, <3>3, <3>6, <3>7, SettleStep
  <2> QED BY <2>1, <2>3, <2>4
<1> QED BY <1>3, <1>4, <1>5

\* keepResearch
LEMMA KeepStep ==
  ASSUME IInv, NEW i \in DOMAIN item, Keep(i)
  PROVE IInv'
<1> DEFINE s == item[i].session
           y == [item[i] EXCEPT !.kept = TRUE]
           items == [item EXCEPT ![i] = y]
           r == IF session[s].purpose = "followup" /\ Reviewed(s, items) THEN Over(session[s], "partial") ELSE session[s]
<1>1. item[i] \in ItemShape /\ Rules(item[i]) /\ s \in DOMAIN session
  BY ItemFacts
<1>2. items = [item EXCEPT ![i].kept = TRUE]
  OBVIOUS
<1>3. /\ todo = Nothing /\ todo' = Nothing /\ phase = "up" /\ UNCHANGED <<shot, phase>>
      /\ session[s].purpose # "turn" /\ session[s].state \in {"running", "waiting-for-review"}
      /\ item[i].state = "succeeded" /\ i \notin Applied(s) /\ item' = items
  BY <1>2 DEF Keep, Gives, Steady
<1>4. session' = [session EXCEPT ![s] = r]
  <2>1. session' = IF session[s].purpose = "followup" /\ Reviewed(s, items)
                   THEN [session EXCEPT ![s] = Over(session[s], "partial")] ELSE session
    BY <1>2 DEF Keep
  <2>2. session = [session EXCEPT ![s] = session[s]]
    BY <1>1 DEF IInv, Typed
  <2> QED BY <2>1, <2>2
<1>5. /\ session[s] \in SessionShape /\ session[s].outcome = "none" /\ session[s].active \in 0..Len(shot)
  BY <1>1, <1>3, OpenFacts
<1>6. session[s].disc = "none"
  BY <1>1, <1>3 DEF IInv, FirstAlone
<1>7. /\ r \in SessionShape /\ r.purpose = session[s].purpose /\ r.active = session[s].active /\ r.disc = "none"
      /\ (r.state # "finished" <=> r.outcome = "none") /\ (r.state # "finished" => r = session[s])
      /\ (r.state = "finished" => Reviewed(s, items))
  <2>1. CASE session[s].purpose = "followup" /\ Reviewed(s, items)
    BY <1>5, <1>6, <2>1 DEF Over, SessionShape
  <2>2. CASE ~(session[s].purpose = "followup" /\ Reviewed(s, items))
    <3>1. r = session[s]
      BY <2>2
    <3> QED BY <1>3, <1>5, <1>6, <3>1
  <2> QED BY <2>1, <2>2
<1>8. /\ y.state = item[i].state /\ y.session = item[i].session /\ y.kind = item[i].kind /\ y.base = item[i].base
      /\ y.kept = TRUE /\ y.call = item[i].call /\ y.calls = item[i].calls /\ y.run = item[i].run
      /\ y.exec = item[i].exec /\ y.cost = item[i].cost /\ y.budget = item[i].budget /\ y \in ItemShape
  BY <1>1 DEF ItemShape
<1> HIDE DEF y, r
<1>9. /\ items \in Seq(ItemShape) /\ Len(items) = Len(item) /\ items[i] = y
      /\ \A j \in DOMAIN item : j # i => items[j] = item[j]
  BY <1>8, OneItem DEF IInv
<1> HIDE DEF items
<1>10. Rules(y)
  BY <1>1, <1>8 DEF Rules
<1>11. Follows(item[i], y)
  BY <1>8, <1>10 DEF Follows
<1>12. Confined(s, items, r)
  <2>1. Goes(s, r)
    BY <1>3, <1>5, <1>7 DEF Goes
  <2> QED BY <1>9, <1>11, <2>1 DEF Confined
<1>13. \A j \in DOMAIN item : /\ items[j].state = item[j].state /\ items[j].exec = item[j].exec /\ items[j].call = item[j].call
                              /\ (items[j].kept # item[j].kept => j = i)
  BY <1>8, <1>9
<1>14. Sound(s, items, r)
  <2>1. \A j, k \in DOMAIN item : items[j].state = "running" /\ items[k].state = "running" => j = k
    BY <1>13 DEF IInv, Alone
  <2>2. r.state = "finished" => \A j \in DOMAIN item : item[j].session = s => items[j].state # "running"
    <3> SUFFICES ASSUME r.state = "finished", NEW j \in DOMAIN item, item[j].session = s
                 PROVE items[j].state # "running"
      OBVIOUS
    <3>1. Reviewed(s, items) /\ j \in Items(s)
      BY <1>7 DEF Items
    <3>2. items[j].state \notin {"ready", "running", "unknown"}
      BY <3>1 DEF Reviewed
    <3> QED BY <3>2
  <2>3. r.state # "paused" /\ r.purpose # "turn"
    BY <1>3, <1>7
  <2> QED BY <1>7, <2>1, <2>2, <2>3 DEF Sound
<1>15. SoundReview(s, items, r)
  <2> SUFFICES ASSUME r.outcome = "partial", NEW j \in DOMAIN item, item[j].session = s
      PROVE /\ items[j].state \in {"succeeded", "failed", "cancelled", "skipped"}
            /\ items[j].state = "succeeded" =>
                 items[j].kept \/ \E k \in DOMAIN shot : shot[k].session = s /\ j \in shot[k].included
    BY DEF SoundReview
  <2>1. /\ items[j].state \notin {"ready", "running", "unknown"}
        /\ items[j].state = "succeeded" => j \in Applied(s) \/ items[j].kept
    <3>1. Reviewed(s, items) /\ j \in Items(s)
      BY <1>7 DEF Items
    <3> HIDE DEF s
    <3>2. items[j].state \notin {"ready", "running", "unknown"}
      BY <3>1 DEF Reviewed
    <3>3. ASSUME items[j].state = "succeeded" PROVE j \in Applied(s) \/ items[j].kept
      BY <3>1, <3>3 DEF Reviewed
    <3> QED BY <3>2, <3>3
  <2>2. items[j].state \in States
    BY <1>13, ItemFacts DEF ItemShape
  <2>3. j \in Applied(s) => \E k \in DOMAIN shot : shot[k].session = s /\ j \in shot[k].included
    BY DEF Applied, Snapshots
  <2> QED BY <2>1, <2>2, <2>3 DEF States, Settled
<1>16. \A k \in DOMAIN shot : i \notin shot[k].included
  BY <1>3 DEF Applied, Snapshots, IInv, ShotsOK
<1>17. \A j \in DOMAIN item : items[j].call \in Engaged => items[j].exec # "none"
  <2>1. \A j \in DOMAIN item : item[j].call \in Engaged => item[j].exec # "none"
    BY <1>3 DEF IInv, CallsOK, Nothing
  <2> QED BY <1>13, <2>1
<1>18. item' = items /\ TodoOK'
  BY <1>3, TodoNothing
<1> HIDE DEF s
<1> QED BY <1>1, <1>3, <1>4, <1>7, <1>12, <1>13, <1>14, <1>15, <1>16, <1>17, <1>18, ConfinedStep

-----------------------------------------------------------------------------
(* A new snapshot of the findings. *)

LEMMA NewSnapshot ==
  ASSUME IInv, NEW s \in DOMAIN session, session[s].state # "finished", session[s].purpose # "turn",
         NEW new \in ShotShape, new.session = s,
         \A i \in new.included :
           /\ i \in DOMAIN item /\ item[i].session = s /\ ~item[i].kept
           /\ item[i].kind \in {"redo", "reevaluate"} => item[i].base = session[s].active,
         NEW r \in SessionShape, r.purpose = session[s].purpose, r.active = Len(shot) + 1, r.disc = "none",
         r.state # "finished" <=> r.outcome = "none",
         r.state = "finished" => \A i \in DOMAIN item : item[i].session = s => item[i].state # "running",
         r.state = "paused" => \A i \in DOMAIN item : item[i].session = s => item[i].exec = "none",
         r.purpose = "followup" /\ r.outcome = "partial" => \A i \in DOMAIN item : item[i].session = s =>
           /\ item[i].state \in {"succeeded", "failed", "cancelled", "skipped"}
           /\ item[i].state = "succeeded" => i \in new.included \/ item[i].kept \/
                \E k \in DOMAIN shot : shot[k].session = s /\ i \in shot[k].included,
         shot' = Append(shot, new), session' = [session EXCEPT ![s] = r], item' = item,
         phase = "up", phase' = "up", \A i \in DOMAIN item : todo # <<"open", i>>, TodoOK'
  PROVE IInv'
<1> DEFINE n == Len(shot) + 1
<1>1. /\ s = Latest /\ Len(shot) \in Nat /\ DOMAIN shot = 1..Len(shot)
      /\ \A i \in DOMAIN item : item[i].session \in DOMAIN session
  BY SessionFacts, OpenFacts DEF IInv, ItemsOK
<1>2. /\ session' \in Seq(SessionShape) /\ Len(session') = Len(session) /\ DOMAIN session' = DOMAIN session
      /\ session'[s] = r /\ \A t \in DOMAIN session : t # s => session'[t] = session[t]
  BY OneSession DEF IInv
<1>3. /\ shot' \in Seq(ShotShape) /\ Len(shot') = n /\ DOMAIN shot' = 1..n /\ shot'[n] = new
      /\ \A k \in DOMAIN shot : k \in DOMAIN shot' /\ shot'[k] = shot[k]
      /\ \A k \in DOMAIN shot' : k = n \/ k \in DOMAIN shot
  BY <1>1 DEF IInv, Typed
<1>4. \A t \in DOMAIN session : t # s => session[t].state = "finished" /\ session[t].disc = "none"
  BY <1>1 DEF IInv, SessionsOK
<1>5. /\ \A t \in DOMAIN session : session'[t].purpose = session[t].purpose
      /\ Latest' = Latest
  BY <1>2 DEF Latest
<1>6. Typed'
  BY <1>2, <1>3 DEF Typed, IInv
<1>7. ItemsOK'
  BY <1>2, <1>5 DEF IInv, ItemsOK
<1>8. Alone'
  <2>1. ASSUME NEW i \in DOMAIN item, item[i].state = "running" PROVE session'[s].state # "finished"
    <3>1. item[i].session = s
      BY <1>1, <2>1 DEF IInv, Alone
    <3> QED BY <1>2, <2>1, <3>1
  <2> QED BY <1>1, <1>5, <2>1 DEF IInv, Alone
<1>9. CallsOK'
  <2> SUFFICES ASSUME NEW i \in DOMAIN item, session'[item[i].session].state = "paused" PROVE item[i].exec = "none"
    BY DEF IInv, CallsOK
  <2>1. CASE item[i].session = s
    BY <1>2, <2>1
  <2>2. CASE item[i].session # s
    BY <1>1, <1>2, <1>4, <2>2
  <2> QED BY <2>1, <2>2
<1>10. SessionsOK'
  <2> SUFFICES ASSUME NEW t \in DOMAIN session
      PROVE /\ session'[t].state # "finished" <=> session'[t].outcome = "none"
            /\ session'[t].state # "finished" => t = Latest
            /\ session'[t].active \in 0..n
            /\ session'[t].disc # "none" => session'[t].state # "finished" /\ session'[t].purpose # "turn"
            /\ session'[t].purpose = "turn" => session'[t].state \in {"running", "finished"}
            /\ session'[t].purpose = "turn" /\ session'[t].state # "finished" =>
                 \E i \in DOMAIN item : item[i].session = t /\ item[i].state = "running"
    BY <1>2, <1>3, <1>5 DEF SessionsOK
  <2>1. CASE t = s
    BY <1>1, <1>2, <2>1
  <2>2. CASE t # s
    <3>1. session'[t] = session[t] /\ session[t].active \in 0..Len(shot)
      BY <1>2, <2>2 DEF IInv, SessionsOK
    <3>2. session[t].active \in 0..n
      BY <1>1, <3>1
    <3> QED BY <3>1, <3>2 DEF IInv, SessionsOK
  <2> QED BY <2>1, <2>2
<1>11. FirstAlone'
  BY <1>2, <1>4 DEF FirstAlone
<1>12. ShotsOK'
  <2> SUFFICES ASSUME NEW k \in DOMAIN shot'
      PROVE /\ shot'[k].session \in DOMAIN session /\ k <= session'[shot'[k].session].active
            /\ \A i \in shot'[k].included :
                 /\ i \in DOMAIN item /\ item[i].session = shot'[k].session /\ ~item[i].kept
                 /\ item[i].kind \in {"redo", "reevaluate"} =>
                      item[i].base < k /\ \A m \in DOMAIN shot' : i \in shot'[m].included => m = k
    BY <1>2 DEF ShotsOK
  <2>1. ASSUME NEW i \in new.included, item[i].kind \in {"redo", "reevaluate"}, NEW m \in DOMAIN shot, i \in shot[m].included
        PROVE FALSE
    <3>1. item[i].base < m /\ shot[m].session = s /\ m <= session[s].active
      BY <2>1 DEF IInv, ShotsOK
    <3>2. item[i].base = session[s].active /\ session[s].active \in Nat /\ m \in Nat
      BY <1>1, <2>1 DEF IInv, SessionsOK
    <3> QED BY <3>1, <3>2
  <2>2. CASE k = n
    <3>1. \A i \in new.included : item[i].kind \in {"redo", "reevaluate"} => item[i].base < n
      BY <1>1 DEF IInv, SessionsOK
    <3> QED BY <1>1, <1>2, <1>3, <2>1, <2>2, <3>1
  <2>3. CASE k # n
    <3>1. k \in DOMAIN shot /\ shot'[k] = shot[k] /\ shot[k].session \in DOMAIN session
          /\ k <= session[shot[k].session].active
          /\ \A i \in shot[k].included :
               /\ i \in DOMAIN item /\ item[i].session = shot[k].session /\ ~item[i].kept
               /\ item[i].kind \in {"redo", "reevaluate"} =>
                    item[i].base < k /\ \A m \in DOMAIN shot : i \in shot[m].included => m = k
      BY <1>3, <2>3 DEF IInv, ShotsOK
    <3>2. k <= session'[shot[k].session].active
      BY <1>1, <1>2, <3>1
    <3>3. \A i \in shot[k].included : item[i].kind \in {"redo", "reevaluate"} => i \notin new.included
      BY <2>1, <3>1
    <3> QED BY <1>3, <3>1, <3>2, <3>3
  <2> QED BY <2>2, <2>3
<1>13. ReviewOK'
  <2> SUFFICES ASSUME NEW t \in DOMAIN session, session'[t].purpose = "followup", session'[t].outcome = "partial",
                      NEW i \in DOMAIN item, item[i].session = t
      PROVE /\ item[i].state \in {"succeeded", "failed", "cancelled", "skipped"}
            /\ item[i].state = "succeeded" =>
                 item[i].kept \/ \E k \in DOMAIN shot' : shot'[k].session = t /\ i \in shot'[k].included
    BY <1>2, SMTT(30) DEF ReviewOK
  <2>0. n \in DOMAIN shot'
    BY <1>1, <1>3
  <2>1. CASE t = s
    BY <1>2, <1>3, <2>0, <2>1
  <2>2. CASE t # s
    BY <1>2, <1>3, <2>2 DEF IInv, ReviewOK
  <2> QED BY <2>1, <2>2
<1> QED BY <1>6, <1>7, <1>8, <1>9, <1>10, <1>11, <1>12, <1>13 DEF IInv

\* applyResearch
LEMMA ApplyStep ==
  ASSUME IInv, NEW s \in DOMAIN session, NEW set \in SUBSET Items(s), Apply(s, set)
  PROVE IInv'
<1> DEFINE base == IF session[s].active = 0 THEN {} ELSE shot[session[s].active].findings
           replaced == {item[i].target : i \in {j \in set : Targeted(j)}}
           findings == (base \ replaced) \cup set
           new == NewShot(s, session[s].active, findings, set)
           applied == [session[s] EXCEPT !.active = Len(shot) + 1]
           r == IF session[s].purpose = "followup" THEN Over(applied, "partial") ELSE applied
<1>1. /\ todo = Nothing /\ todo' = Nothing /\ phase = "up" /\ phase' = "up" /\ session[s].purpose # "turn"
      /\ session[s].state # "finished" /\ item' = item /\ Fitting(s, set)
      /\ session[s].purpose = "followup" => ReadyToApply(s, set)
      /\ shot' = Append(shot, new)
  BY DEF Apply, Carried, Gives, Open, Steady
<1>2. session' = [session EXCEPT ![s] = r]
  BY DEF Apply
<1>3. /\ session[s] \in SessionShape /\ session[s].outcome = "none" /\ session[s].active \in 0..Len(shot)
      /\ DOMAIN shot = 1..Len(shot) /\ Len(shot) \in Nat /\ DOMAIN item \subseteq Nat
      /\ \A k \in DOMAIN shot : shot[k] \in ShotShape
  BY <1>1, OpenFacts, SessionFacts DEF IInv
<1>4. \A i \in set : i \in DOMAIN item /\ item[i].session = s /\ item[i].state = "succeeded" /\ ~item[i].kept
                     /\ (Targeted(i) => item[i].base = session[s].active)
  BY <1>1 DEF Fitting, Items
<1>5. findings \in SUBSET (Findings \cup Nat) /\ set \in SUBSET Nat /\ s \in Nat
  <2>1. base \in SUBSET (Findings \cup Nat)
    BY <1>3 DEF ShotShape
  <2> HIDE DEF base, replaced
  <2> QED BY <1>3, <1>4, <2>1, SessionFacts DEF IInv
<1> HIDE DEF findings
<1>6. new \in ShotShape /\ new.session = s /\ new.included = set
  BY <1>3, <1>5 DEF NewShot, ShotShape
<1> HIDE DEF new
<1>7. session[s].disc = "none"
  <2>1. PICK i \in set : TRUE
    BY <1>1 DEF Fitting
  <2> QED BY <1>4, <2>1 DEF IInv, FirstAlone
<1>8. /\ r \in SessionShape /\ r.purpose = session[s].purpose /\ r.active = Len(shot) + 1 /\ r.disc = "none"
      /\ (r.state # "finished" <=> r.outcome = "none") /\ (r.state # "finished" => r.state = session[s].state)
      /\ (r.state = "finished" => session[s].purpose = "followup") /\ (r.outcome = "partial" => session[s].purpose = "followup")
  <2>1. /\ applied \in SessionShape /\ applied.purpose = session[s].purpose /\ applied.active = Len(shot) + 1
        /\ applied.disc = "none" /\ applied.state = session[s].state /\ applied.outcome = "none"
    <3>1. Len(shot) + 1 \in Nat
      BY <1>3
    <3> QED BY <1>3, <1>7, <3>1 DEF SessionShape
  <2> HIDE DEF applied
  <2>2. CASE session[s].purpose = "followup"
    BY <2>1, <2>2 DEF Over, SessionShape
  <2>3. CASE session[s].purpose # "followup"
    BY <1>1, <2>1, <2>3
  <2> QED BY <2>2, <2>3
<1> HIDE DEF r
<1>9. ASSUME session[s].purpose = "followup", NEW i \in DOMAIN item, item[i].session = s
      PROVE /\ item[i].state \in {"succeeded", "failed", "cancelled", "skipped"}
            /\ item[i].state = "succeeded" => i \in set \/ item[i].kept \/
                 \E k \in DOMAIN shot : shot[k].session = s /\ i \in shot[k].included
  <2>1. ReadyToApply(s, set) /\ i \in Items(s) /\ item[i].state \in States
    BY <1>1, <1>9, ItemFacts DEF Items, ItemShape
  <2>2. item[i].state \notin {"ready", "running", "unknown"}
    BY <2>1 DEF ReadyToApply
  <2>3. item[i].state = "succeeded" => i \in set \cup Applied(s) \/ item[i].kept
    BY <2>1 DEF ReadyToApply, In
  <2>4. i \in Applied(s) => \E k \in DOMAIN shot : shot[k].session = s /\ i \in shot[k].included
    BY DEF Applied, Snapshots
  <2> QED BY <2>1, <2>2, <2>3, <2>4 DEF States, Settled
<1>10. r.state = "finished" => \A i \in DOMAIN item : item[i].session = s => item[i].state # "running"
  BY <1>8, <1>9
<1>11. r.state = "paused" => \A i \in DOMAIN item : item[i].session = s => item[i].exec = "none"
  BY <1>8 DEF IInv, CallsOK
<1>12. r.purpose = "followup" /\ r.outcome = "partial" => \A i \in DOMAIN item : item[i].session = s =>
           /\ item[i].state \in {"succeeded", "failed", "cancelled", "skipped"}
           /\ item[i].state = "succeeded" => i \in new.included \/ item[i].kept \/
                \E k \in DOMAIN shot : shot[k].session = s /\ i \in shot[k].included
  BY <1>6, <1>8, <1>9
<1>13. \A i \in new.included :
           /\ i \in DOMAIN item /\ item[i].session = s /\ ~item[i].kept
           /\ item[i].kind \in {"redo", "reevaluate"} => item[i].base = session[s].active
  BY <1>4, <1>6 DEF Targeted
<1>14. TodoOK' /\ \A i \in DOMAIN item : todo # <<"open", i>>
  BY <1>1, TodoNothing DEF Nothing
<1> QED BY <1>1, <1>2, <1>6, <1>8, <1>10, <1>11, <1>12, <1>13, <1>14, NewSnapshot

\* completeDiscovery, or the failure of the first research.
LEMMA DiscoveryEndsStep ==
  ASSUME IInv, NEW s \in DOMAIN session, NEW how \in {"found", "empty", "failed"}, DiscoveryEnds(s, how)
  PROVE IInv'
<1>1. /\ todo = Nothing /\ phase = "up" /\ phase' = "up" /\ session[s].disc # "none"
  BY DEF DiscoveryEnds, Gives
<1>2. session[s].state # "finished" /\ session[s].purpose # "turn"
  BY <1>1 DEF IInv, SessionsOK
<1>3. /\ session[s] \in SessionShape /\ session[s].outcome = "none" /\ s = Latest /\ Len(shot) \in Nat /\ s \in Nat
      /\ DOMAIN shot = 1..Len(shot)
  BY <1>2, OpenFacts, SessionFacts DEF IInv
<1>4. \A i \in DOMAIN item : item[i].state # "running" /\ item[i].exec = "none" /\ item[i].call \notin Engaged
  <2>1. \A i \in DOMAIN item : item[i].state # "running"
    BY <1>1 DEF IInv, FirstAlone
  <2> QED BY <2>1, AtRest
<1>5. \A k \in DOMAIN shot : shot[k].session # s
  BY <1>1 DEF IInv, FirstAlone
<1>6. \A i \in DOMAIN item : todo # <<"open", i>>
  BY <1>1 DEF Nothing
<1>7. CASE how = "failed"
  <2>1. /\ item' = SkipReady(s) /\ todo' = Nothing /\ shot' = shot
        /\ \E outcome \in {"cancelled", "failed", "needs-attention"} :
             session' = [session EXCEPT ![s] = Over([session[s] EXCEPT !.disc = "none"], outcome)]
    BY <1>7 DEF DiscoveryEnds, Done
  <2>2. PICK outcome \in {"cancelled", "failed", "needs-attention"} :
             session' = [session EXCEPT ![s] = Over([session[s] EXCEPT !.disc = "none"], outcome)]
    BY <2>1
  <2> DEFINE r == Over([session[s] EXCEPT !.disc = "none"], outcome)
  <2>3. /\ r \in SessionShape /\ r.purpose = session[s].purpose /\ r.active = session[s].active
        /\ r.state = "finished" /\ r.outcome \notin {"none", "partial"} /\ r.disc = "none"
    BY <1>3 DEF Over, SessionShape
  <2>4. session' = [session EXCEPT ![s] = r]
    BY <2>2
  <2>5. In(s, "running") = {}
    BY <1>4 DEF In, Items
  <2> HIDE DEF r
  <2> QED BY <1>1, <1>2, <2>1, <2>3, <2>4, <2>5, AsideOver
<1>8. CASE how # "failed"
  <2> DEFINE active == IF how = "found" THEN Len(shot) + 1 ELSE 0
             found == [session[s] EXCEPT !.disc = "none", !.active = active]
             state == IF session[s].state = "running" THEN "waiting-for-review" ELSE "paused"
             r == IF session[s].state = "stop-requested" THEN Over(found, "cancelled") ELSE [found EXCEPT !.state = state]
  <2>1. /\ shot' = IF how = "found" THEN Append(shot, NewShot(s, 0, Findings, {})) ELSE shot
        /\ session' = [session EXCEPT ![s] = r] /\ item' = item
        /\ todo' \in {Nothing, <<"dispatch", s>>}
    BY <1>8 DEF DiscoveryEnds, Done, Then
  <2>2. active \in Nat /\ state \in {"waiting-for-review", "paused"}
    BY <1>3
  <2> HIDE DEF active, state
  <2>3. /\ r \in SessionShape /\ r.purpose = session[s].purpose /\ r.active = active /\ r.disc = "none"
        /\ (r.state # "finished" <=> r.outcome = "none") /\ r.outcome # "partial"
    <3>1. /\ found \in SessionShape /\ found.purpose = session[s].purpose /\ found.active = active /\ found.disc = "none"
          /\ found.outcome = "none"
      <4>1. [session[s] EXCEPT !.disc = "none"] \in SessionShape
        BY <1>3 DEF SessionShape
      <4>2. found = [[session[s] EXCEPT !.disc = "none"] EXCEPT !.active = active]
        BY <1>3 DEF SessionShape
      <4> QED BY <1>3, <2>2, <4>1, <4>2 DEF SessionShape
    <3> HIDE DEF found
    <3>2. CASE session[s].state = "stop-requested"
      BY <3>1, <3>2 DEF Over, SessionShape
    <3>3. CASE session[s].state # "stop-requested"
      <4>1. state \in {"waiting-for-review", "running", "pause-requested", "stop-requested", "paused", "finished"}
        BY <2>2
      <4>2. r = [found EXCEPT !.state = state]
        BY <3>3
      <4> HIDE DEF r
      <4> QED BY <2>2, <3>1, <4>1, <4>2 DEF SessionShape
    <3> QED BY <3>2, <3>3
  <2> HIDE DEF r
  <2>4. TodoOK'
    <3>1. s \in DOMAIN session'
      BY <2>1
    <3> QED BY <1>1, <2>1, <3>1, TodoNothing, TodoDispatch
  <2>5. CASE how = "found"
    <3> DEFINE new == NewShot(s, 0, Findings, {})
    <3>1. new \in ShotShape /\ new.session = s /\ new.included = {}
      BY <1>3 DEF NewShot, ShotShape
    <3>2. shot' = Append(shot, new) /\ active = Len(shot) + 1
      BY <2>1, <2>5 DEF active
    <3> HIDE DEF new
    <3> QED BY <1>1, <1>2, <1>4, <1>6, <2>1, <2>3, <2>4, <3>1, <3>2, NewSnapshot
  <2>6. CASE how = "empty"
    <3>1. shot' = shot /\ active = 0
      BY <2>1, <2>6 DEF active
    <3>2. Goes(s, r)
      BY <1>2, <1>3, <2>3, <3>1 DEF Goes
    <3>3. Confined(s, item, r)
      BY <3>2 DEF Confined, IInv, Typed
    <3>4. Sound(s, item, r)
      BY <1>2, <1>4, <2>3 DEF Sound
    <3>5. SoundReview(s, item, r)
      BY <2>3 DEF SoundReview
    <3>6. Typed' /\ ItemsOK' /\ Alone' /\ SessionsOK' /\ FirstAlone' /\ ShotsOK' /\ ReviewOK'
      BY <1>1, <1>5, <2>1, <3>1, <3>3, <3>4, <3>5, ConfinedHolds
    <3>7. CallsOK'
      BY <1>1, <1>4, <2>1 DEF CallsOK
    <3> QED BY <2>4, <3>6, <3>7 DEF IInv
  <2> QED BY <1>8, <2>5, <2>6
<1> QED BY <1>7, <1>8

-----------------------------------------------------------------------------
(* New requests and new sessions. *)

\* What is asked concerns nothing, or a finding of the active snapshot.
LEMMA Asked ==
  ASSUME IInv, NEW s \in DOMAIN session, NEW k \in Kinds, MayAsk(s, k[1], k[2])
  PROVE /\ k[1] \in {"question", "redo", "reevaluate"} /\ k[2] \in Findings \cup Nat
        /\ k[1] # "question" => session[s].active \in DOMAIN shot
<1>1. k[1] \in {"question", "redo", "reevaluate"} /\ (k[1] = "question" => k[2] = 0)
  BY DEF Kinds
<1>2. session[s].active \in 0..Len(shot) /\ DOMAIN shot = 1..Len(shot) /\ Len(shot) \in Nat
      /\ \A m \in DOMAIN shot : shot[m] \in ShotShape
  BY SessionFacts DEF IInv, SessionsOK
<1>3. k[1] # "question" => k[2] \in shot[session[s].active].findings /\ session[s].active \in DOMAIN shot
  BY <1>1, <1>2 DEF MayAsk
<1> QED BY <1>1, <1>2, <1>3 DEF ShotShape

LEMMA NewItemFacts ==
  ASSUME NEW s \in Nat, NEW kind \in {"question", "redo", "reevaluate", "turn"}, NEW target \in Findings \cup Nat,
         NEW base \in Nat, NEW y, y = NewItem(s, kind, target, base)
  PROVE /\ y \in ItemShape /\ Rules(y) /\ y.session = s /\ y.kind = kind /\ y.base = base /\ y.state = "ready"
        /\ y.run = "none" /\ y.exec = "none" /\ y.call = "none" /\ y.calls = 0 /\ y.budget = "reserved" /\ y.cost = "none"
<1>1. y \in ItemShape
  <2>1. "ready" \in States /\ "none" \in Runs /\ 0 \in 0..Allowance
    BY FollowUpsAssumption DEF States, Runs
  <2> QED BY <2>1 DEF NewItem, ItemShape
<1>2. /\ y.session = s /\ y.kind = kind /\ y.base = base /\ y.state = "ready"
      /\ y.run = "none" /\ y.exec = "none" /\ y.call = "none" /\ y.calls = 0 /\ y.budget = "reserved" /\ y.cost = "none"
  BY DEF NewItem
<1> QED BY <1>1, <1>2 DEF Rules, Settled, Engaged

\* A list with one more at its end.
LEMMA OneMore ==
  ASSUME NEW S, NEW q \in Seq(S), NEW x \in S, NEW p, p = Append(q, x)
  PROVE /\ p \in Seq(S) /\ Len(p) = Len(q) + 1 /\ p[Len(q) + 1] = x /\ Len(q) \in Nat
        /\ DOMAIN q = 1..Len(q) /\ DOMAIN p = 1..(Len(q) + 1)
        /\ \A i \in DOMAIN q : i \in DOMAIN p /\ p[i] = q[i] /\ i # Len(q) + 1
        /\ \A i \in DOMAIN p : i = Len(q) + 1 \/ i \in DOMAIN q
OBVIOUS

\* admitRequest
LEMMA AdmitStep ==
  ASSUME IInv, NEW s \in DOMAIN session, NEW k \in Kinds, Admit(s, k[1], k[2])
  PROVE IInv'
<1> DEFINE new == NewItem(s, k[1], k[2], session[s].active)
           r == [session[s] EXCEPT !.state = "running"]
           n == Len(item) + 1
<1>1. /\ todo = Nothing /\ phase = "up" /\ phase' = "up" /\ session[s].purpose # "turn"
      /\ session[s].state # "finished" /\ MayAsk(s, k[1], k[2]) /\ shot' = shot /\ todo' = <<"dispatch", s>>
      /\ item' = Append(item, new) /\ session' = [session EXCEPT ![s] = r]
  BY DEF Admit, Gives, Steady, Then
<1>2. /\ session[s] \in SessionShape /\ session[s].outcome = "none" /\ session[s].active \in 0..Len(shot) /\ s = Latest
      /\ s \in Nat /\ Len(shot) \in Nat
  BY <1>1, OpenFacts, SessionFacts DEF IInv
<1>3. /\ r \in SessionShape /\ r.state = "running" /\ r.outcome = "none" /\ r.active = session[s].active
      /\ r.purpose = session[s].purpose /\ r.disc = session[s].disc
  BY <1>2 DEF SessionShape
<1> HIDE DEF r
<1>4. /\ new \in ItemShape /\ Rules(new) /\ new.session = s /\ new.kind # "turn" /\ new.state = "ready"
      /\ new.exec = "none" /\ new.call = "none"
  <2>1. k[1] \in {"question", "redo", "reevaluate"} /\ k[2] \in Findings \cup Nat
    BY <1>1, Asked
  <2>2. session[s].active \in Nat
    BY <1>2
  <2>3. k[1] \in {"question", "redo", "reevaluate", "turn"} /\ k[1] # "turn"
    BY <2>1
  <2> DEFINE kind == k[1]
             target == k[2]
             base == session[s].active
  <2>4. /\ new = NewItem(s, kind, target, base) /\ kind \in {"question", "redo", "reevaluate", "turn"} /\ kind # "turn"
        /\ target \in Findings \cup Nat /\ base \in Nat /\ s \in Nat
    BY <1>2, <2>1, <2>2, <2>3
  <2> HIDE DEF new, kind, target, base
  <2>5. /\ new \in ItemShape /\ Rules(new) /\ new.session = s /\ new.kind = kind /\ new.base = base /\ new.state = "ready"
        /\ new.run = "none" /\ new.exec = "none" /\ new.call = "none" /\ new.calls = 0 /\ new.budget = "reserved"
        /\ new.cost = "none"
    BY <2>4, NewItemFacts, SMTT(30)
  <2> QED BY <2>4, <2>5
<1> HIDE DEF new
<1>5. /\ session' \in Seq(SessionShape) /\ Len(session') = Len(session) /\ DOMAIN session' = DOMAIN session
      /\ session'[s] = r /\ \A t \in DOMAIN session : t # s => session'[t] = session[t]
  BY <1>1, <1>3, OneSession DEF IInv
<1>6. /\ item' \in Seq(ItemShape) /\ item'[n] = new
      /\ \A i \in DOMAIN item : i \in DOMAIN item' /\ item'[i] = item[i]
      /\ \A i \in DOMAIN item' : i = n \/ i \in DOMAIN item
  <2>1. item \in Seq(ItemShape)
    BY DEF IInv, Typed
  <2> QED BY <1>1, <1>4, <2>1, OneMore
<1> HIDE DEF n
<1>7. /\ \A i \in DOMAIN item : item[i].session \in DOMAIN session
      /\ \A t \in DOMAIN session : t # s => session[t].state = "finished" /\ session[t].disc = "none"
  BY <1>2 DEF IInv, ItemsOK, SessionsOK
<1>8. /\ \A t \in DOMAIN session : session'[t].purpose = session[t].purpose
      /\ Latest' = Latest
  BY <1>3, <1>5 DEF Latest
<1>9. Typed'
  BY <1>1, <1>5, <1>6 DEF Typed, IInv
<1>10. ItemsOK'
  BY <1>1, <1>4, <1>5, <1>6, <1>8 DEF IInv, ItemsOK
<1>11. Alone'
  BY <1>2, <1>3, <1>4, <1>5, <1>6, <1>8, SMTT(30) DEF IInv, Alone
<1>12. CallsOK'
  <2> SUFFICES ASSUME NEW i \in DOMAIN item'
      PROVE /\ item'[i].call \in Engaged => item'[i].exec # "none"
            /\ session'[item'[i].session].state # "paused" \/ item'[i].exec = "none"
    BY <1>1 DEF CallsOK
  <2>1. CASE i = n
    BY <1>4, <1>6, <2>1 DEF Engaged
  <2>2. CASE i \in DOMAIN item
    <3>1. item'[i] = item[i] /\ session'[item[i].session].state # "paused"
      BY <1>3, <1>5, <1>6, <1>7, <2>2
    <3>2. item[i].call \in Engaged => item[i].exec # "none"
      BY <1>1, <2>2 DEF IInv, CallsOK, Nothing
    <3> QED BY <3>1, <3>2
  <2> QED BY <1>6, <2>1, <2>2
<1>13. SessionsOK'
  <2> SUFFICES ASSUME NEW t \in DOMAIN session
      PROVE /\ session'[t].state # "finished" <=> session'[t].outcome = "none"
            /\ session'[t].state # "finished" => t = Latest
            /\ session'[t].active \in 0..Len(shot)
            /\ session'[t].disc # "none" => session'[t].state # "finished" /\ session'[t].purpose # "turn"
            /\ session'[t].purpose = "turn" => session'[t].state \in {"running", "finished"}
            /\ session'[t].purpose = "turn" => session'[t].state = "finished"
    BY <1>1, <1>5, <1>8 DEF SessionsOK
  <2>1. CASE t = s
    BY <1>1, <1>2, <1>3, <1>5, <2>1
  <2>2. CASE t # s
    BY <1>5, <1>7, <2>2 DEF IInv, SessionsOK
  <2> QED BY <2>1, <2>2
<1>14. FirstAlone'
  <2> SUFFICES ASSUME NEW t \in DOMAIN session, session'[t].disc # "none"
      PROVE /\ \A i \in DOMAIN item' : item'[i].state # "running" /\ (item'[i].session = t => item'[i].state # "succeeded")
            /\ \A k1 \in DOMAIN shot : shot[k1].session # t
    BY <1>1, <1>5 DEF FirstAlone
  <2>1. session[t].disc # "none"
    BY <1>3, <1>5
  <2> QED BY <1>4, <1>6, <2>1 DEF IInv, FirstAlone
<1>15. ShotsOK'
  <2> SUFFICES ASSUME NEW m \in DOMAIN shot
      PROVE /\ shot[m].session \in DOMAIN session /\ m <= session'[shot[m].session].active
            /\ \A i \in shot[m].included :
                 /\ i \in DOMAIN item' /\ item'[i].session = shot[m].session /\ ~item'[i].kept
                 /\ item'[i].kind \in {"redo", "reevaluate"} =>
                      item'[i].base < m /\ \A m1 \in DOMAIN shot : i \in shot[m1].included => m1 = m
    BY <1>1, <1>5 DEF ShotsOK
  <2>1. shot[m].session \in DOMAIN session /\ m <= session'[shot[m].session].active
    BY <1>3, <1>5 DEF IInv, ShotsOK
  <2> QED BY <1>6, <2>1 DEF IInv, ShotsOK
<1>16. ReviewOK'
  <2> SUFFICES ASSUME NEW t \in DOMAIN session, session'[t].purpose = "followup", session'[t].outcome = "partial",
                      NEW i \in DOMAIN item', item'[i].session = t
      PROVE /\ item'[i].state \in {"succeeded", "failed", "cancelled", "skipped"}
            /\ item'[i].state = "succeeded" =>
                 item'[i].kept \/ \E m \in DOMAIN shot : shot[m].session = t /\ i \in shot[m].included
    BY <1>1, <1>5, SMTT(30) DEF ReviewOK
  <2>1. t # s /\ session'[t] = session[t]
    BY <1>3, <1>5
  <2>2. i # n
    BY <1>4, <1>6, <2>1
  <2>3. i \in DOMAIN item /\ item'[i] = item[i]
    BY <1>6, <2>2
  <2> QED BY <2>1, <2>3 DEF IInv, ReviewOK
<1>17. TodoOK'
  BY <1>1, <1>5, TodoDispatch
<1> QED BY <1>9, <1>10, <1>11, <1>12, <1>13, <1>14, <1>15, <1>16, <1>17 DEF IInv

\* A session of its own begins, in a project where nothing is under way.
LEMMA Begun ==
  ASSUME IInv, \A t \in DOMAIN session : session[t].state = "finished", phase = "up", phase' = "up",
         NEW ns \in SessionShape, ns.state = "running", ns.outcome = "none", ns.disc = "none",
         NEW ni \in ItemShape, Rules(ni), ni.session = Len(session) + 1, ni.exec = "none",
         ni.kind = "turn" <=> ns.purpose = "turn", ns.purpose = "turn" => ni.state = "running",
         ni.call \in Engaged => todo' = <<"open", Len(item) + 1>>,
         NEW new \in ShotShape, new.session = Len(session) + 1, new.included = {},
         \/ shot' = shot /\ ns.active = 0
         \/ shot' = Append(shot, new) /\ ns.active = Len(shot) + 1,
         session' = Append(session, ns), item' = Append(item, ni), TodoOK'
  PROVE IInv'
<1> DEFINE n == Len(item) + 1
           s == Len(session) + 1
           k0 == Len(shot) + 1
<1>1. /\ session' \in Seq(SessionShape) /\ Len(session') = s /\ session'[s] = ns /\ DOMAIN session' = 1..s
      /\ DOMAIN session = 1..Len(session) /\ Len(session) \in Nat
      /\ \A t \in DOMAIN session : t \in DOMAIN session' /\ session'[t] = session[t] /\ t # s
      /\ \A t \in DOMAIN session' : t = s \/ t \in DOMAIN session
  <2>1. session \in Seq(SessionShape)
    BY DEF IInv, Typed
  <2> QED BY <2>1, OneMore
<1>2. /\ item' \in Seq(ItemShape) /\ item'[n] = ni /\ n \in DOMAIN item'
      /\ \A i \in DOMAIN item : i \in DOMAIN item' /\ item'[i] = item[i] /\ i # n
      /\ \A i \in DOMAIN item' : i = n \/ i \in DOMAIN item
  <2>1. item \in Seq(ItemShape)
    BY DEF IInv, Typed
  <2> QED BY <2>1, OneMore
<1>3. /\ shot' \in Seq(ShotShape) /\ Len(shot) \in Nat /\ DOMAIN shot = 1..Len(shot)
      /\ Len(shot) <= Len(shot') /\ Len(shot') \in Nat
      /\ ns.active \in 0..Len(shot')
      /\ \A k \in DOMAIN shot : k \in DOMAIN shot' /\ shot'[k] = shot[k] /\ k # k0
      /\ \A k \in DOMAIN shot' : k \in DOMAIN shot \/ (k = k0 /\ shot'[k] = new /\ ns.active = k0)
  <2>1. shot \in Seq(ShotShape) /\ Len(shot) \in Nat /\ DOMAIN shot = 1..Len(shot)
    BY DEF IInv, Typed
  <2>2. CASE shot' = shot /\ ns.active = 0
    BY <2>1, <2>2
  <2>3. CASE shot' = Append(shot, new) /\ ns.active = Len(shot) + 1
    BY <2>1, <2>3, OneMore
  <2> QED BY <2>1, <2>2, <2>3
<1> HIDE DEF n, k0
<1>4. \A i \in DOMAIN item : /\ item[i].state # "running" /\ item[i].exec = "none" /\ item[i].call \notin Engaged
                             /\ item[i].session \in DOMAIN session /\ item[i].session # s
  <2> SUFFICES ASSUME NEW i \in DOMAIN item
      PROVE /\ item[i].state # "running" /\ item[i].exec = "none" /\ item[i].call \notin Engaged
            /\ item[i].session \in DOMAIN session /\ item[i].session # s
    OBVIOUS
  <2>1. item[i].session \in DOMAIN session
    BY DEF IInv, ItemsOK
  <2>2. item[i].state # "running"
    BY <2>1 DEF IInv, Alone
  <2> QED BY <1>1, <2>1, <2>2, AtRest
<1>5. /\ s \in DOMAIN session' /\ Latest' = s
      /\ \A t \in DOMAIN session : session[t].disc = "none"
  <2>1. \A t \in DOMAIN session : session[t].disc = "none"
    BY DEF IInv, SessionsOK
  <2> QED BY <1>1, <2>1 DEF Latest
<1>6. Typed'
  BY <1>1, <1>2, <1>3 DEF Typed, IInv
<1>7. ItemsOK'
  <2> SUFFICES ASSUME NEW i \in DOMAIN item'
      PROVE /\ Rules(item'[i]) /\ item'[i].session \in DOMAIN session'
            /\ item'[i].kind = "turn" <=> session'[item'[i].session].purpose = "turn"
    BY DEF ItemsOK
  <2>1. CASE i = n
    BY <1>1, <1>2, <1>5, <2>1
  <2>2. CASE i \in DOMAIN item
    BY <1>1, <1>2, <2>2 DEF IInv, ItemsOK
  <2> QED BY <1>2, <2>1, <2>2
<1>8. Alone'
  <2>1. \A i \in DOMAIN item' : item'[i].state = "running" => i = n
    BY <1>2, <1>4
  <2> QED BY <1>1, <1>2, <1>5, <2>1 DEF Alone
<1>9. CallsOK'
  <2> SUFFICES ASSUME NEW i \in DOMAIN item'
      PROVE item'[i].exec = "none" /\ (item'[i].call \in Engaged => todo' = <<"open", i>>)
    BY DEF CallsOK
  <2> QED BY <1>2, <1>4 DEF n
<1>10. SessionsOK'
  <2> SUFFICES ASSUME NEW t \in DOMAIN session'
      PROVE /\ session'[t].state # "finished" <=> session'[t].outcome = "none"
            /\ session'[t].state # "finished" => t = Latest'
            /\ session'[t].active \in 0..Len(shot')
            /\ session'[t].disc # "none" => session'[t].state # "finished" /\ session'[t].purpose # "turn"
            /\ session'[t].purpose = "turn" => session'[t].state \in {"running", "finished"}
            /\ session'[t].purpose = "turn" /\ session'[t].state # "finished" =>
                 \E i \in DOMAIN item' : item'[i].session = t /\ item'[i].state = "running"
    BY DEF SessionsOK
  <2>1. CASE t = s
    BY <1>1, <1>2, <1>3, <1>5, <2>1
  <2>2. CASE t \in DOMAIN session
    <3>1. session'[t] = session[t] /\ session[t].state = "finished" /\ session[t].active \in 0..Len(shot)
      BY <1>1, <2>2 DEF IInv, SessionsOK
    <3>2. session[t].active \in 0..Len(shot')
      BY <1>3, <3>1
    <3> QED BY <1>5, <2>2, <3>1, <3>2 DEF IInv, SessionsOK
  <2> QED BY <1>1, <2>1, <2>2
<1>11. FirstAlone'
  BY <1>1, <1>5 DEF FirstAlone
<1>12. ShotsOK'
  <2> SUFFICES ASSUME NEW k \in DOMAIN shot'
      PROVE /\ shot'[k].session \in DOMAIN session' /\ k <= session'[shot'[k].session].active
            /\ \A i \in shot'[k].included :
                 /\ i \in DOMAIN item' /\ item'[i].session = shot'[k].session /\ ~item'[i].kept
                 /\ item'[i].kind \in {"redo", "reevaluate"} =>
                      item'[i].base < k /\ \A m \in DOMAIN shot' : i \in shot'[m].included => m = k
    BY DEF ShotsOK
  <2>1. CASE k \notin DOMAIN shot
    <3>1. shot'[k] = new /\ k = ns.active /\ k = k0
      BY <1>3, <2>1
    <3>2. k \in Nat
      BY <1>3, <3>1 DEF k0
    <3>3. shot'[k].session = s /\ shot'[k].included = {}
      BY <3>1
    <3>4. k <= session'[s].active
      BY <1>1, <3>1, <3>2
    <3> QED BY <1>5, <3>3, <3>4
  <2>2. CASE k \in DOMAIN shot
    <3>1. shot'[k] = shot[k] /\ shot[k].session \in DOMAIN session
          /\ k <= session[shot[k].session].active
          /\ \A i \in shot[k].included :
               /\ i \in DOMAIN item /\ item[i].session = shot[k].session /\ ~item[i].kept
               /\ item[i].kind \in {"redo", "reevaluate"} =>
                    item[i].base < k /\ \A m \in DOMAIN shot : i \in shot[m].included => m = k
      BY <1>3, <2>2 DEF IInv, ShotsOK
    <3>2. \A m \in DOMAIN shot' : shot'[m].included # {} => m \in DOMAIN shot /\ shot'[m] = shot[m]
      BY <1>3
    <3>3. shot'[k].session \in DOMAIN session' /\ k <= session'[shot'[k].session].active
      BY <1>1, <3>1
    <3>4. ASSUME NEW i \in shot'[k].included
          PROVE /\ i \in DOMAIN item' /\ item'[i].session = shot'[k].session /\ ~item'[i].kept
                /\ item'[i].kind \in {"redo", "reevaluate"} =>
                      item'[i].base < k /\ \A m \in DOMAIN shot' : i \in shot'[m].included => m = k
      <4>1. i \in shot[k].included /\ i \in DOMAIN item /\ item'[i] = item[i] /\ i \in DOMAIN item'
        BY <1>2, <3>1, <3>4
      <4> QED BY <3>1, <3>2, <4>1
    <3> QED BY <3>3, <3>4
  <2> QED BY <2>1, <2>2
<1>13. ReviewOK'
  <2> SUFFICES ASSUME NEW t \in DOMAIN session', session'[t].purpose = "followup", session'[t].outcome = "partial",
                      NEW i \in DOMAIN item', item'[i].session = t
      PROVE /\ item'[i].state \in {"succeeded", "failed", "cancelled", "skipped"}
            /\ item'[i].state = "succeeded" =>
                 item'[i].kept \/ \E k \in DOMAIN shot' : shot'[k].session = t /\ i \in shot'[k].included
    BY DEF ReviewOK
  <2>1. t # s
    BY <1>1
  <2>2. t \in DOMAIN session /\ session'[t] = session[t]
    BY <1>1, <2>1
  <2>3. i # n
    BY <1>2, <2>1
  <2>4. i \in DOMAIN item /\ item'[i] = item[i]
    BY <1>2, <2>3
  <2> QED BY <1>3, <2>2, <2>4 DEF IInv, ReviewOK
<1> QED BY <1>6, <1>7, <1>8, <1>9, <1>10, <1>11, <1>12, <1>13 DEF IInv

\* continueFinishedSession
LEMMA ContinueStep ==
  ASSUME IInv, NEW s \in DOMAIN session, NEW k \in Kinds, Continue(s, k[1], k[2])
  PROVE IInv'
<1> DEFINE n == Len(session) + 1
           copy == Len(shot) + 1
           findings == shot[session[s].active].findings
           new == NewShot(n, session[s].active, findings, {})
           ns == [NewSession("followup", copy) EXCEPT !.state = "running"]
           kind == k[1]
           target == k[2]
           ni == NewItem(n, kind, target, copy)
<1>1. /\ phase = "up" /\ phase' = "up" /\ ProjectIdle /\ session[s].active # 0 /\ MayAsk(s, k[1], k[2])
      /\ session' = Append(session, ns) /\ shot' = Append(shot, new) /\ item' = Append(item, ni)
      /\ todo' = <<"dispatch", n>>
  BY DEF Continue, Gives, Steady, Then
<1>2. \A t \in DOMAIN session : session[t].state = "finished"
  BY <1>1 DEF ProjectIdle, Open
<1>3. /\ n \in Nat /\ copy \in Nat /\ DOMAIN shot = 1..Len(shot) /\ session[s].active \in DOMAIN shot
      /\ shot[session[s].active] \in ShotShape /\ session \in Seq(SessionShape)
  BY <1>1, SessionFacts DEF IInv, SessionsOK, Typed
<1>4. new \in ShotShape /\ new.session = n /\ new.included = {}
  <2>1. findings \in SUBSET (Findings \cup Nat) /\ session[s].active \in Nat
    BY <1>3 DEF ShotShape
  <2> HIDE DEF findings
  <2> QED BY <1>3, <2>1 DEF NewShot, ShotShape
<1>5. /\ ns \in SessionShape /\ ns.state = "running" /\ ns.outcome = "none" /\ ns.disc = "none"
      /\ ns.active = copy /\ ns.purpose = "followup"
  BY <1>3, FollowUpsAssumption DEF NewSession, SessionShape
<1>6. /\ kind \in {"question", "redo", "reevaluate", "turn"} /\ kind # "turn" /\ target \in Findings \cup Nat
  <2>1. k[1] \in {"question", "redo", "reevaluate"} /\ k[2] \in Findings \cup Nat
    BY <1>1, Asked
  <2> QED BY <2>1
<1>7. ni = NewItem(n, kind, target, copy)
  OBVIOUS
<1> HIDE DEF new, ns, ni, kind, target, copy
<1>8. /\ ni \in ItemShape /\ Rules(ni) /\ ni.session = n /\ ni.kind = kind /\ ni.base = copy /\ ni.state = "ready"
      /\ ni.run = "none" /\ ni.exec = "none" /\ ni.call = "none" /\ ni.calls = 0 /\ ni.budget = "reserved"
      /\ ni.cost = "none"
  BY <1>3, <1>6, <1>7, NewItemFacts, SMTT(30)
<1>9. TodoOK'
  <2>1. n \in DOMAIN session'
    BY <1>1, <1>3, <1>5, OneMore
  <2> QED BY <1>1, <2>1, TodoDispatch
<1>10. /\ ni.call \notin Engaged /\ ni.session = Len(session) + 1 /\ new.session = Len(session) + 1
       /\ ns.active = Len(shot) + 1
  BY <1>4, <1>5, <1>8 DEF Engaged, copy
<1> HIDE DEF n
<1> QED BY <1>1, <1>2, <1>4, <1>5, <1>6, <1>8, <1>9, <1>10, Begun

\* submitTurn
LEMMA SubmitTurnStep ==
  ASSUME IInv, SubmitTurn
  PROVE IInv'
<1> DEFINE n == Len(session) + 1
           m == Len(item) + 1
           ns == [NewSession("turn", 0) EXCEPT !.state = "running"]
           z == NewItem(n, "turn", 0, 0)
           ni == [z EXCEPT !.state = "running", !.run = "queued", !.call = "prepared"]
           new == NewShot(n, 0, {}, {})
<1>1. /\ phase = "up" /\ phase' = "up" /\ ProjectIdle /\ shot' = shot
      /\ session' = Append(session, ns) /\ item' = Append(item, ni) /\ todo' = <<"open", m>>
  BY DEF SubmitTurn, Gives, Steady, Then
<1>2. \A t \in DOMAIN session : session[t].state = "finished"
  BY <1>1 DEF ProjectIdle, Open
<1>3. n \in Nat /\ session \in Seq(SessionShape) /\ item \in Seq(ItemShape)
  BY SessionFacts DEF IInv, Typed
<1>4. new \in ShotShape /\ new.session = n /\ new.included = {}
  BY <1>3 DEF NewShot, ShotShape
<1>5. /\ ns \in SessionShape /\ ns.state = "running" /\ ns.outcome = "none" /\ ns.disc = "none"
      /\ ns.active = 0 /\ ns.purpose = "turn"
  BY FollowUpsAssumption DEF NewSession, SessionShape
<1>6. z = NewItem(n, "turn", 0, 0)
  OBVIOUS
<1> HIDE DEF new, ns, z
<1>7. /\ z \in ItemShape /\ Rules(z) /\ z.session = n /\ z.kind = "turn" /\ z.base = 0 /\ z.state = "ready"
      /\ z.run = "none" /\ z.exec = "none" /\ z.call = "none" /\ z.calls = 0 /\ z.budget = "reserved"
      /\ z.cost = "none"
  <2> DEFINE kind == "turn"
             target == 0
             base == 0
  <2>1. /\ z = NewItem(n, kind, target, base) /\ kind \in {"question", "redo", "reevaluate", "turn"}
        /\ target \in Findings \cup Nat /\ base \in Nat /\ n \in Nat
    BY <1>3, <1>6
  <2>2. kind = "turn" /\ base = 0
    OBVIOUS
  <2> HIDE DEF kind, target, base, n
  <2>3. /\ z \in ItemShape /\ Rules(z) /\ z.session = n /\ z.kind = kind /\ z.base = base /\ z.state = "ready"
        /\ z.run = "none" /\ z.exec = "none" /\ z.call = "none" /\ z.calls = 0 /\ z.budget = "reserved"
        /\ z.cost = "none"
    BY <2>1, NewItemFacts
  <2> QED BY <2>2, <2>3
<1>8. /\ ni.session = n /\ ni.kind = "turn" /\ ni.state = "running" /\ ni.run = "queued" /\ ni.exec = "none"
      /\ ni.call = "prepared" /\ ni.calls = 0 /\ ni.budget = "reserved" /\ ni.cost = "none"
  BY <1>7 DEF ItemShape
<1>9. ni \in ItemShape
  <2>1. "running" \in States /\ "queued" \in Runs
    BY DEF States, Runs
  <2> QED BY <1>7, <2>1 DEF ItemShape
<1> HIDE DEF ni
<1>10. Rules(ni)
  <2>1. Allowance > 0
    BY FollowUpsAssumption
  <2> QED BY <1>8, <2>1 DEF Rules, Settled, Engaged
<1>11. /\ m \in DOMAIN item' /\ item'[m] = ni /\ n \in DOMAIN session' /\ session'[n] = ns
  BY <1>1, <1>3, <1>5, <1>9, OneMore
<1>12. TodoOK'
  BY <1>1, <1>5, <1>8, <1>11, TodoItem
<1>13. ni.session = Len(session) + 1 /\ new.session = Len(session) + 1 /\ todo' = <<"open", Len(item) + 1>>
  BY <1>1, <1>4, <1>8
<1> HIDE DEF n, m
<1> QED BY <1>1, <1>2, <1>4, <1>5, <1>8, <1>9, <1>10, <1>12, <1>13, Begun

-----------------------------------------------------------------------------
(* The process dies, and starts again. *)

\* While the process is not up nobody works, and after its calls have been settled none is under way.
LEMMA Stopped ==
  ASSUME IInv, phase # "up"
  PROVE /\ todo = Nothing /\ \A i \in DOMAIN item : item[i].exec = "none"
        /\ phase # "down" => \A i \in DOMAIN item : item[i].call \notin Engaged
BY DEF IInv, TodoOK, CallsOK, Nothing

\* A list of requests, one for each that was there.
LEMMA EachItem ==
  ASSUME Typed, NEW items, DOMAIN items = DOMAIN item, items = [i \in DOMAIN item |-> items[i]],
         \A i \in DOMAIN item : items[i] \in ItemShape
  PROVE items \in Seq(ItemShape) /\ Len(items) = Len(item)
<1>1. DOMAIN item = 1..Len(item) /\ Len(item) \in Nat
  BY SessionFacts
<1>2. items = [i \in 1..Len(item) |-> items[i]] /\ \A i \in 1..Len(item) : items[i] \in ItemShape
  BY <1>1
<1> QED BY <1>1, <1>2

LEMMA EachSession ==
  ASSUME Typed, NEW sessions, DOMAIN sessions = DOMAIN session, sessions = [s \in DOMAIN session |-> sessions[s]],
         \A s \in DOMAIN session : sessions[s] \in SessionShape
  PROVE sessions \in Seq(SessionShape) /\ Len(sessions) = Len(session)
<1>1. DOMAIN session = 1..Len(session) /\ Len(session) \in Nat
  BY SessionFacts
<1>2. sessions = [s \in 1..Len(session) |-> sessions[s]] /\ \A s \in 1..Len(session) : sessions[s] \in SessionShape
  BY <1>1
<1> QED BY <1>1, <1>2

\* What changes only who works on what, and how far its call came, leaves the rest as it was.
LEMMA OnlyWork ==
  ASSUME IInv, item' \in Seq(ItemShape), Len(item') = Len(item), session' \in Seq(SessionShape), Len(session') = Len(session),
         \A i \in DOMAIN item :
           /\ Rules(item'[i]) /\ item'[i].session = item[i].session /\ item'[i].kind = item[i].kind
           /\ item'[i].state = item[i].state /\ item'[i].kept = item[i].kept
           /\ item'[i].base = item[i].base /\ item'[i].exec = "none",
         \A s \in DOMAIN session :
           /\ session'[s].purpose = session[s].purpose
           /\ session'[s].state = session[s].state /\ session'[s].outcome = session[s].outcome
           /\ session'[s].active = session[s].active /\ (session'[s].disc # "none" <=> session[s].disc # "none"),
         shot' = shot, todo' = Nothing, phase' \in {"down", "turns"},
         phase' = "turns" => \A i \in DOMAIN item : item'[i].call \notin Engaged
  PROVE IInv'
<1>1. DOMAIN item' = DOMAIN item /\ DOMAIN session' = DOMAIN session
  <2>1. DOMAIN item' = 1..Len(item') /\ DOMAIN session' = 1..Len(session')
    OBVIOUS
  <2> QED BY <2>1, SessionFacts DEF IInv
<1>2. Latest' = Latest /\ Latest \in Nat /\ DOMAIN session = 1..Latest
  BY <1>1, SessionFacts DEF Latest, IInv
<1>3. \A i \in DOMAIN item : item[i].session \in DOMAIN session
  BY DEF IInv, ItemsOK
<1>4. Typed'
  BY <1>1 DEF Typed, IInv
<1>5. ItemsOK'
  BY <1>1, <1>3 DEF IInv, ItemsOK
<1>6. Alone'
  <2>1. ASSUME NEW i \in DOMAIN item, item[i].state = "running"
        PROVE item[i].session = Latest /\ session'[Latest].state # "finished"
    <3>1. item[i].session = Latest /\ session[Latest].state # "finished" /\ Latest \in DOMAIN session
      BY <1>3, <2>1 DEF IInv, Alone
    <3> QED BY <3>1
  <2>2. \A i, j \in DOMAIN item : item[i].state = "running" /\ item[j].state = "running" => i = j
    BY DEF IInv, Alone
  <2> QED BY <1>1, <1>2, <2>1, <2>2 DEF Alone
<1>7. CallsOK'
  BY <1>1 DEF CallsOK
<1>8. SessionsOK'
  BY <1>1, <1>2, SMTT(30) DEF IInv, SessionsOK
<1>9. FirstAlone'
  BY <1>1 DEF IInv, FirstAlone
<1>10. ShotsOK'
  <2> SUFFICES ASSUME NEW k \in DOMAIN shot
      PROVE /\ shot[k].session \in DOMAIN session /\ k <= session'[shot[k].session].active
            /\ \A i \in shot[k].included :
                 /\ i \in DOMAIN item /\ item'[i].session = shot[k].session /\ ~item'[i].kept
                 /\ item'[i].kind \in {"redo", "reevaluate"} =>
                      item'[i].base < k /\ \A m \in DOMAIN shot : i \in shot[m].included => m = k
    BY <1>1 DEF ShotsOK
  <2> QED BY SMTT(30) DEF IInv, ShotsOK
<1>11. ReviewOK'
  <2> SUFFICES ASSUME NEW t \in DOMAIN session, session[t].purpose = "followup", session[t].outcome = "partial",
                      NEW i \in DOMAIN item, item[i].session = t
      PROVE /\ item[i].state \in {"succeeded", "failed", "cancelled", "skipped"}
            /\ item[i].state = "succeeded" =>
                 item'[i].kept \/ \E k \in DOMAIN shot : shot[k].session = t /\ i \in shot[k].included
    BY <1>1, SMTT(30) DEF ReviewOK
  <2> QED BY DEF IInv, ReviewOK
<1> QED BY <1>4, <1>5, <1>6, <1>7, <1>8, <1>9, <1>10, <1>11, TodoNothing DEF IInv

LEMMA CrashStep ==
  ASSUME IInv, Crash
  PROVE IInv'
<1> DEFINE items == [i \in DOMAIN item |-> [item[i] EXCEPT !.exec = "none"]]
           disc(s) == IF session[s].disc = "going" THEN "saved" ELSE session[s].disc
           sessions == [s \in DOMAIN session |-> [session[s] EXCEPT !.disc = disc(s)]]
<1>1. item' = items /\ session' = sessions /\ shot' = shot /\ todo' = Nothing /\ phase' = "down"
  BY DEF Crash, Done
<1>2. ASSUME NEW i \in DOMAIN item
      PROVE /\ items[i] \in ItemShape /\ Rules(items[i]) /\ items[i].session = item[i].session
            /\ items[i].kind = item[i].kind /\ items[i].state = item[i].state /\ items[i].kept = item[i].kept
            /\ items[i].base = item[i].base /\ items[i].exec = "none"
  <2> DEFINE y == [item[i] EXCEPT !.exec = "none"]
  <2>1. item[i] \in ItemShape /\ Rules(item[i]) /\ items[i] = y
    BY ItemFacts
  <2>2. /\ y \in ItemShape /\ y.session = item[i].session /\ y.kind = item[i].kind /\ y.state = item[i].state
        /\ y.kept = item[i].kept /\ y.base = item[i].base /\ y.exec = "none" /\ y.call = item[i].call
        /\ y.calls = item[i].calls /\ y.run = item[i].run /\ y.cost = item[i].cost /\ y.budget = item[i].budget
    BY <2>1 DEF ItemShape
  <2> HIDE DEF y, items
  <2>3. Rules(y)
    BY <2>1, <2>2 DEF Rules
  <2> QED BY <2>1, <2>2, <2>3
<1>3. ASSUME NEW s \in DOMAIN session
      PROVE /\ sessions[s] \in SessionShape /\ sessions[s].purpose = session[s].purpose
            /\ sessions[s].state = session[s].state /\ sessions[s].outcome = session[s].outcome
            /\ sessions[s].active = session[s].active /\ (sessions[s].disc # "none" <=> session[s].disc # "none")
  <2>1. session[s] \in SessionShape
    BY SessionFacts DEF IInv
  <2>2. disc(s) \in {"none", "going", "saved"} /\ (disc(s) # "none" <=> session[s].disc # "none")
    BY <2>1 DEF SessionShape
  <2> HIDE DEF disc
  <2> QED BY <2>1, <2>2 DEF SessionShape
<1>4. /\ DOMAIN items = DOMAIN item /\ items = [i \in DOMAIN item |-> items[i]]
      /\ DOMAIN sessions = DOMAIN session /\ sessions = [s \in DOMAIN session |-> sessions[s]]
  OBVIOUS
<1> HIDE DEF items, sessions
<1>5. items \in Seq(ItemShape) /\ Len(items) = Len(item) /\ sessions \in Seq(SessionShape) /\ Len(sessions) = Len(session)
  BY <1>2, <1>3, <1>4, EachItem, EachSession DEF IInv
<1> QED BY <1>1, <1>2, <1>3, <1>5, OnlyWork

\* interruptInFlight
LEMMA InterruptStep ==
  ASSUME IInv, Interrupt
  PROVE IInv'
<1> DEFINE call(i) == IF item[i].call = "sent" THEN "unknown" ELSE IF item[i].call = "prepared" THEN "none" ELSE item[i].call
           items == [i \in DOMAIN item |-> [item[i] EXCEPT !.call = call(i)]]
<1>1. item' = items /\ session' = session /\ shot' = shot /\ todo' = todo /\ phase = "down" /\ phase' = "turns"
  <2>1. \A i \in DOMAIN item : item'[i] = [item[i] EXCEPT !.call = call(i)]
    <3> SUFFICES ASSUME NEW i \in DOMAIN item PROVE item'[i] = [item[i] EXCEPT !.call = call(i)]
      OBVIOUS
    <3>1. item[i] \in ItemShape
      BY ItemFacts
    <3>2. CASE item[i].call = "sent"
      BY <3>1, <3>2 DEF Interrupt, ItemShape
    <3>3. CASE item[i].call = "prepared"
      BY <3>1, <3>3 DEF Interrupt, ItemShape
    <3>4. CASE item[i].call \notin {"sent", "prepared"}
      BY <3>1, <3>4 DEF Interrupt, ItemShape
    <3> QED BY <3>2, <3>3, <3>4
  <2>2. /\ item' = [i \in DOMAIN item |-> item'[i]] /\ session' = session /\ shot' = shot /\ todo' = todo
        /\ phase = "down" /\ phase' = "turns"
    BY DEF Interrupt
  <2> HIDE DEF call
  <2> QED BY <2>1, <2>2
<1>2. todo = Nothing /\ \A i \in DOMAIN item : item[i].exec = "none"
  BY <1>1, Stopped
<1>3. ASSUME NEW i \in DOMAIN item
      PROVE /\ items[i] \in ItemShape /\ Rules(items[i]) /\ items[i].session = item[i].session
            /\ items[i].kind = item[i].kind /\ items[i].state = item[i].state /\ items[i].kept = item[i].kept
            /\ items[i].base = item[i].base /\ items[i].exec = "none" /\ items[i].call \notin Engaged
  <2> DEFINE y == [item[i] EXCEPT !.call = call(i)]
  <2>1. item[i] \in ItemShape /\ Rules(item[i]) /\ items[i] = y
    BY ItemFacts
  <2>2. /\ call(i) \in {"none", "done", "unknown"} /\ (call(i) = "unknown" => item[i].call \in {"sent", "unknown"})
        /\ (item[i].call \in {"none", "unknown"} => call(i) = item[i].call)
    BY <2>1 DEF ItemShape
  <2> HIDE DEF call
  <2>3. /\ y \in ItemShape /\ y.session = item[i].session /\ y.kind = item[i].kind /\ y.state = item[i].state
        /\ y.kept = item[i].kept /\ y.base = item[i].base /\ y.exec = item[i].exec /\ y.call = call(i)
        /\ y.calls = item[i].calls /\ y.run = item[i].run /\ y.cost = item[i].cost /\ y.budget = item[i].budget
    <3>1. call(i) \in {"none", "prepared", "sent", "done", "unknown"}
      BY <2>2
    <3> QED BY <2>1, <3>1 DEF ItemShape
  <2> HIDE DEF y, items
  <2>4. Rules(y)
    BY <2>1, <2>2, <2>3 DEF Rules, Engaged
  <2> QED BY <1>2, <2>1, <2>2, <2>3, <2>4 DEF Engaged
<1>4. /\ DOMAIN items = DOMAIN item /\ items = [i \in DOMAIN item |-> items[i]]
  OBVIOUS
<1> HIDE DEF items
<1>5. items \in Seq(ItemShape) /\ Len(items) = Len(item) /\ session \in Seq(SessionShape)
  BY <1>3, <1>4, EachItem DEF IInv, Typed
<1> QED BY <1>1, <1>2, <1>3, <1>5, OnlyWork

LEMMA ReadyStep ==
  ASSUME IInv, Ready
  PROVE IInv'
<1>1. phase = "sessions" /\ phase' = "up" /\ UNCHANGED <<session, item, shot, todo>>
  BY DEF Ready
<1>2. todo = Nothing /\ \A i \in DOMAIN item : item[i].call \notin Engaged /\ item[i].exec = "none"
  BY <1>1, Stopped
<1>3. CallsOK'
  BY <1>1, <1>2 DEF CallsOK
<1>4. Typed' /\ ItemsOK' /\ Alone' /\ SessionsOK' /\ FirstAlone' /\ ShotsOK' /\ ReviewOK'
  BY <1>1 DEF IInv, Typed, ItemsOK, Alone, SessionsOK, FirstAlone, ShotsOK, ReviewOK, Latest
<1> QED BY <1>1, <1>2, <1>3, <1>4, TodoNothing DEF IInv

\* Recovery leaves nobody at work: what is confined is sound for the calls too.
Recovered(s, items, r) ==
  /\ r.active = session[s].active /\ r.outcome # "partial"
  /\ \A i \in DOMAIN item : /\ items[i].kept = item[i].kept /\ items[i].exec = "none" /\ items[i].call \notin Engaged
                            /\ items[i].state = "running" => item[i].state = "running" /\ item[i].kind # "turn"
  /\ r.state = "finished" => \A i \in DOMAIN item : item[i].session = s => items[i].state # "running"
  /\ r.purpose = "turn" => r.state = "finished"
  /\ r.disc # "none" => /\ session[s].disc # "none" /\ r.state # "finished"
                        /\ \A i \in DOMAIN item : items[i].state = item[i].state

LEMMA ReconciledStep ==
  ASSUME IInv, phase \in {"turns", "sessions"}, phase' = "sessions", NEW s \in DOMAIN session, NEW items, NEW r,
         Confined(s, items, r), Recovered(s, items, r),
         item' = items, session' = [session EXCEPT ![s] = r], shot' = shot, todo' = todo
  PROVE IInv'
<1>1. Sound(s, items, r)
  <2>1. \A i, j \in DOMAIN item : items[i].state = "running" /\ items[j].state = "running" => i = j
    BY DEF IInv, Alone, Recovered
  <2>2. r.disc # "none" => \A i \in DOMAIN item : item[i].session = s => items[i].state \notin {"running", "succeeded"}
    BY DEF IInv, FirstAlone, Recovered
  <2>3. /\ r.state = "paused" => \A i \in DOMAIN item : item[i].session = s => items[i].exec = "none"
        /\ r.state = "finished" => \A i \in DOMAIN item : item[i].session = s => items[i].state # "running"
        /\ r.purpose = "turn" => r.state = "finished"
        /\ r.disc # "none" => r.state # "finished" /\ session[s].disc # "none"
    BY DEF Recovered
  <2> QED BY <2>1, <2>2, <2>3 DEF Sound
<1>2. SoundReview(s, items, r)
  BY DEF SoundReview, Recovered
<1>3. \A k \in DOMAIN shot : shot[k].session = s => k <= r.active
  BY DEF IInv, ShotsOK, Recovered
<1>4. Typed' /\ ItemsOK' /\ Alone' /\ SessionsOK' /\ FirstAlone' /\ ShotsOK' /\ ReviewOK'
  <2>1. phase' \in {"up", "down", "turns", "sessions"} /\ shot' = shot
    OBVIOUS
  <2>2. \A i \in DOMAIN item : items[i].kept # item[i].kept => \A k \in DOMAIN shot : i \notin shot[k].included
    BY DEF Recovered
  <2> QED BY <1>1, <1>2, <1>3, <2>1, <2>2, ConfinedHolds
<1>5. DOMAIN item' = DOMAIN item /\ \A i \in DOMAIN item : item'[i].kind = item[i].kind
  <2>1. items \in Seq(ItemShape) /\ Len(items) = Len(item)
    BY DEF Confined
  <2>2. DOMAIN items = 1..Len(items) /\ DOMAIN item = 1..Len(item)
    BY <2>1, SessionFacts DEF IInv
  <2> QED BY <2>1, <2>2 DEF Confined, Follows
<1>6. CallsOK'
  BY <1>5 DEF CallsOK, Recovered
<1>7. TodoOK'
  BY Stopped, TodoNothing
<1> QED BY <1>4, <1>6, <1>7 DEF IInv

\* reconcileInterrupted of the conversations
LEMMA ReconcileTurnsStep ==
  ASSUME IInv, ReconcileTurns
  PROVE IInv'
<1> DEFINE lost == {i \in DOMAIN item : item[i].kind = "turn" /\ Running(i)}
           cost(i) == IF item[i].cost = "reserved" THEN "committed" ELSE item[i].cost
           over(i) == [item[i] EXCEPT !.state = "unknown", !.run = "failed", !.budget = "uncertain", !.cost = cost(i)]
<1>1. /\ phase = "turns" /\ phase' = "sessions" /\ UNCHANGED <<shot, todo>>
      /\ item' = [i \in DOMAIN item |-> IF i \notin lost THEN item[i] ELSE over(i)]
      /\ session' = [s \in DOMAIN session |->
            IF \E i \in lost : item[i].session = s THEN Over(session[s], "needs-attention") ELSE session[s]]
  BY DEF ReconcileTurns
<1>2. todo = Nothing /\ \A i \in DOMAIN item : item[i].exec = "none" /\ item[i].call \notin Engaged
  BY <1>1, Stopped
<1>3. item = [i \in DOMAIN item |-> item[i]] /\ session = [s \in DOMAIN session |-> session[s]]
  BY DEF IInv, Typed
<1> HIDE DEF over
<1>4. CASE lost = {}
  <2>1. item' = item /\ session' = session
    <3>1. item' = [i \in DOMAIN item |-> item[i]]
      BY <1>1, <1>4
    <3>2. session' = [s \in DOMAIN session |-> session[s]]
      BY <1>1, <1>4
    <3> QED BY <1>3, <3>1, <3>2
  <2>2. CallsOK'
    BY <1>1, <1>2, <1>4, <2>1 DEF CallsOK, Running
  <2>3. Typed' /\ ItemsOK' /\ Alone' /\ SessionsOK' /\ FirstAlone' /\ ShotsOK' /\ ReviewOK'
    <3>0. UNCHANGED <<session, item, shot>> /\ phase' = "sessions"
      BY <1>1, <2>1
    <3>1. Typed' /\ ItemsOK' /\ Alone'
      BY <3>0 DEF IInv, Typed, ItemsOK, Alone, Latest
    <3>2. SessionsOK' /\ FirstAlone'
      BY <3>0 DEF IInv, SessionsOK, FirstAlone, Latest
    <3>3. ShotsOK' /\ ReviewOK'
      BY <3>0 DEF IInv, ShotsOK, ReviewOK
    <3> QED BY <3>1, <3>2, <3>3
  <2> QED BY <1>1, <1>2, <2>2, <2>3, TodoNothing DEF IInv
<1>5. CASE lost # {}
  <2>1. PICK i \in lost : TRUE
    BY <1>5
  <2>2. i \in DOMAIN item /\ item[i].kind = "turn" /\ item[i].state = "running"
    BY <2>1 DEF Running
  <2> DEFINE s == item[i].session
             y == over(i)
             r == Over(session[s], "needs-attention")
             items == [item EXCEPT ![i] = y]
  <2>3. /\ s \in DOMAIN session /\ session[s].state # "finished" /\ session[s].disc = "none"
        /\ session[s].purpose = "turn" /\ Rules(item[i]) /\ item[i] \in ItemShape
        /\ \A j \in DOMAIN item : j # i => item[j].state # "running"
    BY <2>2, AtWork
  <2>4. lost = {i}
    BY <2>2, <2>3 DEF Running
  <2> HIDE DEF lost
  <2>5. item' = items
    <3>1. item' = [j \in DOMAIN item |-> IF j = i THEN over(i) ELSE item[j]]
      BY <1>1, <2>4
    <3> QED BY <1>3, <3>1
  <2>6. session' = [session EXCEPT ![s] = r]
    <3>1. session' = [t \in DOMAIN session |-> IF t = s THEN Over(session[s], "needs-attention") ELSE session[t]]
      BY <1>1, <2>4
    <3> QED BY <1>3, <3>1
  <2>7. session[s] \in SessionShape
    BY <2>3, SessionFacts DEF IInv
  <2>8. /\ r \in SessionShape /\ r.state = "finished" /\ r.outcome = "needs-attention" /\ r.disc = "none"
        /\ r.purpose = session[s].purpose /\ r.active = session[s].active
    BY <2>3, <2>7 DEF Over, SessionShape
  <2>9. cost(i) \in {"none", "committed", "released"}
    BY <2>3 DEF ItemShape
  <2>10. /\ y.state = "unknown" /\ y.run = "failed" /\ y.budget = "uncertain" /\ y.cost = cost(i)
         /\ y.session = item[i].session /\ y.kind = item[i].kind /\ y.base = item[i].base /\ y.kept = item[i].kept
         /\ y.exec = item[i].exec /\ y.call = item[i].call /\ y.calls = item[i].calls
    BY <2>3 DEF ItemShape, over
  <2>11. y \in ItemShape
    <3>1. /\ "unknown" \in States /\ "failed" \in Runs /\ "uncertain" \in {"reserved", "spent", "released", "uncertain"}
          /\ cost(i) \in {"none", "reserved", "committed", "released"}
      BY <2>9 DEF States, Settled, Runs
    <3> HIDE DEF cost
    <3>2. [item[i] EXCEPT !.state = "unknown"] \in ItemShape
      BY <2>3, <3>1 DEF ItemShape
    <3>3. [[item[i] EXCEPT !.state = "unknown"] EXCEPT !.run = "failed"] \in ItemShape
      BY <3>1, <3>2 DEF ItemShape
    <3>4. [[[item[i] EXCEPT !.state = "unknown"] EXCEPT !.run = "failed"] EXCEPT !.budget = "uncertain"] \in ItemShape
      BY <3>1, <3>3 DEF ItemShape
    <3>5. y = [[[[item[i] EXCEPT !.state = "unknown"] EXCEPT !.run = "failed"] EXCEPT !.budget = "uncertain"]
                 EXCEPT !.cost = cost(i)]
      BY <2>3 DEF ItemShape, over
    <3> QED BY <3>1, <3>4, <3>5, ZenonT(60) DEF ItemShape
  <2> HIDE DEF y, r, cost
  <2>12. Rules(y)
    BY <1>2, <2>2, <2>3, <2>9, <2>10 DEF Rules, Settled
  <2>13. Follows(item[i], y)
    BY <2>2, <2>10, <2>11, <2>12 DEF Follows
  <2>14. /\ items \in Seq(ItemShape) /\ Len(items) = Len(item) /\ items[i] = y
         /\ \A j \in DOMAIN item : j # i => items[j] = item[j]
    BY <2>2, <2>11, OneItem DEF IInv
  <2> HIDE DEF items
  <2>15. Goes(s, r)
    BY <2>3, <2>8 DEF Goes, IInv, SessionsOK
  <2>16. Confined(s, items, r)
    BY <2>13, <2>14, <2>15 DEF Confined
  <2>17. \A j \in DOMAIN item : /\ items[j].kept = item[j].kept /\ items[j].exec = "none" /\ items[j].call \notin Engaged
                                /\ items[j].state # "running"
    BY <1>2, <2>2, <2>3, <2>10, <2>14
  <2>18. Recovered(s, items, r)
    BY <2>8, <2>17 DEF Recovered
  <2>19. phase \in {"turns", "sessions"} /\ phase' = "sessions" /\ shot' = shot /\ todo' = todo
    BY <1>1
  <2> HIDE DEF s
  <2> QED BY <2>3, <2>5, <2>6, <2>16, <2>18, <2>19, ReconciledStep
<1> QED BY <1>4, <1>5

\* reconcileInterrupted of the coordinator
LEMMA ReconcileStep ==
  ASSUME IInv, NEW s \in DOMAIN session, NEW lost \in BOOLEAN, Reconcile(s, lost)
  PROVE IInv'
<1> DEFINE running == In(s, "running")
           unsure == lost \/ \E i \in running : item[i].call = "unknown"
           ended(outcome) == Over([session[s] EXCEPT !.disc = "none"], outcome)
           asUnknown(i) == [item[i] EXCEPT !.state = "unknown", !.budget = "uncertain",
                                           !.run = IF i \in Active THEN "failed" ELSE item[i].run]
           asCancelled(i) == [item[i] EXCEPT !.state = "cancelled", !.budget = "spent",
                                             !.run = IF i \in Active THEN "cancelled" ELSE item[i].run]
<1>1. /\ phase = "sessions" /\ phase' = "sessions" /\ UNCHANGED <<shot, todo>>
      /\ session[s].state \in {"running", "pause-requested", "stop-requested"}
      /\ lost => session[s].disc = "saved"
      /\ \/ /\ unsure /\ item' = [i \in DOMAIN item |-> IF i \notin running THEN item[i] ELSE asUnknown(i)]
            /\ session' = [session EXCEPT ![s] = ended("needs-attention")]
         \/ /\ ~unsure /\ item' = [i \in DOMAIN item |-> IF i \notin running THEN SkipReady(s)[i] ELSE asCancelled(i)]
            /\ session' = [session EXCEPT ![s] = ended("cancelled")]
         \/ /\ ~unsure /\ item' = item /\ session' = [session EXCEPT ![s].state = "paused"]
  BY DEF Reconcile
<1>2. /\ session[s].state # "finished" /\ session[s] \in SessionShape /\ session[s].outcome = "none"
      /\ session[s].active \in 0..Len(shot) /\ s = Latest
  BY <1>1, OpenFacts
<1>3. \A i \in DOMAIN item : /\ item[i].exec = "none" /\ item[i].call \notin Engaged
                             /\ item[i].state = "running" => item[i].kind # "turn"
  BY <1>1, Stopped DEF IInv, CallsOK
<1>4. session[s].purpose # "turn"
  <2>1. ASSUME session[s].purpose = "turn" PROVE FALSE
    <3>1. PICK i \in DOMAIN item : item[i].session = s /\ item[i].state = "running"
      BY <1>2, <2>1 DEF IInv, SessionsOK
    <3>2. item[i].kind = "turn"
      BY <2>1, <3>1 DEF IInv, ItemsOK
    <3> QED BY <1>3, <3>1, <3>2
  <2> QED BY <2>1
<1>5. \A i \in running : i \in DOMAIN item /\ item[i].session = s /\ item[i].state = "running"
  BY DEF In, Items
<1>6. \A i \in DOMAIN item : i \notin running => item[i].state # "running"
  BY <1>2 DEF In, Items, IInv, Alone
<1>7. ASSUME NEW outcome \in {"needs-attention", "cancelled"}
      PROVE /\ ended(outcome) \in SessionShape /\ ended(outcome).state = "finished" /\ ended(outcome).outcome = outcome
            /\ ended(outcome).disc = "none" /\ ended(outcome).purpose = session[s].purpose
            /\ ended(outcome).active = session[s].active
  BY <1>2 DEF Over, SessionShape
<1> HIDE DEF running, ended
<1>8. ASSUME NEW items, NEW outcome \in {"needs-attention", "cancelled"},
             DOMAIN items = DOMAIN item, items = [i \in DOMAIN item |-> items[i]],
             \A i \in DOMAIN item :
               /\ items[i] = item[i] \/ (item[i].session = s /\ Follows(item[i], items[i]))
               /\ items[i] \in ItemShape /\ items[i].kept = item[i].kept /\ items[i].exec = "none"
               /\ items[i].call \notin Engaged /\ items[i].state # "running",
             item' = items, session' = [session EXCEPT ![s] = ended(outcome)]
      PROVE IInv'
  <2> DEFINE r == ended(outcome)
  <2>1. items \in Seq(ItemShape) /\ Len(items) = Len(item)
    BY <1>8, EachItem DEF IInv
  <2>2. /\ r \in SessionShape /\ r.state = "finished" /\ r.outcome = outcome
        /\ r.disc = "none" /\ r.purpose = session[s].purpose /\ r.active = session[s].active
    BY <1>7, <1>8
  <2>3. item' = items /\ session' = [session EXCEPT ![s] = r]
    BY <1>8
  <2> HIDE DEF r
  <2>4. Goes(s, r)
    BY <1>2, <1>8, <2>2 DEF Goes
  <2>5. Confined(s, items, r)
    BY <1>8, <2>1, <2>4 DEF Confined
  <2>6. r.outcome # "partial" /\ r.active = session[s].active
    BY <1>8, <2>2
  <2>7. \A i \in DOMAIN item : /\ items[i].kept = item[i].kept /\ items[i].exec = "none" /\ items[i].call \notin Engaged
                               /\ items[i].state = "running" => item[i].state = "running" /\ item[i].kind # "turn"
    BY <1>8
  <2>8. r.state = "finished" => \A i \in DOMAIN item : item[i].session = s => items[i].state # "running"
    BY <1>8
  <2>9. /\ r.purpose = "turn" => r.state = "finished"
        /\ r.disc # "none" => session[s].disc # "none" /\ r.state # "finished" /\ \A i \in DOMAIN item : items[i].state = item[i].state
    BY <2>2
  <2>10. phase \in {"turns", "sessions"} /\ phase' = "sessions" /\ shot' = shot /\ todo' = todo
    BY <1>1
  <2>11. Recovered(s, items, r)
    BY <2>6, <2>7, <2>8, <2>9 DEF Recovered
  <2> QED BY <2>3, <2>5, <2>10, <2>11, ReconciledStep
<1>9. CASE /\ unsure /\ item' = [i \in DOMAIN item |-> IF i \notin running THEN item[i] ELSE asUnknown(i)]
           /\ session' = [session EXCEPT ![s] = ended("needs-attention")]
  <2> DEFINE items == [i \in DOMAIN item |-> IF i \notin running THEN item[i] ELSE asUnknown(i)]
  <2>1. ASSUME NEW i \in running
        PROVE /\ asUnknown(i) \in ItemShape /\ Follows(item[i], asUnknown(i)) /\ asUnknown(i).kept = item[i].kept
              /\ asUnknown(i).exec = "none" /\ asUnknown(i).call \notin Engaged /\ asUnknown(i).state = "unknown"
    <3>1. i \in DOMAIN item /\ item[i].state = "running" /\ item[i].session = s
      BY <1>5
    <3>2. item[i] \in ItemShape /\ Rules(item[i])
      BY <3>1, ItemFacts
    <3>3. item[i].call = "unknown"
      <4>1. ~lost
        BY <1>1, <3>1 DEF IInv, FirstAlone
      <4>2. PICK j \in running : item[j].call = "unknown"
        BY <1>9, <4>1
      <4>3. j = i
        BY <1>5, <3>1, <4>2 DEF IInv, Alone
      <4> QED BY <4>2, <4>3
    <3> DEFINE run == IF i \in Active THEN "failed" ELSE item[i].run
               z == asUnknown(i)
    <3>4. run \in Runs \ {"queued", "running"}
      BY <3>1, <3>2 DEF Active, ItemShape, Runs
    <3>5. z = [item[i] EXCEPT !.state = "unknown", !.budget = "uncertain", !.run = run]
      OBVIOUS
    <3> HIDE DEF run, asUnknown
    <3>6. /\ z.state = "unknown" /\ z.budget = "uncertain" /\ z.run = run /\ z.session = item[i].session
          /\ z.kind = item[i].kind /\ z.base = item[i].base /\ z.kept = item[i].kept /\ z.exec = item[i].exec
          /\ z.call = item[i].call /\ z.calls = item[i].calls /\ z.cost = item[i].cost
      BY <3>2, <3>5 DEF ItemShape
    <3>7. z \in ItemShape
      <4>1. "unknown" \in States /\ run \in Runs /\ "uncertain" \in {"reserved", "spent", "released", "uncertain"}
        BY <3>4 DEF States, Settled
      <4>2. [item[i] EXCEPT !.state = "unknown"] \in ItemShape
        BY <3>2, <4>1 DEF ItemShape
      <4>3. [[item[i] EXCEPT !.state = "unknown"] EXCEPT !.budget = "uncertain"] \in ItemShape
        BY <4>1, <4>2 DEF ItemShape
      <4>4. z = [[[item[i] EXCEPT !.state = "unknown"] EXCEPT !.budget = "uncertain"] EXCEPT !.run = run]
        BY <3>2, <3>5 DEF ItemShape
      <4> QED BY <4>1, <4>3, <4>4, ZenonT(60) DEF ItemShape
    <3> HIDE DEF z
    <3>8. Rules(z)
      BY <1>3, <3>1, <3>2, <3>3, <3>4, <3>6 DEF Rules, Settled, Engaged
    <3>9. Follows(item[i], z)
      BY <3>1, <3>6, <3>7, <3>8 DEF Follows
    <3>10. z.exec = "none" /\ z.call \notin Engaged
      BY <1>3, <3>1, <3>6
    <3> QED BY <3>6, <3>7, <3>9, <3>10 DEF z
  <2>2. /\ DOMAIN items = DOMAIN item /\ items = [i \in DOMAIN item |-> items[i]]
        /\ item' = items /\ session' = [session EXCEPT ![s] = ended("needs-attention")]
        /\ \A i \in DOMAIN item : items[i] = IF i \notin running THEN item[i] ELSE asUnknown(i)
    BY <1>9
  <2> HIDE DEF asUnknown, items
  <2>3. \A i \in DOMAIN item :
               /\ items[i] = item[i] \/ (item[i].session = s /\ Follows(item[i], items[i]))
               /\ items[i] \in ItemShape /\ items[i].kept = item[i].kept /\ items[i].exec = "none"
               /\ items[i].call \notin Engaged /\ items[i].state # "running"
    BY <1>3, <1>5, <1>6, <2>1, <2>2, ItemFacts
  <2> QED BY <1>8, <2>2, <2>3
<1>10. CASE /\ ~unsure /\ item' = [i \in DOMAIN item |-> IF i \notin running THEN SkipReady(s)[i] ELSE asCancelled(i)]
            /\ session' = [session EXCEPT ![s] = ended("cancelled")]
  <2> DEFINE items == [i \in DOMAIN item |-> IF i \notin running THEN SkipReady(s)[i] ELSE asCancelled(i)]
  <2>1. ASSUME NEW i \in running
        PROVE /\ asCancelled(i) \in ItemShape /\ Follows(item[i], asCancelled(i)) /\ asCancelled(i).kept = item[i].kept
              /\ asCancelled(i).exec = "none" /\ asCancelled(i).call \notin Engaged /\ asCancelled(i).state = "cancelled"
    <3>1. i \in DOMAIN item /\ item[i].state = "running" /\ item[i].session = s
      BY <1>5
    <3>2. item[i] \in ItemShape /\ Rules(item[i])
      BY <3>1, ItemFacts
    <3>3. item[i].call # "unknown"
      BY <1>10
    <3> DEFINE run == IF i \in Active THEN "cancelled" ELSE item[i].run
               z == asCancelled(i)
    <3>4. run \in Runs \ {"queued", "running"}
      BY <3>1, <3>2 DEF Active, ItemShape, Runs
    <3>5. z = [item[i] EXCEPT !.state = "cancelled", !.budget = "spent", !.run = run]
      OBVIOUS
    <3> HIDE DEF run, asCancelled
    <3>6. /\ z.state = "cancelled" /\ z.budget = "spent" /\ z.run = run /\ z.session = item[i].session
          /\ z.kind = item[i].kind /\ z.base = item[i].base /\ z.kept = item[i].kept /\ z.exec = item[i].exec
          /\ z.call = item[i].call /\ z.calls = item[i].calls /\ z.cost = item[i].cost
      BY <3>2, <3>5 DEF ItemShape
    <3>7. z \in ItemShape
      <4>1. "cancelled" \in States /\ run \in Runs /\ "spent" \in {"reserved", "spent", "released", "uncertain"}
        BY <3>4 DEF States, Settled
      <4>2. [item[i] EXCEPT !.state = "cancelled"] \in ItemShape
        BY <3>2, <4>1 DEF ItemShape
      <4>3. [[item[i] EXCEPT !.state = "cancelled"] EXCEPT !.budget = "spent"] \in ItemShape
        BY <4>1, <4>2 DEF ItemShape
      <4>4. z = [[[item[i] EXCEPT !.state = "cancelled"] EXCEPT !.budget = "spent"] EXCEPT !.run = run]
        BY <3>2, <3>5 DEF ItemShape
      <4> QED BY <4>1, <4>3, <4>4, ZenonT(60) DEF ItemShape
    <3> HIDE DEF z
    <3>8. Rules(z)
      BY <1>3, <3>1, <3>2, <3>3, <3>4, <3>6 DEF Rules, Settled, Engaged
    <3>9. Follows(item[i], z)
      BY <3>1, <3>6, <3>7, <3>8 DEF Follows
    <3>10. z.exec = "none" /\ z.call \notin Engaged
      BY <1>3, <3>1, <3>6
    <3> QED BY <3>6, <3>7, <3>9, <3>10 DEF z
  <2> DEFINE skipped == SkipReady(s)
  <2>2. /\ DOMAIN items = DOMAIN item /\ items = [i \in DOMAIN item |-> items[i]]
        /\ item' = items /\ session' = [session EXCEPT ![s] = ended("cancelled")]
        /\ \A i \in DOMAIN item : items[i] = IF i \notin running THEN skipped[i] ELSE asCancelled(i)
    BY <1>10
  <2> HIDE DEF asCancelled, items
  <2>3. ASSUME NEW i \in DOMAIN item, i \notin running
        PROVE /\ skipped[i] = item[i] \/ (item[i].session = s /\ Follows(item[i], skipped[i]))
              /\ skipped[i] \in ItemShape /\ skipped[i].kept = item[i].kept /\ skipped[i].exec = "none"
              /\ skipped[i].call \notin Engaged /\ skipped[i].state # "running"
    <3>1. CASE i \notin In(s, "ready")
      BY <1>3, <1>6, <2>3, <3>1, ItemFacts DEF SkipReady
    <3>2. CASE i \in In(s, "ready")
      <4>1. skipped = PutAside(s, "skipped") /\ item[i].session = s
        BY <3>2 DEF SkipReady, PutAside, In, Items
      <4>2. /\ PutAside(s, "skipped") \in Seq(ItemShape) /\ Len(PutAside(s, "skipped")) = Len(item)
            /\ Follows(item[i], PutAside(s, "skipped")[i]) /\ PutAside(s, "skipped")[i].state = "skipped"
            /\ PutAside(s, "skipped")[i].kept = item[i].kept
            /\ PutAside(s, "skipped")[i].exec = "none" /\ PutAside(s, "skipped")[i].call = "none"
        BY <3>2, PutAsideFacts
      <4> HIDE DEF skipped
      <4>3. skipped[i] \in ItemShape
        BY <4>1, <4>2 DEF Follows
      <4> QED BY <4>1, <4>2, <4>3 DEF Engaged
    <3> QED BY <3>1, <3>2
  <2> HIDE DEF skipped
  <2>4. \A i \in DOMAIN item :
               /\ items[i] = item[i] \/ (item[i].session = s /\ Follows(item[i], items[i]))
               /\ items[i] \in ItemShape /\ items[i].kept = item[i].kept /\ items[i].exec = "none"
               /\ items[i].call \notin Engaged /\ items[i].state # "running"
    BY <1>5, <2>1, <2>2, <2>3
  <2> QED BY <1>8, <2>2, <2>4
<1>11. CASE item' = item /\ session' = [session EXCEPT ![s].state = "paused"]
  <2> DEFINE r == [session[s] EXCEPT !.state = "paused"]
  <2>1. session' = [session EXCEPT ![s] = r]
    BY <1>11
  <2>2. /\ r \in SessionShape /\ r.state = "paused" /\ r.outcome = "none" /\ r.disc = session[s].disc
        /\ r.purpose = session[s].purpose /\ r.active = session[s].active
    BY <1>2 DEF SessionShape
  <2> HIDE DEF r
  <2>3. Goes(s, r)
    BY <1>2, <1>4, <2>2 DEF Goes
  <2>4. Confined(s, item, r)
    BY <2>3 DEF Confined, IInv, Typed
  <2>5. \A i \in DOMAIN item : /\ item[i].kept = item[i].kept /\ item[i].exec = "none" /\ item[i].call \notin Engaged
                               /\ item[i].state = "running" => item[i].state = "running" /\ item[i].kind # "turn"
    BY <1>3
  <2>6. r.state = "finished" => \A i \in DOMAIN item : item[i].session = s => item[i].state # "running"
    BY <2>2
  <2>7. r.disc # "none" => session[s].disc # "none" /\ r.state # "finished" /\ \A i \in DOMAIN item : item[i].state = item[i].state
    BY <2>2
  <2>8. /\ r.purpose = "turn" => r.state = "finished" 
        /\ r.outcome # "partial" /\ r.active = session[s].active
    BY <1>4, <2>2
  <2>9. phase \in {"turns", "sessions"} /\ phase' = "sessions" /\ shot' = shot /\ todo' = todo /\ item' = item
    BY <1>1, <1>11
  <2>10. Recovered(s, item, r)
    BY <2>5, <2>6, <2>7, <2>8 DEF Recovered
  <2> QED BY <2>1, <2>4, <2>9, <2>10, ReconciledStep
<1> HIDE DEF unsure, asUnknown, asCancelled
<1> QED BY <1>1, <1>9, <1>10, <1>11

-----------------------------------------------------------------------------
(* The invariant of all of it. *)

LEMMA InitInv ==
  ASSUME Init
  PROVE IInv
<1>1. PICK first \in {[NewSession("research", 1) EXCEPT !.state = "finished", !.outcome = "target-met"],
                      NewSession("research", 1),
                      [NewSession("research", 0) EXCEPT !.state = "running", !.disc = "going"]} :
        /\ session = <<first>>
        /\ shot = IF first.active = 1 THEN <<NewShot(1, 0, Findings, {})>> ELSE <<>>
  BY DEF Init
<1>2. item = <<>> /\ todo = Nothing /\ phase = "up"
  BY DEF Init
<1>3. /\ first \in SessionShape /\ first.active \in {0, 1} /\ first.purpose = "research" /\ first.outcome # "partial"
      /\ first.state # "finished" <=> first.outcome = "none"
      /\ first.disc # "none" => first.active = 0 /\ first.state # "finished"
  <2>1. Allowance \in Nat
    BY FollowUpsAssumption
  <2>2. CASE first = NewSession("research", 1)
    BY <2>1, <2>2 DEF NewSession, SessionShape
  <2>3. CASE first = [NewSession("research", 1) EXCEPT !.state = "finished", !.outcome = "target-met"]
    BY <2>1, <2>3 DEF NewSession, SessionShape
  <2>4. CASE first = [NewSession("research", 0) EXCEPT !.state = "running", !.disc = "going"]
    BY <2>1, <2>4 DEF NewSession, SessionShape
  <2> QED BY <1>1, <2>2, <2>3, <2>4
<1>4. session = <<first>> /\ Len(session) = 1 /\ DOMAIN session = {1} /\ session[1] = first
  BY <1>1
<1>5. /\ shot \in Seq(ShotShape) /\ Len(shot) = first.active /\ DOMAIN shot = 1..first.active
      /\ \A k \in DOMAIN shot : shot[k].session = 1 /\ shot[k].included = {}
  <2> DEFINE new == NewShot(1, 0, Findings, {})
  <2>1. new \in ShotShape /\ new.session = 1 /\ new.included = {}
    BY DEF NewShot, ShotShape
  <2> HIDE DEF new
  <2>2. CASE first.active = 1
    <3>1. shot = <<new>>
      BY <1>1, <2>2 DEF new
    <3> QED BY <2>1, <2>2, <3>1
  <2>3. CASE first.active = 0
    <3>1. shot = <<>>
      BY <1>1, <2>3
    <3> QED BY <2>3, <3>1
  <2> QED BY <1>3, <2>2, <2>3
<1>6. DOMAIN item = {} /\ item \in Seq(ItemShape)
  BY <1>2
<1>7. Typed
  BY <1>2, <1>3, <1>4, <1>5, <1>6 DEF Typed
<1>8. ItemsOK /\ Alone /\ CallsOK
  BY <1>6 DEF ItemsOK, Alone, CallsOK
<1>9. SessionsOK
  BY <1>3, <1>4, <1>5 DEF SessionsOK, Latest
<1>10. FirstAlone
  BY <1>3, <1>4, <1>5, <1>6 DEF FirstAlone
<1>11. TodoOK
  BY <1>2, <1>6 DEF TodoOK, Nothing
<1>12. ShotsOK
  BY <1>3, <1>4, <1>5 DEF ShotsOK
<1>13. ReviewOK
  BY <1>3, <1>4 DEF ReviewOK
<1> QED BY <1>7, <1>8, <1>9, <1>10, <1>11, <1>12, <1>13 DEF IInv

LEMMA Stutter ==
  ASSUME IInv, UNCHANGED vars
  PROVE IInv'
<1>1. UNCHANGED <<session, item, shot, todo, phase>>
  BY DEF vars
<1>2. Typed' /\ ItemsOK' /\ Alone' /\ CallsOK'
  BY <1>1 DEF IInv, Typed, ItemsOK, Alone, CallsOK, Latest
<1>3. SessionsOK' /\ FirstAlone' /\ ShotsOK' /\ ReviewOK'
  BY <1>1 DEF IInv, SessionsOK, FirstAlone, ShotsOK, ReviewOK, Latest
<1>4. TodoOK'
  BY <1>1 DEF IInv, TodoOK
<1> QED BY <1>2, <1>3, <1>4 DEF IInv

LEMMA NextInv ==
  ASSUME IInv, [Next]_vars
  PROVE IInv'
<1>1. ASSUME NEW s \in DOMAIN session, NEW k \in Kinds, Admit(s, k[1], k[2]) \/ Continue(s, k[1], k[2])
      PROVE IInv'
  BY <1>1, AdmitStep, ContinueStep
<1>2. ASSUME NEW s \in DOMAIN session, NEW set \in SUBSET Items(s), Apply(s, set)
      PROVE IInv'
  BY <1>2, ApplyStep
<1>3. ASSUME NEW s \in DOMAIN session, Extend(s) \/ Pause(s) \/ Resume(s) \/ Stop(s) \/ Dispatch(s)
      PROVE IInv'
  BY <1>3, ExtendStep, PauseStep, ResumeStep, StopStep, DispatchStep
<1>4. ASSUME NEW i \in DOMAIN item, Keep(i) \/ Cancel(i) \/ Prepare(i) \/ Send(i) \/ Answer(i)
      PROVE IInv'
  BY <1>4, KeepStep, CancelStep, CallSteps
<1>5. ASSUME NEW i \in DOMAIN item, NEW starts \in BOOLEAN, Launch(i, starts)
      PROVE IInv'
  <2>1. CASE starts = TRUE
    BY <1>5, <2>1, LaunchStarts
  <2>2. CASE starts = FALSE
    BY <1>5, <2>2, LaunchFails
  <2> QED BY <2>1, <2>2
<1>6. ASSUME NEW i \in DOMAIN item,
             \/ \E how \in {"completed", "failed", "cancelled"}, found \in BOOLEAN :
                  \E call \in Fallen(item[i].call) : RunEnds(i, how, call, found)
             \/ \E call \in Fallen(item[i].call) : ReevaluationFails(i, call)
             \/ \E call \in Fallen(item[i].call) : TurnFails(i, call)
             \/ TurnAnswered(i)
      PROVE IInv'
  BY <1>6, EndSteps
<1>7. ASSUME NEW i \in DOMAIN item, Event(i) \/ Reevaluated(i) \/ CloseReevaluation(i) \/ OpenTurn(i) \/ CloseTurn(i)
      PROVE IInv'
  BY <1>7, EventStep, ReevaluatedStep, CloseReevaluationStep, OpenTurnStep, CloseTurnStep
<1>8. ASSUME NEW i \in DOMAIN item, NEW saved \in BOOLEAN, SaveTurn(i, saved)
      PROVE IInv'
  BY <1>8, SaveTurnStep
<1>9. ASSUME NEW s \in DOMAIN session, NEW how \in {"found", "empty", "failed"}, DiscoveryEnds(s, how)
      PROVE IInv'
  BY <1>9, DiscoveryEndsStep
<1>10. SubmitTurn \/ Crash \/ Interrupt \/ ReconcileTurns \/ Ready => IInv'
  BY SubmitTurnStep, CrashStep, InterruptStep, ReconcileTurnsStep, ReadyStep
<1>11. ASSUME NEW s \in DOMAIN session, NEW lost \in BOOLEAN, Reconcile(s, lost)
       PROVE IInv'
  BY <1>11, ReconcileStep
<1>12. UNCHANGED vars => IInv'
  BY Stutter
<1> QED
  <2>1. CASE Next
    BY <2>1, <1>1, <1>2, <1>3, <1>4, <1>5, <1>6, <1>7, <1>8, <1>9, <1>10, <1>11, Zenon DEF Next
  <2> QED BY <1>12, <2>1

THEOREM FollowUpsInvariant == Spec => []IInv
<1>1. Init => IInv
  BY InitInv
<1>2. IInv /\ [Next]_vars => IInv'
  BY NextInv
<1> QED BY <1>1, <1>2, PTL DEF Spec

\* A reservation says what became of its request, in every state: it is held until the request is settled, given
\* back only if nothing was sent, and kept whole where an answer may be lost; and nothing that is settled leaves a
\* run or a cost behind that would keep its project busy.
THEOREM FollowUpsAccounted == Spec => []Accounted
<1>1. ASSUME IInv
      PROVE Accounted
  <2>1. phase \in {"up", "down", "turns", "sessions"} /\ todo[2] \in Nat
    <3>1. DOMAIN session = 1..Len(session) /\ DOMAIN item = 1..Len(item) /\ Len(session) \in Nat /\ Len(item) \in Nat
      BY <1>1, SessionFacts DEF IInv
    <3> QED BY <1>1, <3>1 DEF IInv, Typed, TodoOK, Nothing
  <2>2. \A s \in DOMAIN session : session[s].active \in 0..Len(shot) /\ (Open(s) <=> session[s].outcome = "none")
    BY <1>1 DEF IInv, SessionsOK, Open
  <2>3. \A i \in DOMAIN item : item[i].session \in DOMAIN session /\ item[i].calls \in 0..Allowance
    BY <1>1, ItemFacts DEF IInv, ItemsOK, ItemShape
  <2>4. BudgetsTell
    <3>1. \A i \in DOMAIN item : Rules(item[i])
      BY <1>1 DEF IInv, ItemsOK
    <3>2. \A i \in DOMAIN item : Rules(item[i]) =>
            /\ item[i].state \in {"ready", "running"} <=> item[i].budget = "reserved"
            /\ item[i].budget = "released" => item[i].calls = 0
            /\ item[i].call = "unknown" => item[i].budget \in {"reserved", "uncertain"}
            /\ item[i].budget = "uncertain" => item[i].call = "unknown" \/ item[i].kind = "turn"
            /\ item[i].state = "succeeded" => item[i].run = "completed"
            /\ item[i].state \in Settled => i \notin Active /\ item[i].cost # "reserved"
      BY DEF Rules, Active
    <3> QED BY <3>1, <3>2 DEF BudgetsTell
  <2> QED BY <2>1, <2>2, <2>3, <2>4 DEF Accounted, TypeOK
<1> QED BY <1>1, FollowUpsInvariant, PTL

\* Of all that may be under way in a project - requests, turns, its first research - there is one at most, and no run
\* outlives the request it was for.
THEOREM FollowUpsOneAtATime == Spec => []OneAtATime
<1>1. ASSUME IInv
      PROVE OneAtATime
  <2> DEFINE running == {i \in DOMAIN item : Running(i)}
             left == {i \in Active : ~Running(i)}
  <2>1. left = {}
    <3>1. \A i \in DOMAIN item : Rules(item[i]) /\ item[i] \in ItemShape
      BY <1>1, ItemFacts
    <3>2. \A i \in DOMAIN item : item[i].run \in {"queued", "running"} => item[i].state = "running"
      BY <3>1 DEF Rules, ItemShape, States
    <3> QED BY <3>2 DEF Active, Running
  <2>2. running # {} => \E i : running = {i}
    BY <1>1 DEF IInv, Alone, Running
  <2>3. Discovering # {} => Discovering = {Latest}
    BY <1>1 DEF IInv, SessionsOK, Discovering
  <2>4. Discovering # {} => running = {}
    BY <1>1 DEF IInv, FirstAlone, Discovering, Running
  <2>5. /\ running # {} => Cardinality(running) = 1
        /\ Discovering # {} => Cardinality(Discovering) = 1
    BY <2>2, <2>3, FS_Singleton
  <2>6. Cardinality({}) = 0
    BY FS_EmptySet
  <2> HIDE DEF running, left
  <2>7. Cardinality(running) + Cardinality(Discovering) + Cardinality(left) <= 1
    BY <2>1, <2>4, <2>5, <2>6
  <2> QED BY <2>7 DEF OneAtATime, running, left
<1> QED BY <1>1, FollowUpsInvariant, PTL

\* A follow-up that ends with a result has settled all it was asked and has nothing left unread: each answer was
\* applied or set aside, never both; and a redone finding replaced the one it was asked about in one snapshot only.
THEOREM FollowUpsReviewedOnce == Spec => []ReviewedOnce
<1>1. ASSUME IInv
      PROVE ReviewedOnce
  <2>1. ASSUME NEW s \in DOMAIN session, session[s].purpose = "followup", session[s].outcome = "partial",
               NEW i \in Items(s)
        PROVE /\ item[i].state \in {"succeeded", "failed", "cancelled", "skipped"}
              /\ item[i].state = "succeeded" => i \in Applied(s) \/ item[i].kept
    <3>1. i \in DOMAIN item /\ item[i].session = s
      BY DEF Items
    <3>2. /\ item[i].state \in {"succeeded", "failed", "cancelled", "skipped"}
          /\ item[i].state = "succeeded" =>
               item[i].kept \/ \E k \in DOMAIN shot : shot[k].session = s /\ i \in shot[k].included
      BY <1>1, <2>1, <3>1 DEF IInv, ReviewOK
    <3> QED BY <3>2 DEF Applied, Snapshots
  <2>2. ASSUME NEW s \in DOMAIN session, NEW i \in Applied(s)
        PROVE ~item[i].kept /\ (Targeted(i) => Cardinality({k \in Snapshots(s) : i \in shot[k].included}) = 1)
    <3>1. PICK k \in DOMAIN shot : shot[k].session = s /\ i \in shot[k].included
      BY DEF Applied, Snapshots
    <3>2. ~item[i].kept
      BY <1>1, <3>1 DEF IInv, ShotsOK
    <3>3. ASSUME Targeted(i)
          PROVE Cardinality({m \in Snapshots(s) : i \in shot[m].included}) = 1
      <4>1. \A m \in DOMAIN shot : i \in shot[m].included => m = k
        BY <1>1, <3>1, <3>3 DEF IInv, ShotsOK, Targeted
      <4>2. {m \in Snapshots(s) : i \in shot[m].included} = {k}
        BY <3>1, <4>1 DEF Snapshots
      <4> QED BY <4>2, FS_Singleton
    <3> QED BY <3>2, <3>3
  <2> QED BY <2>1, <2>2 DEF ReviewedOnce
<1> QED BY <1>1, FollowUpsInvariant, PTL

-----------------------------------------------------------------------------
(* Sessions and requests keep to the lifecycle the workflow promises. *)

\* A session that waits for its owner's review has nothing under way.
WaitsAtRest == \A s \in DOMAIN session : session[s].state = "waiting-for-review" =>
  session[s].disc = "none" /\ \A i \in DOMAIN item : item[i].session = s => item[i].state # "running"

MayGo(from, to) ==
  \/ to = "finished"
  \/ from = "running" /\ to \in {"running", "pause-requested", "stop-requested", "paused", "waiting-for-review"}
  \/ from = "pause-requested" /\ to \in {"pause-requested", "paused", "stop-requested"}
  \/ from = "stop-requested" /\ to = "stop-requested"
  \/ from = "paused" /\ to \in {"paused", "running", "waiting-for-review", "stop-requested"}
  \/ from = "waiting-for-review" /\ to \in {"waiting-for-review", "running"}

\* Requests of session s start, settle or come; the others, and what is settled, stay.
Tends(s) ==
  /\ Len(item') = Len(item) \/ (Len(item') = Len(item) + 1 /\ item'[Len(item) + 1].session = s)
  /\ \A i \in DOMAIN item :
       /\ item'[i].session = item[i].session
       /\ item'[i].state = item[i].state \/ (item[i].session = s /\ item[i].state \in {"ready", "running"})
Moves(s) ==
  /\ session[s].state # "finished" /\ MayGo(session[s].state, session'[s].state)
  /\ Len(session') = Len(session) /\ \A t \in DOMAIN session : t # s => session'[t] = session[t]
  /\ session'[s].state = "waiting-for-review" =>
       session'[s].disc = "none" /\ \A i \in DOMAIN item' : item'[i].session = s => item'[i].state # "running"
  /\ Tends(s)
Stays ==
  /\ Len(session') = Len(session) /\ Len(item') = Len(item)
  /\ \A s \in DOMAIN session : /\ session'[s].state = session[s].state /\ session'[s].outcome = session[s].outcome
                               /\ session[s].disc = "none" => session'[s].disc = "none"
  /\ \A i \in DOMAIN item : item'[i].session = item[i].session /\ item'[i].state = item[i].state
Opens ==
  /\ \A s \in DOMAIN session : session[s].state = "finished"
  /\ Len(session') = Len(session) + 1 /\ \A s \in DOMAIN session : session'[s] = session[s]
  /\ session'[Len(session) + 1].state = "running" /\ session'[Len(session) + 1].outcome = "none"
  /\ Len(item') = Len(item) + 1 /\ item'[Len(item) + 1].session = Len(session) + 1
  /\ \A i \in DOMAIN item : item'[i] = item[i]
Lives == Stays \/ Opens \/ \E s \in DOMAIN session : Moves(s)

\* What the abstract lifecycle sees.
Life == [s \in DOMAIN session |-> [state |-> session[s].state, outcome |-> session[s].outcome]]
Work == [i \in DOMAIN item |-> [session |-> item[i].session, state |-> item[i].state]]

LEMMA Sizes ==
  ASSUME IInv
  PROVE /\ DOMAIN session = 1..Len(session) /\ DOMAIN item = 1..Len(item) /\ Len(session) \in Nat /\ Len(item) \in Nat
        /\ Life \in Seq({Life[s] : s \in DOMAIN session}) /\ Len(Life) = Len(session) /\ DOMAIN Life = DOMAIN session
        /\ Len(Work) = Len(item) /\ DOMAIN Work = DOMAIN item
        /\ \A s \in DOMAIN session : session[s] \in SessionShape
        /\ \A s \in DOMAIN session : session[s].state # "finished" <=> session[s].outcome = "none"
        /\ \A i \in DOMAIN item : item[i].session \in DOMAIN session
<1>1. /\ DOMAIN session = 1..Len(session) /\ DOMAIN item = 1..Len(item) /\ Len(session) \in Nat /\ Len(item) \in Nat
      /\ \A s \in DOMAIN session : session[s] \in SessionShape
  BY SessionFacts DEF IInv
<1>2. Life = [s \in 1..Len(session) |-> [state |-> session[s].state, outcome |-> session[s].outcome]]
  BY <1>1 DEF Life
<1>3. Work = [i \in 1..Len(item) |-> [session |-> item[i].session, state |-> item[i].state]]
  BY <1>1 DEF Work
<1>5. Life \in Seq({Life[s] : s \in DOMAIN session}) /\ Len(Life) = Len(session) /\ DOMAIN Life = DOMAIN session
  <2>1. Life = [s \in 1..Len(session) |-> Life[s]] /\ \A s \in 1..Len(session) : Life[s] \in {Life[t] : t \in DOMAIN session}
    BY <1>1, <1>2
  <2> QED BY <1>1, <2>1
<1>6. Len(Work) = Len(item) /\ DOMAIN Work = DOMAIN item
  BY <1>1, <1>3
<1> QED BY <1>1, <1>5, <1>6 DEF IInv, SessionsOK, ItemsOK

LEMMA SizesAfter ==
  ASSUME IInv'
  PROVE /\ DOMAIN session' = 1..Len(session') /\ DOMAIN item' = 1..Len(item') /\ Len(session') \in Nat /\ Len(item') \in Nat
        /\ Len(Life') = Len(session') /\ DOMAIN Life' = DOMAIN session'
        /\ Len(Work') = Len(item') /\ DOMAIN Work' = DOMAIN item'
        /\ \A s \in DOMAIN session' : session'[s] \in SessionShape
        /\ \A s \in DOMAIN session' : session'[s].state # "finished" <=> session'[s].outcome = "none"
        /\ \A i \in DOMAIN item' : item'[i].state = "running" =>
             item'[i].session = Len(session') /\ session'[Len(session')].state # "finished"
<1>1. /\ DOMAIN session' = 1..Len(session') /\ DOMAIN item' = 1..Len(item') /\ Len(session') \in Nat /\ Len(item') \in Nat
      /\ \A s \in DOMAIN session' : session'[s] \in SessionShape
  <2>1. session' \in Seq(SessionShape) /\ item' \in Seq(ItemShape)
    BY DEF IInv, Typed
  <2> QED BY <2>1
<1>2. Life' = [s \in 1..Len(session') |-> [state |-> session'[s].state, outcome |-> session'[s].outcome]]
  BY <1>1 DEF Life
<1>3. Work' = [i \in 1..Len(item') |-> [session |-> item'[i].session, state |-> item'[i].state]]
  BY <1>1 DEF Work
<1>4. /\ Len(Life') = Len(session') /\ DOMAIN Life' = DOMAIN session'
      /\ Len(Work') = Len(item') /\ DOMAIN Work' = DOMAIN item'
  BY <1>1, <1>2, <1>3
<1>5. \A s \in DOMAIN session' : session'[s].state # "finished" <=> session'[s].outcome = "none"
  BY DEF IInv, SessionsOK
<1>6. \A i \in DOMAIN item' : item'[i].state = "running" =>
        item'[i].session = Len(session') /\ session'[Len(session')].state # "finished"
  BY DEF IInv, Alone, Latest
<1> QED BY <1>1, <1>4, <1>5, <1>6

LEMMA MayGoFacts ==
  ASSUME NEW from \in {"waiting-for-review", "running", "pause-requested", "stop-requested", "paused"},
         NEW to, MayGo(from, to), to # "finished"
  PROVE to \in L!Onward(from)
<1>1. CASE from = "running"
  BY <1>1 DEF MayGo, L!Onward
<1>2. CASE from = "pause-requested"
  BY <1>2 DEF MayGo, L!Onward
<1>3. CASE from = "stop-requested"
  BY <1>3 DEF MayGo, L!Onward
<1>4. CASE from = "paused"
  BY <1>4 DEF MayGo, L!Onward
<1>5. CASE from = "waiting-for-review"
  BY <1>5 DEF MayGo, L!Onward
<1> QED BY <1>1, <1>2, <1>3, <1>4, <1>5

\* Requests that are tended are worked on.
LEMMA TendsWorks ==
  ASSUME IInv, IInv', NEW s, Tends(s)
  PROVE L!Worked(s)
<1> DEFINE n == Len(item)
           m == Len(item')
<1>1. /\ DOMAIN item = 1..n /\ DOMAIN item' = 1..m /\ n \in Nat /\ m \in Nat
      /\ Len(Work) = n /\ Len(Work') = m /\ DOMAIN Work = DOMAIN item /\ DOMAIN Work' = DOMAIN item'
  BY Sizes, SizesAfter
<1>2. m = n \/ (m = n + 1 /\ item'[n + 1].session = s)
  BY DEF Tends
<1>3. \A i \in DOMAIN item :
        /\ item'[i].session = item[i].session
        /\ item'[i].state = item[i].state \/ (item[i].session = s /\ item[i].state \in {"ready", "running"})
  BY DEF Tends
<1> HIDE DEF n, m
<1>4. m >= n /\ (\A i \in 1..n : i \in 1..m) /\ \A i \in (1..m) \ (1..n) : i = n + 1 /\ m = n + 1
  BY <1>1, <1>2
<1>5. /\ \A i \in DOMAIN item : Work[i] = [session |-> item[i].session, state |-> item[i].state]
      /\ \A i \in DOMAIN item' : Work'[i] = [session |-> item'[i].session, state |-> item'[i].state]
  BY DEF Work
<1>6. ASSUME NEW i \in DOMAIN Work
      PROVE \/ Work'[i] = Work[i]
            \/ Work[i].session = s /\ Work'[i].session = s /\ Work[i].state \in {"ready", "running"}
  <2>1. i \in DOMAIN item /\ i \in DOMAIN item'
    BY <1>1, <1>4
  <2>2. /\ Work[i] = [session |-> item[i].session, state |-> item[i].state]
        /\ Work'[i] = [session |-> item'[i].session, state |-> item'[i].state]
    BY <1>5, <2>1
  <2> QED BY <1>3, <2>1, <2>2
<1>7. ASSUME NEW i \in DOMAIN Work' \ DOMAIN Work
      PROVE Work'[i].session = s
  <2>1. i \in DOMAIN item' /\ i = n + 1 /\ item'[i].session = s
    BY <1>1, <1>2, <1>4
  <2>2. Work'[i] = [session |-> item'[i].session, state |-> item'[i].state]
    BY <1>5, <2>1
  <2> QED BY <2>1, <2>2
<1>8. Len(Work') >= Len(Work)
  BY <1>1, <1>4
<1>9. \A i \in DOMAIN Work :
        Work'[i] = Work[i] \/ (Work[i].session = s /\ Work'[i].session = s /\ Work[i].state \in L!Unsettled)
  BY <1>6 DEF L!Unsettled
<1>10. \A i \in DOMAIN Work' \ DOMAIN Work : Work'[i].session = s
  BY <1>7
<1> QED BY <1>8, <1>9, <1>10 DEF L!Worked, Work

\* What the lifecycle sees after a step.
LEMMA LifeAfter ==
  ASSUME IInv, IInv', Len(session') = Len(session)
  PROVE /\ DOMAIN Life' = DOMAIN session /\ DOMAIN Life = DOMAIN session
        /\ Life = [s \in DOMAIN session |-> Life[s]] /\ Life' = [s \in DOMAIN session |-> Life'[s]]
        /\ \A s \in DOMAIN session : /\ Life[s] = [state |-> session[s].state, outcome |-> session[s].outcome]
                                     /\ Life'[s] = [state |-> session'[s].state, outcome |-> session'[s].outcome]
<1>1. DOMAIN session' = DOMAIN session /\ DOMAIN Life' = DOMAIN session' /\ DOMAIN Life = DOMAIN session
  BY Sizes, SizesAfter
<1> QED BY <1>1 DEF Life

LEMMA MovesLive ==
  ASSUME IInv, IInv', NEW s \in DOMAIN session, Moves(s)
  PROVE L!Next
<1> DEFINE state == session'[s].state
           outcome == session'[s].outcome
<1>1. /\ DOMAIN Life' = DOMAIN session /\ DOMAIN Life = DOMAIN session
      /\ Life = [t \in DOMAIN session |-> Life[t]] /\ Life' = [t \in DOMAIN session |-> Life'[t]]
      /\ \A t \in DOMAIN session : /\ Life[t] = [state |-> session[t].state, outcome |-> session[t].outcome]
                                   /\ Life'[t] = [state |-> session'[t].state, outcome |-> session'[t].outcome]
  BY LifeAfter DEF Moves
<1>2. /\ \A t \in DOMAIN session : t # s => Life'[t] = Life[t]
      /\ Life'[s] = [state |-> state, outcome |-> outcome]
      /\ Life[s] = [state |-> session[s].state, outcome |-> session[s].outcome]
  BY <1>1 DEF Moves
<1>3. /\ session[s].state # "finished" /\ session[s] \in SessionShape /\ session[s].outcome = "none"
      /\ session'[s] \in SessionShape /\ (state # "finished" <=> outcome = "none")
      /\ DOMAIN session' = DOMAIN session
  <2>1. DOMAIN session' = DOMAIN session
    BY Sizes, SizesAfter DEF Moves
  <2> QED BY <2>1, Sizes, SizesAfter DEF Moves
<1>4. L!Worked(s)
  BY TendsWorks DEF Moves
<1>5. ~L!Over(s) /\ s \in DOMAIN Life
  BY <1>1, <1>2, <1>3 DEF L!Over, Life
<1>6. Life' = [Life EXCEPT ![s] = [state |-> state, outcome |-> outcome]]
  <2> HIDE DEF state, outcome
  <2> QED BY <1>1, <1>2
<1>7. CASE state # "finished"
  <2>1. state \in L!Onward(session[s].state)
    <3>1. session[s].state \in {"waiting-for-review", "running", "pause-requested", "stop-requested", "paused"}
      BY <1>3 DEF SessionShape
    <3>2. MayGo(session[s].state, state)
      BY DEF Moves
    <3> QED BY <1>7, <3>1, <3>2, MayGoFacts
  <2>2. outcome = "none"
    BY <1>3, <1>7
  <2> HIDE DEF state, outcome
  <2>3. Life' = [Life EXCEPT ![s].state = state]
    <3>1. [Life[s] EXCEPT !.state = state] = [state |-> state, outcome |-> outcome]
      BY <1>2, <1>3, <2>2
    <3> QED BY <1>5, <1>6, <3>1
  <2>4. L!Onward(Life[s].state) = L!Onward(session[s].state)
    BY <1>2
  <2>5. Life' \in {[Life EXCEPT ![s].state = st] : st \in L!Onward(Life[s].state)}
    BY <2>1, <2>3, <2>4
  <2>6. L!Move(s)
    BY <1>4, <1>5, <2>5 DEF L!Move, Life
  <2> QED BY <1>5, <2>6 DEF L!Next, Life
<1>8. CASE state = "finished"
  <2>1. outcome \in {"target-met", "partial", "no-qualifying-ideas", "failed", "cancelled", "needs-attention"}
    BY <1>3, <1>8 DEF SessionShape
  <2>2. \A i \in DOMAIN Work' : Work'[i].session = s => Work'[i].state # "running"
    <3>1. \A i \in DOMAIN item' : item'[i].session = s => item'[i].state # "running"
      BY <1>8, SizesAfter
    <3>2. \A i \in DOMAIN item' : Work'[i] = [session |-> item'[i].session, state |-> item'[i].state]
      BY DEF Work
    <3>3. DOMAIN Work' = DOMAIN item'
      BY SizesAfter
    <3> QED BY <3>1, <3>2, <3>3
  <2>3. Life' = [Life EXCEPT ![s] = [state |-> "finished", outcome |-> outcome]]
    BY <1>6, <1>8
  <2> HIDE DEF outcome
  <2>4. L!Finish(s)
    BY <1>4, <1>5, <2>1, <2>2, <2>3 DEF L!Finish, Life, Work
  <2> QED BY <1>5, <2>4 DEF L!Next, Life
<1> QED BY <1>7, <1>8

LEMMA OpensLives ==
  ASSUME IInv, IInv', Opens
  PROVE L!Next
<1> DEFINE n == Len(session)
           new == [state |-> "running", outcome |-> "none"]
<1>1. /\ n \in Nat /\ Len(session') = n + 1 /\ DOMAIN session = 1..n /\ DOMAIN session' = 1..(n + 1)
      /\ Life \in Seq({Life[s] : s \in DOMAIN session}) /\ Len(Life) = n /\ DOMAIN Life = 1..n
      /\ Len(Life') = n + 1 /\ DOMAIN Life' = 1..(n + 1)
  BY Sizes, SizesAfter DEF Opens
<1>2. /\ \A s \in 1..n : Life[s] = [state |-> session[s].state, outcome |-> session[s].outcome]
      /\ \A s \in 1..(n + 1) : Life'[s] = [state |-> session'[s].state, outcome |-> session'[s].outcome]
      /\ Life' = [s \in 1..(n + 1) |-> Life'[s]]
  BY <1>1 DEF Life
<1>3. /\ \A s \in 1..n : session'[s] = session[s] /\ session[s].state = "finished"
      /\ session'[n + 1].state = "running" /\ session'[n + 1].outcome = "none"
  BY <1>1 DEF Opens
<1>4. \A s \in 1..n : s \in 1..(n + 1) /\ s # n + 1
  BY <1>1
<1>5. /\ \A s \in 1..n : Life'[s] = Life[s] /\ Life[s].state = "finished"
      /\ Life'[n + 1] = new
  <2>1. ASSUME NEW s \in 1..n PROVE Life'[s] = Life[s] /\ Life[s].state = "finished"
    <3>1. Life'[s] = [state |-> session'[s].state, outcome |-> session'[s].outcome]
      BY <1>2, <1>4
    <3>2. Life[s] = [state |-> session[s].state, outcome |-> session[s].outcome]
      BY <1>2
    <3> QED BY <1>3, <3>1, <3>2
  <2>2. n + 1 \in 1..(n + 1)
    BY <1>1
  <2>3. Life'[n + 1] = new
    BY <1>2, <1>3, <2>2
  <2> QED BY <2>1, <2>3
<1> HIDE DEF n, new
<1>6. Life' = Append(Life, new)
  BY <1>1, <1>2, <1>5
<1>7. \A s \in DOMAIN Life : L!Over(s)
  BY <1>1, <1>5 DEF L!Over, Life
<1>8. L!Worked(n + 1)
  <2>1. PICK k : k = n + 1
    OBVIOUS
  <2>2. Tends(k)
    BY <2>1 DEF Opens, Tends, n
  <2>3. L!Worked(k)
    BY <2>2, TendsWorks
  <2> QED BY <2>1, <2>3 DEF L!Worked
<1>9. L!Open
  <2>1. L!Worked(Len(Life) + 1)
    BY <1>1, <1>8 DEF L!Worked
  <2> QED BY <1>6, <1>7, <2>1 DEF L!Open, Life, new
<1> QED BY <1>9 DEF L!Next

LEMMA StaysLives ==
  ASSUME IInv, IInv', Stays
  PROVE UNCHANGED L!vars
<1>1. Life' = Life
  <2>1. /\ Life = [t \in DOMAIN session |-> Life[t]] /\ Life' = [t \in DOMAIN session |-> Life'[t]]
        /\ \A t \in DOMAIN session : /\ Life[t] = [state |-> session[t].state, outcome |-> session[t].outcome]
                                     /\ Life'[t] = [state |-> session'[t].state, outcome |-> session'[t].outcome]
    BY LifeAfter DEF Stays
  <2>2. \A t \in DOMAIN session : Life'[t] = Life[t]
    BY <2>1 DEF Stays
  <2> QED BY <2>1, <2>2
<1>2. Work' = Work
  <2>1. DOMAIN item' = DOMAIN item
    BY Sizes, SizesAfter DEF Stays
  <2> QED BY <2>1 DEF Work, Stays
<1> QED BY <1>1, <1>2 DEF L!vars, Life, Work

LEMMA RestsOn ==
  ASSUME IInv, IInv', WaitsAtRest, Lives
  PROVE WaitsAtRest'
<1>1. /\ DOMAIN session = 1..Len(session) /\ DOMAIN session' = 1..Len(session') /\ Len(session) \in Nat
      /\ DOMAIN item = 1..Len(item) /\ DOMAIN item' = 1..Len(item') /\ Len(item) \in Nat
      /\ \A i \in DOMAIN item : item[i].session \in DOMAIN session
  BY Sizes, SizesAfter
<1>2. CASE Stays
  BY <1>1, <1>2, SMTT(30) DEF Stays, WaitsAtRest
<1>3. CASE Opens
  <2> SUFFICES ASSUME NEW s \in DOMAIN session', session'[s].state = "waiting-for-review" PROVE FALSE
    BY DEF WaitsAtRest
  <2> QED BY <1>1, <1>3 DEF Opens
<1>4. ASSUME NEW s \in DOMAIN session, Moves(s)
      PROVE WaitsAtRest'
  <2> SUFFICES ASSUME NEW t \in DOMAIN session', session'[t].state = "waiting-for-review"
               PROVE session'[t].disc = "none" /\ \A i \in DOMAIN item' : item'[i].session = t => item'[i].state # "running"
    BY DEF WaitsAtRest
  <2>1. CASE t = s
    BY <1>4, <2>1 DEF Moves
  <2>2. CASE t # s
    <3>1. FALSE
      <4>1. t \in DOMAIN session /\ session'[t] = session[t] /\ session[s].state # "finished"
        BY <1>1, <1>4, <2>2 DEF Moves
      <4> QED BY <2>2, <4>1, OpenFacts
    <3> QED BY <3>1
  <2> QED BY <2>1, <2>2
<1> QED BY <1>2, <1>3, <1>4 DEF Lives

-----------------------------------------------------------------------------
(* What each kind of step does to sessions and requests. *)

LEMMA SessionMoves ==
  ASSUME IInv, NEW s \in DOMAIN session, session[s].state # "finished", NEW r, session' = [session EXCEPT ![s] = r],
         MayGo(session[s].state, r.state), Tends(s),
         r.state = "waiting-for-review" =>
           r.disc = "none" /\ \A i \in DOMAIN item' : item'[i].session = s => item'[i].state # "running"
  PROVE Lives
<1>1. session'[s] = r /\ Len(session') = Len(session) /\ \A t \in DOMAIN session : t # s => session'[t] = session[t]
  BY Sizes DEF IInv, Typed
<1>2. Moves(s)
  BY <1>1 DEF Moves
<1> QED BY <1>2 DEF Lives

\* The requests stay as they are.
LEMMA RecordMoves ==
  ASSUME IInv, NEW s \in DOMAIN session, session[s].state # "finished", NEW r, session' = [session EXCEPT ![s] = r],
         MayGo(session[s].state, r.state), item' = item,
         r.state = "waiting-for-review" =>
           r.disc = "none" /\ \A i \in DOMAIN item : item[i].session = s => item[i].state # "running"
  PROVE Lives
<1>1. Tends(s)
  BY DEF Tends
<1> QED BY <1>1, SessionMoves

LEMMA OneStays ==
  ASSUME IInv, NEW i \in DOMAIN item, NEW y, y.session = item[i].session, y.state = item[i].state,
         item' = [item EXCEPT ![i] = y], session' = session
  PROVE Lives
<1>1. Len(item') = Len(item) /\ item'[i] = y /\ \A j \in DOMAIN item : j # i => item'[j] = item[j]
  BY Sizes DEF IInv, Typed
<1>2. Stays
  BY <1>1 DEF Stays
<1> QED BY <1>2 DEF Lives

LEMMA NothingMoves ==
  ASSUME UNCHANGED <<session, item>>
  PROVE Lives
<1>1. Stays
  BY DEF Stays
<1> QED BY <1>1 DEF Lives

LEMMA OneTends ==
  ASSUME IInv, NEW i \in DOMAIN item, NEW y, y.session = item[i].session, item[i].state \in {"ready", "running"},
         item' = [item EXCEPT ![i] = y]
  PROVE Tends(item[i].session) /\ \A j \in DOMAIN item' : j \in DOMAIN item /\ (j # i => item'[j] = item[j]) /\ item'[i] = y
<1>1. Len(item') = Len(item) /\ item'[i] = y /\ DOMAIN item' = DOMAIN item /\ \A j \in DOMAIN item : j # i => item'[j] = item[j]
  BY Sizes DEF IInv, Typed
<1> QED BY <1>1 DEF Tends

LEMMA OnwardGoes ==
  ASSUME NEW x \in SessionShape, x.state # "finished", NEW left \in BOOLEAN, NEW reviewed \in BOOLEAN,
         NEW r, r = Onward(x, left, reviewed)
  PROVE MayGo(x.state, r.state) /\ r.disc = x.disc
<1>1. CASE x.state = "stop-requested"
  BY <1>1 DEF Onward, Over, SessionShape, MayGo
<1>2. CASE x.state = "pause-requested"
  BY <1>2 DEF Onward, Over, SessionShape, MayGo
<1>3. CASE x.state = "running" /\ ~left /\ x.purpose = "followup" /\ reviewed
  BY <1>3 DEF Onward, Over, SessionShape, MayGo
<1>4. CASE x.state = "running" /\ ~left /\ ~(x.purpose = "followup" /\ reviewed)
  BY <1>4 DEF Onward, Over, SessionShape, MayGo
<1>5. CASE x.state \notin {"stop-requested", "pause-requested", "running"} \/ (x.state = "running" /\ left)
  <2>1. r = x
    BY <1>5 DEF Onward
  <2> QED BY <2>1 DEF MayGo, SessionShape
<1> QED BY <1>1, <1>2, <1>3, <1>4, <1>5

\* settleSessionAfterRequest, when none of the requests runs any more.
LEMMA SettleMoves ==
  ASSUME IInv, NEW s \in DOMAIN session, session[s].state # "finished", session[s].disc = "none",
         NEW items, items \in Seq(ItemShape), Len(items) = Len(item),
         \A i \in DOMAIN item :
           /\ items[i].session = item[i].session /\ items[i].state # "running"
           /\ items[i].state = item[i].state \/ (item[i].session = s /\ item[i].state \in {"ready", "running"}),
         Settle(s, items)
  PROVE Lives
<1> DEFINE ready == {i \in Items(s) : items[i].state = "ready"}
           aside(i) == [items[i] EXCEPT !.state = "cancelled", !.budget = "released"]
           left == ready # {}
           reviewed == Reviewed(s, items)
           r == Onward(session[s], left, reviewed)
<1>1. /\ item' = IF session[s].state # "stop-requested" THEN items
                 ELSE [i \in DOMAIN items |-> IF i \in ready THEN aside(i) ELSE items[i]]
      /\ session' = [session EXCEPT ![s] = r]
  BY DEF Settle
<1>2. MayGo(session[s].state, r.state) /\ r.disc = "none"
  <2>1. left \in BOOLEAN /\ reviewed \in BOOLEAN /\ session[s] \in SessionShape
    BY Sizes DEF Reviewed
  <2> HIDE DEF left, reviewed
  <2>2. r = Onward(session[s], left, reviewed)
    OBVIOUS
  <2> HIDE DEF r
  <2> QED BY <2>1, <2>2, OnwardGoes
<1>3. DOMAIN items = 1..Len(item) /\ DOMAIN item = 1..Len(item) /\ Len(item) \in Nat
      /\ \A i \in DOMAIN item : items[i] \in ItemShape
  BY Sizes
<1>4. \A i \in ready : /\ i \in DOMAIN item /\ item[i].session = s /\ item[i].state \in {"ready", "running"}
                       /\ aside(i).state = "cancelled" /\ aside(i).session = item[i].session
  BY <1>3 DEF Items, ItemShape
<1> HIDE DEF ready, aside, r, left, reviewed
<1>5. /\ Len(item') = Len(item) /\ DOMAIN item' = DOMAIN item
      /\ \A i \in DOMAIN item : item'[i] = items[i] \/ (i \in ready /\ item'[i] = aside(i))
  <2>1. CASE session[s].state # "stop-requested"
    BY <1>1, <1>3, <2>1
  <2>2. CASE session[s].state = "stop-requested"
    <3>1. item' = [i \in 1..Len(item) |-> IF i \in ready THEN aside(i) ELSE items[i]]
      BY <1>1, <1>3, <2>2
    <3> QED BY <1>3, <3>1
  <2> QED BY <2>1, <2>2
<1>6. \A i \in DOMAIN item : /\ item'[i].session = item[i].session /\ item'[i].state # "running"
                             /\ item'[i].state = item[i].state \/ (item[i].session = s /\ item[i].state \in {"ready", "running"})
  BY <1>4, <1>5
<1>7. Tends(s)
  BY <1>5, <1>6 DEF Tends
<1>8. \A i \in DOMAIN item' : item'[i].session = s => item'[i].state # "running"
  BY <1>5, <1>6
<1> QED BY <1>1, <1>2, <1>7, <1>8, SessionMoves

\* What ran settles, and its session goes on.
LEMMA SettledMoves ==
  ASSUME IInv, NEW i \in DOMAIN item, item[i].state = "running",
         NEW y, y \in ItemShape, y.session = item[i].session, y.state # "running",
         Settle(item[i].session, [item EXCEPT ![i] = y])
  PROVE Lives
<1> DEFINE s == item[i].session
           items == [item EXCEPT ![i] = y]
<1>1. /\ s \in DOMAIN session /\ session[s].state # "finished" /\ session[s].disc = "none"
      /\ \A j \in DOMAIN item : j # i => item[j].state # "running"
  BY AtWork
<1>2. /\ items \in Seq(ItemShape) /\ Len(items) = Len(item) /\ items[i] = y
      /\ \A j \in DOMAIN item : j # i => items[j] = item[j]
  BY OneItem DEF IInv
<1>3. Settle(s, items)
  OBVIOUS
<1> HIDE DEF items
<1>4. \A j \in DOMAIN item :
           /\ items[j].session = item[j].session /\ items[j].state # "running"
           /\ items[j].state = item[j].state \/ (item[j].session = s /\ item[j].state \in {"ready", "running"})
  BY <1>1, <1>2
<1> HIDE DEF s
<1> QED BY <1>1, <1>2, <1>3, <1>4, SettleMoves

\* What ran settles, and its session ends with it.
LEMMA EndsMoves ==
  ASSUME IInv, NEW i \in DOMAIN item, item[i].state = "running", NEW y, y.session = item[i].session,
         NEW outcome, item' = [item EXCEPT ![i] = y],
         session' = [session EXCEPT ![item[i].session] = Over(session[item[i].session], outcome)]
  PROVE Lives
<1> DEFINE s == item[i].session
           r == Over(session[s], outcome)
<1>1. s \in DOMAIN session /\ session[s].state # "finished" /\ session[s] \in SessionShape
  BY AtWork, Sizes
<1>2. r.state = "finished" /\ session' = [session EXCEPT ![s] = r]
  BY <1>1 DEF Over, SessionShape
<1>3. Tends(s)
  BY OneTends
<1> HIDE DEF r, s
<1>4. MayGo(session[s].state, r.state)
  BY <1>2 DEF MayGo
<1> QED BY <1>1, <1>2, <1>3, <1>4, SessionMoves

LEMMA AllStay ==
  ASSUME IInv, Len(item') = Len(item), Len(session') = Len(session),
         \A i \in DOMAIN item : item'[i].session = item[i].session /\ item'[i].state = item[i].state,
         \A s \in DOMAIN session : /\ session'[s].state = session[s].state /\ session'[s].outcome = session[s].outcome
                                   /\ session[s].disc = "none" => session'[s].disc = "none"
  PROVE Lives
<1>1. Stays
  BY DEF Stays
<1> QED BY <1>1 DEF Lives

\* Calls, and the work of a run, are no matter of the lifecycle.
LEMMA WorkLives ==
  ASSUME IInv, NEW i \in DOMAIN item,
         \/ Prepare(i) \/ Send(i) \/ Answer(i) \/ OpenTurn(i) \/ TurnAnswered(i) \/ Launch(i, TRUE) \/ Cancel(i)
         \/ \E how \in {"completed", "failed", "cancelled"}, found \in BOOLEAN :
              \E call \in Fallen(item[i].call) : RunEnds(i, how, call, found)
         \/ \E call \in Fallen(item[i].call) : ReevaluationFails(i, call)
         \/ \E call \in Fallen(item[i].call) : TurnFails(i, call)
  PROVE Lives
<1>1. item[i] \in ItemShape
  BY ItemFacts
<1>2. session' = session
  BY DEF Prepare, Send, Answer, OpenTurn, TurnAnswered, Launch, Cancel, RunEnds, ReevaluationFails, TurnFails
<1>3. item' = item \/ \E y : y.session = item[i].session /\ y.state = item[i].state /\ item' = [item EXCEPT ![i] = y]
  <2> DEFINE Good == item' = item \/ \E y : y.session = item[i].session /\ y.state = item[i].state /\ item' = [item EXCEPT ![i] = y]
  <2>1. CASE Prepare(i)
    <3>1. item' = [item EXCEPT ![i] = [item[i] EXCEPT !.call = "prepared"]]
      BY <2>1 DEF Prepare
    <3> QED BY <1>1, <3>1 DEF ItemShape
  <2>2. CASE Send(i)
    <3>1. item' = [item EXCEPT ![i] = [item[i] EXCEPT !.call = "sent", !.calls = item[i].calls + 1]]
      BY <2>2 DEF Send
    <3> QED BY <1>1, <3>1 DEF ItemShape
  <2>3. CASE Answer(i)
    <3>1. item' = [item EXCEPT ![i] = [item[i] EXCEPT !.call = "done"]]
      BY <2>3 DEF Answer
    <3> QED BY <1>1, <3>1 DEF ItemShape
  <2>4. CASE OpenTurn(i)
    <3>1. item' = [item EXCEPT ![i] = [item[i] EXCEPT !.exec = "going", !.cost = "reserved"]]
      BY <2>4 DEF OpenTurn
    <3> QED BY <1>1, <3>1 DEF ItemShape
  <2>5. CASE TurnAnswered(i)
    <3>1. item' = [item EXCEPT ![i] = [item[i] EXCEPT !.call = "done", !.cost = "committed"]]
      BY <2>5 DEF TurnAnswered
    <3> QED BY <1>1, <3>1 DEF ItemShape
  <2>6. CASE Launch(i, TRUE)
    <3>1. item' = [item EXCEPT ![i] = [item[i] EXCEPT !.run = "running", !.exec = "going"]]
      BY <2>6 DEF Launch
    <3> QED BY <1>1, <3>1 DEF ItemShape
  <2>7. CASE Cancel(i)
    <3>1. \/ item' = item
          \/ item' = [item EXCEPT ![i] = [item[i] EXCEPT !.run = "cancelled"]]
          \/ item' = [item EXCEPT ![i] = [item[i] EXCEPT !.exec = "stopped",
                                           !.run = IF item[i].kind = "reevaluate" THEN item[i].run ELSE "cancelled"]]
      BY <2>7 DEF Cancel
    <3> DEFINE run == IF item[i].kind = "reevaluate" THEN item[i].run ELSE "cancelled"
    <3>2. item' = [item EXCEPT ![i] = [item[i] EXCEPT !.exec = "stopped", !.run = run]]
            => \E y : y.session = item[i].session /\ y.state = item[i].state /\ item' = [item EXCEPT ![i] = y]
      <4> HIDE DEF run
      <4> QED BY <1>1 DEF ItemShape
    <3> QED BY <1>1, <3>1, <3>2 DEF ItemShape
  <2>8. ASSUME NEW how \in {"completed", "failed", "cancelled"}, NEW found \in BOOLEAN, NEW call \in Fallen(item[i].call),
               RunEnds(i, how, call, found)
        PROVE Good
    <3>1. item' = [item EXCEPT ![i] = [item[i] EXCEPT !.run = how, !.exec = "none", !.call = call, !.found = found]]
      BY <2>8 DEF RunEnds
    <3> QED BY <1>1, <3>1 DEF ItemShape
  <2>9. ASSUME NEW call \in Fallen(item[i].call), ReevaluationFails(i, call)
        PROVE Good
    <3>1. item' = [item EXCEPT ![i] = [item[i] EXCEPT !.call = call]]
      BY <2>9 DEF ReevaluationFails
    <3> QED BY <1>1, <3>1 DEF ItemShape
  <2>10. ASSUME NEW call \in Fallen(item[i].call), TurnFails(i, call)
         PROVE Good
    <3> DEFINE cost == IF call = "none" THEN "released" ELSE "committed"
    <3>1. item' = [item EXCEPT ![i] = [item[i] EXCEPT !.call = call, !.cost = cost]]
      BY <2>10 DEF TurnFails
    <3> HIDE DEF cost
    <3> QED BY <1>1, <3>1 DEF ItemShape
  <2> QED BY <2>1, <2>2, <2>3, <2>4, <2>5, <2>6, <2>7, <2>8, <2>9, <2>10
<1> QED BY <1>2, <1>3, NothingMoves, OneStays

LEMMA RecoveryLives ==
  ASSUME IInv, Crash \/ Interrupt \/ Ready
  PROVE Lives
<1>1. /\ \A i \in DOMAIN item : item[i] \in ItemShape
      /\ \A s \in DOMAIN session : session[s] \in SessionShape
      /\ DOMAIN session = 1..Len(session) /\ DOMAIN item = 1..Len(item) /\ Len(session) \in Nat /\ Len(item) \in Nat
  BY Sizes, ItemFacts
<1>2. CASE Ready
  BY <1>2, NothingMoves DEF Ready
<1>3. CASE Interrupt
  <2> DEFINE call(i) == IF item[i].call = "sent" THEN "unknown" ELSE IF item[i].call = "prepared" THEN "none" ELSE item[i].call
  <2>1. session' = session /\ item' = [i \in 1..Len(item) |-> item'[i]]
    BY <1>1, <1>3 DEF Interrupt
  <2>2. \A i \in DOMAIN item : item'[i].session = item[i].session /\ item'[i].state = item[i].state
    BY <1>1, <1>3 DEF Interrupt, ItemShape
  <2> QED BY <1>1, <2>1, <2>2, AllStay
<1>4. CASE Crash
  <2> DEFINE disc(s) == IF session[s].disc = "going" THEN "saved" ELSE session[s].disc
  <2>1. /\ item' = [i \in 1..Len(item) |-> [item[i] EXCEPT !.exec = "none"]]
        /\ session' = [s \in 1..Len(session) |-> [session[s] EXCEPT !.disc = disc(s)]]
    BY <1>1, <1>4 DEF Crash
  <2>2. \A s \in DOMAIN session : session[s].disc = "none" => disc(s) = "none"
    OBVIOUS
  <2> HIDE DEF disc
  <2>3. Len(item') = Len(item) /\ Len(session') = Len(session)
    BY <1>1, <2>1
  <2>4. \A i \in DOMAIN item : item'[i].session = item[i].session /\ item'[i].state = item[i].state
    BY <1>1, <2>1 DEF ItemShape
  <2>5. \A s \in DOMAIN session : /\ session'[s].state = session[s].state /\ session'[s].outcome = session[s].outcome
                                  /\ session[s].disc = "none" => session'[s].disc = "none"
    BY <1>1, <2>1, <2>2 DEF SessionShape
  <2> QED BY <2>3, <2>4, <2>5, AllStay
<1> QED BY <1>2, <1>3, <1>4

\* The owner's commands on a session.
LEMMA CommandsLive ==
  ASSUME IInv, WaitsAtRest, NEW s \in DOMAIN session, Pause(s) \/ Extend(s) \/ Resume(s)
  PROVE Lives
<1>1. session[s] \in SessionShape
  BY Sizes
<1>2. CASE Pause(s)
  <2> DEFINE r == [session[s] EXCEPT !.state = "pause-requested"]
  <2>1. session' = [session EXCEPT ![s] = r] /\ item' = item /\ session[s].state = "running"
    BY <1>2 DEF Pause
  <2>2. r.state = "pause-requested"
    BY <1>1 DEF SessionShape
  <2> HIDE DEF r
  <2>3. MayGo(session[s].state, r.state) /\ r.state # "waiting-for-review" /\ session[s].state # "finished"
    BY <2>1, <2>2 DEF MayGo
  <2> QED BY <2>1, <2>3, RecordMoves
<1>3. CASE Extend(s)
  <2> DEFINE r == [session[s] EXCEPT !.limit = session[s].limit + Allowance]
  <2>1. session' = [session EXCEPT ![s] = r] /\ item' = item
    BY <1>3 DEF Extend
  <2>2. r.state = session[s].state /\ r.outcome = session[s].outcome /\ r.disc = session[s].disc
    BY <1>1 DEF SessionShape
  <2> HIDE DEF r
  <2>3. Len(session') = Len(session) /\ \A t \in DOMAIN session : session'[t] = IF t = s THEN r ELSE session[t]
    BY <2>1, Sizes DEF IInv, Typed
  <2> QED BY <2>1, <2>2, <2>3, AllStay
<1>4. CASE Resume(s)
  <2> DEFINE state == IF In(s, "running") = {} /\ session[s].disc = "none" /\ In(s, "ready") = {}
                      THEN "waiting-for-review" ELSE "running"
             disc == IF session[s].disc = "saved" THEN "going" ELSE session[s].disc
             r == [session[s] EXCEPT !.state = state, !.disc = disc]
  <2>1. session' = [session EXCEPT ![s] = r] /\ item' = item /\ session[s].state = "paused"
    BY <1>4 DEF Resume
  <2>2. state \in {"running", "waiting-for-review"} /\
        (state = "waiting-for-review" => disc = "none" /\ In(s, "running") = {})
    OBVIOUS
  <2> HIDE DEF state, disc
  <2>3. r.state = state /\ r.disc = disc
    BY <1>1 DEF SessionShape
  <2> HIDE DEF r
  <2>4. MayGo(session[s].state, r.state) /\ session[s].state # "finished"
    BY <2>1, <2>2, <2>3 DEF MayGo
  <2>5. r.state = "waiting-for-review" =>
           r.disc = "none" /\ \A i \in DOMAIN item : item[i].session = s => item[i].state # "running"
    BY <2>2, <2>3 DEF In, Items
  <2> QED BY <2>1, <2>4, <2>5, RecordMoves
<1> QED BY <1>2, <1>3, <1>4

LEMMA ReviewLives ==
  ASSUME IInv, WaitsAtRest
  PROVE /\ \A s \in DOMAIN session : \A set \in SUBSET Items(s) : Apply(s, set) => Lives
        /\ \A i \in DOMAIN item : Keep(i) => Lives
<1>1. ASSUME NEW s \in DOMAIN session, NEW set \in SUBSET Items(s), Apply(s, set)
      PROVE Lives
  <2> DEFINE applied == [session[s] EXCEPT !.active = Len(shot) + 1]
             r == IF session[s].purpose = "followup" THEN Over(applied, "partial") ELSE applied
  <2>1. session' = [session EXCEPT ![s] = r] /\ item' = item /\ session[s].state # "finished"
    BY <1>1 DEF Apply, Open
  <2>2. session[s] \in SessionShape /\ applied.state = session[s].state /\ applied.disc = session[s].disc
        /\ Over(applied, "partial").state = "finished"
    BY Sizes DEF SessionShape, Over
  <2>3. (r.state = session[s].state /\ r.disc = session[s].disc) \/ r.state = "finished"
    BY <2>2
  <2> HIDE DEF r
  <2>4. MayGo(session[s].state, r.state)
    BY <2>2, <2>3 DEF MayGo, SessionShape
  <2>5. r.state = "waiting-for-review" =>
           r.disc = "none" /\ \A i \in DOMAIN item : item[i].session = s => item[i].state # "running"
    BY <2>1, <2>3 DEF WaitsAtRest
  <2> QED BY <2>1, <2>4, <2>5, RecordMoves
<1>2. ASSUME NEW i \in DOMAIN item, Keep(i)
      PROVE Lives
  <2> DEFINE s == item[i].session
             y == [item[i] EXCEPT !.kept = TRUE]
             r == Over(session[s], "partial")
  <2>1. /\ item' = [item EXCEPT ![i] = y] /\ session[s].state # "finished"
        /\ session' = session \/ session' = [session EXCEPT ![s] = r]
    BY <1>2 DEF Keep
  <2>2. item[i] \in ItemShape /\ s \in DOMAIN session /\ session[s] \in SessionShape
    BY ItemFacts, Sizes
  <2>3. y.session = s /\ y.state = item[i].state /\ r.state = "finished"
    BY <2>2 DEF ItemShape, SessionShape, Over
  <2> HIDE DEF y, r
  <2>4. Len(item') = Len(item) /\ \A j \in DOMAIN item : item'[j] = IF j = i THEN y ELSE item[j]
    BY <2>1, Sizes DEF IInv, Typed
  <2>5. Tends(s)
    BY <2>3, <2>4 DEF Tends
  <2>6. MayGo(session[s].state, r.state)
    BY <2>3 DEF MayGo
  <2>7. CASE session' = session
    BY <2>1, <2>3, <2>7, OneStays
  <2>8. CASE session' = [session EXCEPT ![s] = r]
    <3> HIDE DEF s
    <3> QED BY <2>1, <2>2, <2>3, <2>5, <2>6, <2>8, SessionMoves
  <2> QED BY <2>1, <2>7, <2>8
<1> QED BY <1>1, <1>2

\* Requests that wait are put aside.
LEMMA AsideTends ==
  ASSUME IInv, NEW s, NEW state \in {"failed", "skipped", "cancelled"}, item' = PutAside(s, state)
  PROVE Tends(s)
<1>1. \A i \in DOMAIN item : i \notin In(s, "ready") => PutAside(s, state)[i] = item[i]
  BY PutAsideFacts
<1>2. \A i \in In(s, "ready") : PutAside(s, state)[i].session = item[i].session /\ item[i].session = s /\ item[i].state = "ready"
  BY PutAsideFacts DEF In, Items, Follows
<1>3. Len(PutAside(s, state)) = Len(item)
  BY PutAsideFacts
<1> QED BY <1>1, <1>2, <1>3 DEF Tends

LEMMA StopLives ==
  ASSUME IInv, WaitsAtRest, NEW s \in DOMAIN session, Stop(s)
  PROVE Lives
<1>1. session[s] \in SessionShape /\ session[s].state # "finished"
  BY Sizes DEF Stop, Open
<1>2. CASE In(s, "running") = {} /\ session[s].disc = "none"
  <2> DEFINE r == Over(session[s], "cancelled")
  <2>1. item' = SkipReady(s) /\ session' = [session EXCEPT ![s] = r]
    BY <1>2 DEF Stop
  <2>2. r.state = "finished"
    BY <1>1 DEF Over, SessionShape
  <2> HIDE DEF r
  <2>3. item' = PutAside(s, "skipped")
    BY <2>1 DEF SkipReady, PutAside
  <2>4. Tends(s) /\ MayGo(session[s].state, r.state)
    BY <2>2, <2>3, AsideTends DEF MayGo
  <2> QED BY <1>1, <2>1, <2>2, <2>4, SessionMoves
<1>3. CASE ~(In(s, "running") = {} /\ session[s].disc = "none")
  <2> DEFINE r == [session[s] EXCEPT !.state = "stop-requested"]
  <2>1. item' = item /\ session' = [session EXCEPT ![s] = r]
    BY <1>3 DEF Stop
  <2>2. r.state = "stop-requested"
    BY <1>1 DEF SessionShape
  <2>3. session[s].state # "waiting-for-review"
    BY <1>3 DEF WaitsAtRest, In, Items
  <2> HIDE DEF r
  <2>4. MayGo(session[s].state, r.state)
    BY <1>1, <2>2, <2>3 DEF MayGo, SessionShape
  <2> QED BY <1>1, <2>1, <2>2, <2>4, RecordMoves
<1> QED BY <1>2, <1>3

\* A request comes, in a session that is there or in one of its own; a turn brings its own.
LEMMA ComingLives ==
  ASSUME IInv, \/ \E s \in DOMAIN session, k \in Kinds : Admit(s, k[1], k[2]) \/ Continue(s, k[1], k[2])
               \/ SubmitTurn
  PROVE Lives
<1>1. /\ session \in Seq(SessionShape) /\ item \in Seq(ItemShape)
      /\ DOMAIN session = 1..Len(session) /\ DOMAIN item = 1..Len(item) /\ Len(session) \in Nat /\ Len(item) \in Nat
  BY Sizes DEF IInv, Typed
<1>2. ASSUME NEW x, item' = Append(item, x)
      PROVE /\ Len(item') = Len(item) + 1 /\ item'[Len(item) + 1] = x /\ \A i \in DOMAIN item : item'[i] = item[i]
            /\ DOMAIN item' = 1..(Len(item) + 1)
  BY <1>1, <1>2
<1>3. ASSUME NEW x, NEW y, session' = Append(session, x), item' = Append(item, y), y.session = Len(session) + 1,
             x.state = "running", x.outcome = "none", \A s \in DOMAIN session : session[s].state = "finished"
      PROVE Lives
  <2>1. Len(session') = Len(session) + 1 /\ session'[Len(session) + 1] = x /\ \A s \in DOMAIN session : session'[s] = session[s]
    BY <1>1, <1>3
  <2>2. Opens
    BY <1>2, <1>3, <2>1 DEF Opens
  <2> QED BY <2>2 DEF Lives
<1>4. ASSUME NEW s \in DOMAIN session, NEW k \in Kinds, Admit(s, k[1], k[2])
      PROVE Lives
  <2> DEFINE new == NewItem(s, k[1], k[2], session[s].active)
             r == [session[s] EXCEPT !.state = "running"]
  <2>1. item' = Append(item, new) /\ session' = [session EXCEPT ![s] = r] /\ session[s].state \in {"running", "waiting-for-review"}
    BY <1>4 DEF Admit
  <2>2. new.session = s /\ r.state = "running"
    BY Sizes DEF NewItem, SessionShape
  <2> HIDE DEF new, r
  <2>3. Tends(s)
    BY <1>2, <2>1, <2>2 DEF Tends
  <2>4. MayGo(session[s].state, r.state) /\ session[s].state # "finished"
    BY <2>1, <2>2 DEF MayGo
  <2> QED BY <2>1, <2>2, <2>3, <2>4, SessionMoves
<1>5. ASSUME NEW s \in DOMAIN session, NEW k \in Kinds, Continue(s, k[1], k[2])
      PROVE Lives
  <2> DEFINE y == NewItem(Len(session) + 1, k[1], k[2], Len(shot) + 1)
             x == [NewSession("followup", Len(shot) + 1) EXCEPT !.state = "running"]
  <2>1. item' = Append(item, y) /\ session' = Append(session, x) /\ \A t \in DOMAIN session : session[t].state = "finished"
    BY <1>5 DEF Continue, ProjectIdle, Open
  <2>2. y.session = Len(session) + 1 /\ x.state = "running" /\ x.outcome = "none"
    BY DEF NewItem, NewSession
  <2> HIDE DEF x, y
  <2> QED BY <1>3, <2>1, <2>2
<1>6. CASE SubmitTurn
  <2> DEFINE y == [NewItem(Len(session) + 1, "turn", 0, 0) EXCEPT !.state = "running", !.run = "queued", !.call = "prepared"]
             x == [NewSession("turn", 0) EXCEPT !.state = "running"]
  <2>1. item' = Append(item, y) /\ session' = Append(session, x) /\ \A t \in DOMAIN session : session[t].state = "finished"
    BY <1>6 DEF SubmitTurn, ProjectIdle, Open
  <2>2. y.session = Len(session) + 1 /\ x.state = "running" /\ x.outcome = "none"
    BY DEF NewItem, NewSession
  <2> HIDE DEF x, y
  <2> QED BY <1>3, <2>1, <2>2
<1> QED BY <1>4, <1>5, <1>6

LEMMA TurnsLive ==
  ASSUME IInv, NEW i \in DOMAIN item, CloseTurn(i) \/ \E saved \in BOOLEAN : SaveTurn(i, saved)
  PROVE Lives
<1>1. PICK what \in {"save", "close"} : todo = <<what, i>>
  BY DEF CloseTurn, SaveTurn
<1>2. item[i].state = "running" /\ item[i] \in ItemShape
  BY <1>1, TodoFacts, ItemFacts
<1>3. \A state : Ended(i, state).session = item[i].session
  BY <1>2 DEF Ended, ItemShape
<1>4. ASSUME NEW record, NEW outcome, record.session = item[i].session, TurnOver(i, record, outcome)
      PROVE Lives
  <2>1. /\ item' = [item EXCEPT ![i] = record]
        /\ session' = [session EXCEPT ![item[i].session] = Over(session[item[i].session], outcome)]
    BY <1>4 DEF TurnOver
  <2> QED BY <1>2, <1>4, <2>1, EndsMoves
<1>5. ASSUME NEW saved \in BOOLEAN, SaveTurn(i, saved)
      PROVE Lives
  <2>1. CASE saved
    <3> DEFINE record == [Ended(i, "succeeded") EXCEPT !.run = "completed"]
    <3>1. record.session = item[i].session /\ TurnOver(i, record, "target-met")
      BY <1>2, <1>5, <2>1 DEF SaveTurn, Ended, ItemShape
    <3> HIDE DEF record
    <3> QED BY <1>4, <3>1
  <2>2. CASE ~saved
    <3> DEFINE record == [item[i] EXCEPT !.state = "unknown", !.exec = "none", !.budget = "uncertain",
                                         !.call = "unknown", !.run = "failed"]
    <3>1. record.session = item[i].session /\ TurnOver(i, record, "needs-attention")
      BY <1>2, <1>5, <2>2 DEF SaveTurn, ItemShape
    <3> HIDE DEF record
    <3> QED BY <1>4, <3>1
  <2> QED BY <2>1, <2>2
<1>6. CASE CloseTurn(i)
  <2> DEFINE unknown == item[i].call = "unknown"
             state == IF unknown THEN "unknown" ELSE "failed"
             record == [Ended(i, state) EXCEPT !.run = "failed"]
             outcome == IF unknown THEN "needs-attention" ELSE "failed"
  <2>1. TurnOver(i, record, outcome)
    BY <1>6 DEF CloseTurn
  <2> HIDE DEF state, outcome
  <2>2. record.session = item[i].session
    BY <1>2 DEF Ended, ItemShape
  <2> HIDE DEF record
  <2> QED BY <1>4, <2>1, <2>2
<1> QED BY <1>5, <1>6

\* A request that ran settles, or its answer is lost.
LEMMA EndingsLive ==
  ASSUME IInv, NEW i \in DOMAIN item, Launch(i, FALSE) \/ Event(i) \/ Reevaluated(i) \/ CloseReevaluation(i)
  PROVE Lives
<1>1. item[i] \in ItemShape
  BY ItemFacts
<1>2. ASSUME NEW state \in Settled
      PROVE /\ Ended(i, state) \in ItemShape /\ Ended(i, state).session = item[i].session /\ Ended(i, state).state = state
  BY EndedFacts
<1>3. ASSUME NEW state \in Settled, NEW run \in {"failed", "cancelled"}, item[i].state = "running",
             Settle(item[i].session, [item EXCEPT ![i] = [Ended(i, state) EXCEPT !.run = run]])
      PROVE Lives
  <2> DEFINE e == Ended(i, state)
             y == [e EXCEPT !.run = run]
  <2>1. e \in ItemShape /\ e.session = item[i].session /\ e.state = state /\ state # "running" /\ run \in Runs
    BY <1>2, <1>3 DEF Settled, Runs
  <2> HIDE DEF e
  <2>2. y \in ItemShape /\ y.session = item[i].session /\ y.state # "running"
    BY <2>1 DEF ItemShape
  <2>3. Settle(item[i].session, [item EXCEPT ![i] = y])
    BY <1>3 DEF e
  <2> HIDE DEF y
  <2> QED BY <1>3, <2>2, <2>3, SettledMoves
<1>4. CASE Launch(i, FALSE)
  <2>1. item[i].state = "running"
    <3>1. PICK what \in {"launch", "resume"} : todo = <<what, i>>
      BY <1>4 DEF Launch
    <3> QED BY <3>1, TodoFacts
  <2>2. Settle(item[i].session, [item EXCEPT ![i] = [Ended(i, "failed") EXCEPT !.run = "failed"]]) /\ "failed" \in Settled
    BY <1>4 DEF Launch, Settled
  <2> QED BY <1>3, <2>1, <2>2
<1>5. CASE CloseReevaluation(i)
  <2> DEFINE how == IF item[i].exec = "stopped" \/ session[item[i].session].state = "stop-requested"
                    THEN "cancelled" ELSE "failed"
  <2>1. item[i].state = "running"
    <3>1. todo = <<"close", i>>
      BY <1>5 DEF CloseReevaluation
    <3> QED BY <3>1, TodoFacts
  <2>2. Settle(item[i].session, [item EXCEPT ![i] = [Ended(i, how) EXCEPT !.run = how]])
    BY <1>5 DEF CloseReevaluation
  <2>3. how \in Settled /\ how \in {"failed", "cancelled"}
    BY DEF Settled
  <2> HIDE DEF how
  <2> QED BY <1>3, <2>1, <2>2, <2>3
<1>6. CASE Reevaluated(i)
  <2> DEFINE e == Ended(i, "succeeded")
             y == [e EXCEPT !.call = "done", !.run = "completed"]
  <2>1. item[i].state = "running"
    BY <1>6, Executed DEF Reevaluated
  <2>2. Settle(item[i].session, [item EXCEPT ![i] = y])
    BY <1>6 DEF Reevaluated
  <2>3. e \in ItemShape /\ e.session = item[i].session /\ e.state = "succeeded"
    BY <1>2 DEF Settled
  <2> HIDE DEF e
  <2>4. y \in ItemShape /\ y.session = item[i].session /\ y.state # "running"
    BY <2>3 DEF ItemShape, Runs
  <2> HIDE DEF y
  <2> QED BY <2>1, <2>2, <2>4, SettledMoves
<1>7. CASE Event(i)
  <2>1. CASE ~Open(item[i].session) \/ ~Running(i) \/ i \in Active
    BY <1>7, <2>1, NothingMoves DEF Event
  <2>2. CASE ~(~Open(item[i].session) \/ ~Running(i) \/ i \in Active) /\ item[i].call = "unknown"
    <3> DEFINE y == Ended(i, "unknown")
    <3>1. /\ item' = [item EXCEPT ![i] = y]
          /\ session' = [session EXCEPT ![item[i].session] = Over(session[item[i].session], "needs-attention")]
      BY <1>7, <2>2 DEF Event
    <3>2. y.session = item[i].session /\ item[i].state = "running"
      BY <1>2, <2>2 DEF Settled, Running
    <3> HIDE DEF y
    <3> QED BY <3>1, <3>2, EndsMoves
  <2>3. CASE ~(~Open(item[i].session) \/ ~Running(i) \/ i \in Active) /\ item[i].call # "unknown"
    <3> DEFINE state == IF item[i].run = "completed" THEN "succeeded" ELSE item[i].run
               y == Ended(i, state)
    <3>1. Settle(item[i].session, [item EXCEPT ![i] = y])
      BY <1>7, <2>3 DEF Event
    <3>2. item[i].state = "running" /\ item[i].run \notin {"queued", "running"} /\ Rules(item[i])
      BY <2>3, ItemFacts DEF Running, Active
    <3>3. state \in Settled
      BY <1>1, <3>2 DEF Rules, ItemShape, Runs, Settled
    <3> HIDE DEF state
    <3>4. y \in ItemShape /\ y.session = item[i].session /\ y.state # "running"
      BY <1>2, <3>3 DEF Settled
    <3> HIDE DEF y
    <3> QED BY <3>1, <3>2, <3>4, SettledMoves
  <2> QED BY <2>1, <2>2, <2>3
<1> QED BY <1>4, <1>5, <1>6, <1>7

LEMMA DispatchLives ==
  ASSUME IInv, NEW s \in DOMAIN session, Dispatch(s)
  PROVE Lives
<1>1. CASE session[s].state \notin {"running", "waiting-for-review"} \/ Busy(s) \/ In(s, "ready") = {}
  BY <1>1, NothingMoves DEF Dispatch
<1>2. CASE session[s].state = "waiting-for-review" /\ ~Busy(s) /\ In(s, "ready") # {}
  <2> DEFINE r == [session[s] EXCEPT !.state = "running"]
  <2>1. session' = [session EXCEPT ![s] = r] /\ item' = item
    BY <1>2 DEF Dispatch
  <2>2. r.state = "running"
    BY Sizes DEF SessionShape
  <2> HIDE DEF r
  <2>3. MayGo(session[s].state, r.state)
    BY <1>2, <2>2 DEF MayGo
  <2> QED BY <1>2, <2>1, <2>2, <2>3, RecordMoves
<1>3. CASE session[s].state = "running" /\ ~Busy(s) /\ In(s, "ready") # {}
  <2> DEFINE i == First(In(s, "ready"))
  <2>1. \/ (StartRun(i) \/ StartReevaluation(i)) /\ session' = session
        \/ Settle(s, Unstarted(s))
    BY <1>3 DEF Dispatch
  <2>2. i \in DOMAIN item /\ item[i].session = s /\ item[i].state = "ready"
    <3>1. In(s, "ready") \in SUBSET Nat
      BY Sizes DEF In, Items
    <3>2. i \in In(s, "ready")
      BY <1>3, <3>1, FirstIn
    <3> HIDE DEF i
    <3> QED BY <3>2 DEF In, Items
  <2> HIDE DEF i
  <2>3. CASE (StartRun(i) \/ StartReevaluation(i)) /\ session' = session
    <3>1. item[i] \in ItemShape
      BY <2>2, ItemFacts
    <3> DEFINE run == [item[i] EXCEPT !.state = "running", !.run = "queued"]
               again == [item[i] EXCEPT !.state = "running", !.run = "running", !.found = TRUE]
    <3>5. run.session = item[i].session /\ again.session = item[i].session
      BY <3>1 DEF ItemShape
    <3>6. item' = [item EXCEPT ![i] = run] \/ item' = [item EXCEPT ![i] = again]
      BY <2>3 DEF StartRun, StartReevaluation
    <3> HIDE DEF run, again
    <3>2. PICK y : item' = [item EXCEPT ![i] = y] /\ y.session = item[i].session
      BY <3>5, <3>6
    <3>3. Tends(s)
      <4>1. Tends(item[i].session)
        BY <2>2, <3>2, OneTends
      <4> QED BY <2>2, <4>1
    <3>4. session' = [session EXCEPT ![s] = session[s]] /\ MayGo(session[s].state, session[s].state)
      BY <1>3, <2>3, SameSession DEF IInv, MayGo
    <3> QED BY <1>3, <3>3, <3>4, SessionMoves
  <2>4. CASE Settle(s, Unstarted(s))
    <3> DEFINE items == PutAside(s, "failed")
    <3>1. Settle(s, items)
      BY <2>4 DEF Unstarted, PutAside
    <3>2. /\ items \in Seq(ItemShape) /\ Len(items) = Len(item)
          /\ \A j \in DOMAIN item : j \notin In(s, "ready") => items[j] = item[j]
          /\ \A j \in In(s, "ready") : Follows(item[j], items[j]) /\ items[j].state = "failed"
      BY PutAsideFacts
    <3> HIDE DEF items
    <3>3. session[s].disc = "none" /\ In(s, "running") = {}
      BY <1>3 DEF Busy, Discovering
    <3>4. \A j \in DOMAIN item : item[j].state # "running"
      BY <1>3, <3>3, RunsIn
    <3>5. \A j \in In(s, "ready") : /\ j \in DOMAIN item /\ item[j].session = s /\ item[j].state = "ready"
                                    /\ items[j].session = item[j].session
      BY <3>2 DEF In, Items, Follows
    <3>6. \A j \in DOMAIN item :
            /\ items[j].session = item[j].session /\ items[j].state # "running"
            /\ items[j].state = item[j].state \/ (item[j].session = s /\ item[j].state \in {"ready", "running"})
      BY <3>2, <3>4, <3>5
    <3> QED BY <1>3, <3>1, <3>2, <3>3, <3>6, SettleMoves
  <2> QED BY <2>1, <2>3, <2>4
<1> QED BY <1>1, <1>2, <1>3

LEMMA DiscoveryLives ==
  ASSUME IInv, WaitsAtRest, NEW s \in DOMAIN session, NEW how \in {"found", "empty", "failed"}, DiscoveryEnds(s, how)
  PROVE Lives
<1>1. /\ session[s].disc # "none" /\ session[s].state # "finished" /\ session[s].state # "waiting-for-review"
      /\ session[s] \in SessionShape
  BY Sizes DEF DiscoveryEnds, IInv, SessionsOK, WaitsAtRest
<1>2. \A i \in DOMAIN item : item[i].state # "running"
  BY <1>1 DEF IInv, FirstAlone
<1>3. CASE how = "failed"
  <2>1. PICK outcome : session' = [session EXCEPT ![s] = Over([session[s] EXCEPT !.disc = "none"], outcome)]
    BY <1>3 DEF DiscoveryEnds
  <2> DEFINE r == Over([session[s] EXCEPT !.disc = "none"], outcome)
  <2>2. session' = [session EXCEPT ![s] = r] /\ r.state = "finished"
    BY <1>1, <2>1 DEF Over, SessionShape
  <2>3. item' = PutAside(s, "skipped")
    BY <1>3 DEF DiscoveryEnds, SkipReady, PutAside
  <2> HIDE DEF r
  <2>4. Tends(s) /\ MayGo(session[s].state, r.state)
    BY <2>2, <2>3, AsideTends DEF MayGo
  <2> QED BY <1>1, <2>2, <2>4, SessionMoves
<1>4. CASE how # "failed"
  <2> DEFINE active == IF how = "found" THEN Len(shot) + 1 ELSE 0
             found == [session[s] EXCEPT !.disc = "none", !.active = active]
             state == IF session[s].state = "running" THEN "waiting-for-review" ELSE "paused"
             r == IF session[s].state = "stop-requested" THEN Over(found, "cancelled") ELSE [found EXCEPT !.state = state]
  <2>1. session' = [session EXCEPT ![s] = r] /\ item' = item
    BY <1>4 DEF DiscoveryEnds
  <2> HIDE DEF active
  <2>2. \/ session[s].state = "stop-requested" /\ r.state = "finished"
        \/ session[s].state # "stop-requested" /\ r.state = state /\ r.disc = "none"
    BY <1>1 DEF Over, SessionShape
  <2>3. IF session[s].state = "running" THEN state = "waiting-for-review" ELSE state = "paused"
    <3>1. CASE session[s].state = "running"
      BY <3>1
    <3>2. CASE session[s].state # "running"
      BY <3>2
    <3> QED BY <3>1, <3>2
  <2> HIDE DEF r, state
  <2>4. MayGo(session[s].state, r.state)
    BY <1>1, <2>2, <2>3 DEF MayGo, SessionShape
  <2>5. r.state = "waiting-for-review" =>
           r.disc = "none" /\ \A i \in DOMAIN item : item[i].session = s => item[i].state # "running"
    BY <1>2, <2>2
  <2> QED BY <1>1, <2>1, <2>4, <2>5, RecordMoves
<1> QED BY <1>3, <1>4

LEMMA ReconcileTurnsLives ==
  ASSUME IInv, ReconcileTurns
  PROVE Lives
<1> DEFINE lost == {i \in DOMAIN item : item[i].kind = "turn" /\ Running(i)}
           cost(i) == IF item[i].cost = "reserved" THEN "committed" ELSE item[i].cost
           over(i) == [item[i] EXCEPT !.state = "unknown", !.run = "failed", !.budget = "uncertain", !.cost = cost(i)]
<1>1. /\ item' = [i \in DOMAIN item |-> IF i \notin lost THEN item[i] ELSE over(i)]
      /\ session' = [s \in DOMAIN session |->
            IF \E i \in lost : item[i].session = s THEN Over(session[s], "needs-attention") ELSE session[s]]
  BY DEF ReconcileTurns
<1>2. item = [i \in DOMAIN item |-> item[i]] /\ session = [s \in DOMAIN session |-> session[s]]
  BY DEF IInv, Typed
<1> HIDE DEF cost
<1>3. CASE lost = {}
  <2>1. item' = [i \in DOMAIN item |-> item[i]] /\ session' = [s \in DOMAIN session |-> session[s]]
    BY <1>1, <1>3
  <2> QED BY <1>2, <2>1, NothingMoves
<1>4. ASSUME NEW i \in lost
      PROVE Lives
  <2>1. i \in DOMAIN item /\ item[i].kind = "turn" /\ item[i].state = "running" /\ item[i] \in ItemShape
    BY ItemFacts DEF Running
  <2>2. lost = {i}
    BY <2>1, AtWork DEF Running
  <2>3. over(i).session = item[i].session
    BY <2>1 DEF ItemShape
  <2> HIDE DEF over, lost
  <2>4. item' = [j \in DOMAIN item |-> IF j = i THEN over(i) ELSE item[j]]
    BY <1>1, <2>2
  <2>5. session' = [t \in DOMAIN session |-> IF t = item[i].session THEN Over(session[item[i].session], "needs-attention")
                                              ELSE session[t]]
    BY <1>1, <2>2
  <2>6. /\ item' = [item EXCEPT ![i] = over(i)]
        /\ session' = [session EXCEPT ![item[i].session] = Over(session[item[i].session], "needs-attention")]
    BY <1>2, <2>4, <2>5
  <2> QED BY <2>1, <2>3, <2>6, EndsMoves
<1> QED BY <1>3, <1>4

LEMMA ReconcileLives ==
  ASSUME IInv, NEW s \in DOMAIN session, NEW lost \in BOOLEAN, Reconcile(s, lost)
  PROVE Lives
<1> DEFINE running == In(s, "running")
           unsure == lost \/ \E i \in running : item[i].call = "unknown"
           asUnknown(i) == [item[i] EXCEPT !.state = "unknown", !.budget = "uncertain",
                                           !.run = IF i \in Active THEN "failed" ELSE item[i].run]
           asCancelled(i) == [item[i] EXCEPT !.state = "cancelled", !.budget = "spent",
                                             !.run = IF i \in Active THEN "cancelled" ELSE item[i].run]
           ended(outcome) == Over([session[s] EXCEPT !.disc = "none"], outcome)
<1>1. /\ session[s].state \in {"running", "pause-requested", "stop-requested"} /\ session[s] \in SessionShape
      /\ \/ /\ item' = [i \in DOMAIN item |-> IF i \notin running THEN item[i] ELSE asUnknown(i)]
            /\ session' = [session EXCEPT ![s] = ended("needs-attention")]
         \/ /\ item' = [i \in DOMAIN item |-> IF i \notin running THEN SkipReady(s)[i] ELSE asCancelled(i)]
            /\ session' = [session EXCEPT ![s] = ended("cancelled")]
         \/ /\ session[s].state # "stop-requested"
            /\ item' = item /\ session' = [session EXCEPT ![s] = [session[s] EXCEPT !.state = "paused"]]
  BY Sizes DEF Reconcile
<1>2. /\ DOMAIN item = 1..Len(item) /\ Len(item) \in Nat /\ \A i \in DOMAIN item : item[i] \in ItemShape
      /\ \A i \in running : i \in DOMAIN item /\ item[i].session = s /\ item[i].state = "running"
  BY Sizes, ItemFacts DEF In, Items
<1>3. \A i \in running : asUnknown(i).session = s /\ asCancelled(i).session = s
  <2> SUFFICES ASSUME NEW i \in running PROVE asUnknown(i).session = s /\ asCancelled(i).session = s
    OBVIOUS
  <2> DEFINE failed == IF i \in Active THEN "failed" ELSE item[i].run
             cancelled == IF i \in Active THEN "cancelled" ELSE item[i].run
  <2>1. /\ asUnknown(i) = [item[i] EXCEPT !.state = "unknown", !.budget = "uncertain", !.run = failed]
        /\ asCancelled(i) = [item[i] EXCEPT !.state = "cancelled", !.budget = "spent", !.run = cancelled]
    OBVIOUS
  <2> HIDE DEF asUnknown, asCancelled, failed, cancelled
  <2> QED BY <1>2, <2>1 DEF ItemShape
<1>4. ended("needs-attention").state = "finished" /\ ended("cancelled").state = "finished"
  BY <1>1 DEF Over, SessionShape
<1> HIDE DEF running, ended, asUnknown, asCancelled
<1>5. CASE /\ item' = [i \in DOMAIN item |-> IF i \notin running THEN item[i] ELSE asUnknown(i)]
           /\ session' = [session EXCEPT ![s] = ended("needs-attention")]
  <2>1. item' = [i \in 1..Len(item) |-> IF i \notin running THEN item[i] ELSE asUnknown(i)]
    BY <1>2, <1>5
  <2>3. Len(item') = Len(item) /\ \A i \in DOMAIN item : item'[i] = IF i \notin running THEN item[i] ELSE asUnknown(i)
    BY <1>2, <2>1
  <2>2. Tends(s)
    BY <1>2, <1>3, <2>3 DEF Tends
  <2> QED BY <1>1, <1>4, <1>5, <2>2, SessionMoves DEF MayGo
<1>6. CASE /\ item' = [i \in DOMAIN item |-> IF i \notin running THEN SkipReady(s)[i] ELSE asCancelled(i)]
           /\ session' = [session EXCEPT ![s] = ended("cancelled")]
  <2>1. /\ \A i \in DOMAIN item : i \notin In(s, "ready") => PutAside(s, "skipped")[i] = item[i]
        /\ \A i \in In(s, "ready") : Follows(item[i], PutAside(s, "skipped")[i])
    BY PutAsideFacts
  <2>2. SkipReady(s) = PutAside(s, "skipped")
    BY DEF SkipReady, PutAside
  <2>3. ASSUME NEW i \in DOMAIN item
        PROVE /\ SkipReady(s)[i].session = item[i].session
              /\ SkipReady(s)[i].state = item[i].state \/ (item[i].session = s /\ item[i].state = "ready")
    <3>1. i \in In(s, "ready") => item[i].session = s /\ item[i].state = "ready"
      BY DEF In, Items
    <3> QED BY <2>1, <2>2, <3>1 DEF Follows
  <2>4. item' = [i \in 1..Len(item) |-> IF i \notin running THEN SkipReady(s)[i] ELSE asCancelled(i)]
    BY <1>2, <1>6
  <2>5. Len(item') = Len(item) /\ \A i \in DOMAIN item : item'[i] = IF i \notin running THEN SkipReady(s)[i] ELSE asCancelled(i)
    BY <1>2, <2>4
  <2>6. Tends(s)
    BY <1>2, <1>3, <2>3, <2>5 DEF Tends
  <2> QED BY <1>1, <1>4, <1>6, <2>6, SessionMoves DEF MayGo
<1>7. CASE /\ session[s].state # "stop-requested"
           /\ item' = item /\ session' = [session EXCEPT ![s] = [session[s] EXCEPT !.state = "paused"]]
  <2> DEFINE r == [session[s] EXCEPT !.state = "paused"]
  <2>1. r.state = "paused" /\ session' = [session EXCEPT ![s] = r]
    BY <1>1, <1>7 DEF SessionShape
  <2> HIDE DEF r
  <2>2. MayGo(session[s].state, r.state)
    BY <1>1, <1>7, <2>1 DEF MayGo
  <2> QED BY <1>1, <1>7, <2>1, <2>2, RecordMoves
<1> QED BY <1>1, <1>5, <1>6, <1>7

LEMMA StepsLive ==
  ASSUME IInv, WaitsAtRest, [Next]_vars
  PROVE Lives
<1>1. ASSUME NEW s \in DOMAIN session, NEW k \in Kinds, Admit(s, k[1], k[2]) \/ Continue(s, k[1], k[2])
      PROVE Lives
  BY <1>1, ComingLives
<1>2. ASSUME NEW s \in DOMAIN session, NEW set \in SUBSET Items(s), Apply(s, set)
      PROVE Lives
  BY <1>2, ReviewLives
<1>3. ASSUME NEW s \in DOMAIN session, Extend(s) \/ Pause(s) \/ Resume(s) \/ Stop(s) \/ Dispatch(s)
      PROVE Lives
  BY <1>3, CommandsLive, StopLives, DispatchLives
<1>4. ASSUME NEW i \in DOMAIN item, Keep(i)
      PROVE Lives
  BY <1>4, ReviewLives
<1>5. ASSUME NEW i \in DOMAIN item, NEW starts \in BOOLEAN, Launch(i, starts)
      PROVE Lives
  <2>1. CASE starts = TRUE
    BY <1>5, <2>1, WorkLives
  <2>2. CASE starts = FALSE
    BY <1>5, <2>2, EndingsLive
  <2> QED BY <2>1, <2>2
<1>6. ASSUME NEW i \in DOMAIN item,
             \/ Cancel(i) \/ Prepare(i) \/ Send(i) \/ Answer(i) \/ OpenTurn(i) \/ TurnAnswered(i)
             \/ \E how \in {"completed", "failed", "cancelled"}, found \in BOOLEAN :
                  \E call \in Fallen(item[i].call) : RunEnds(i, how, call, found)
             \/ \E call \in Fallen(item[i].call) : ReevaluationFails(i, call)
             \/ \E call \in Fallen(item[i].call) : TurnFails(i, call)
      PROVE Lives
  BY <1>6, WorkLives
<1>7. ASSUME NEW i \in DOMAIN item, Event(i) \/ Reevaluated(i) \/ CloseReevaluation(i)
      PROVE Lives
  BY <1>7, EndingsLive
<1>8. ASSUME NEW i \in DOMAIN item, CloseTurn(i) \/ \E saved \in BOOLEAN : SaveTurn(i, saved)
      PROVE Lives
  BY <1>8, TurnsLive
<1>9. ASSUME NEW s \in DOMAIN session, NEW how \in {"found", "empty", "failed"}, DiscoveryEnds(s, how)
      PROVE Lives
  BY <1>9, DiscoveryLives
<1>10. SubmitTurn \/ Crash \/ Interrupt \/ ReconcileTurns \/ Ready => Lives
  BY ComingLives, RecoveryLives, ReconcileTurnsLives
<1>11. ASSUME NEW s \in DOMAIN session, NEW lost \in BOOLEAN, Reconcile(s, lost)
       PROVE Lives
  BY <1>11, ReconcileLives
<1>12. UNCHANGED vars => Lives
  BY NothingMoves DEF vars
<1> QED
  <2>1. CASE Next
    BY <2>1, <1>1, <1>2, <1>3, <1>4, <1>5, <1>6, <1>7, <1>8, <1>9, <1>10, <1>11, Zenon DEF Next
  <2> QED BY <1>12, <2>1

\* Requests and conversations keep to the workflow's lifecycle, step by step: a stop is never taken back, what is
\* settled stays settled, only one session is under way, and one that ends leaves nothing running.
THEOREM FollowUpsKeepLifecycle == Spec => LifecycleSteps
<1>1. Init => WaitsAtRest
  <2> SUFFICES ASSUME Init PROVE WaitsAtRest
    OBVIOUS
  <2>1. PICK first \in {[NewSession("research", 1) EXCEPT !.state = "finished", !.outcome = "target-met"],
                        NewSession("research", 1),
                        [NewSession("research", 0) EXCEPT !.state = "running", !.disc = "going"]} : session = <<first>>
    BY DEF Init
  <2>2. first.state = "waiting-for-review" => first.disc = "none"
    <3>1. CASE first = NewSession("research", 1)
      BY <3>1 DEF NewSession
    <3>2. CASE first = [NewSession("research", 1) EXCEPT !.state = "finished", !.outcome = "target-met"]
      BY <3>2 DEF NewSession
    <3>3. CASE first = [NewSession("research", 0) EXCEPT !.state = "running", !.disc = "going"]
      BY <3>3 DEF NewSession
    <3> QED BY <2>1, <3>1, <3>2, <3>3
  <2>3. item = <<>> /\ \A s \in DOMAIN session : session[s] = first
    BY <2>1 DEF Init
  <2> QED BY <2>2, <2>3 DEF WaitsAtRest
<1>2. IInv /\ IInv' /\ WaitsAtRest /\ [Next]_vars => WaitsAtRest'
  BY StepsLive, RestsOn
<1>3. IInv /\ IInv' /\ WaitsAtRest /\ [Next]_vars => [L!Next]_L!vars
  <2> SUFFICES ASSUME IInv, IInv', WaitsAtRest, [Next]_vars PROVE L!Next \/ UNCHANGED L!vars
    OBVIOUS
  <2>1. Lives
    BY StepsLive
  <2>2. CASE Stays
    BY <2>2, StaysLives
  <2>3. CASE Opens
    BY <2>3, OpensLives
  <2>4. CASE \E s \in DOMAIN session : Moves(s)
    BY <2>4, MovesLive
  <2> QED BY <2>1, <2>2, <2>3, <2>4 DEF Lives
<1> QED BY <1>1, <1>2, <1>3, FollowUpsInvariant, PTL DEF Spec, LifecycleSteps
=============================================================================

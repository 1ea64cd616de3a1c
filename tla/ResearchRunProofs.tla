-------------------------- MODULE ResearchRunProofs --------------------------
(***************************************************************************)
(* A run never pays twice for a question whose answer it may still get.    *)
(*                                                                         *)
(* The argument is in two parts.  `AsksInv` is about the attempts in the   *)
(* database: what each says of a question that was left behind, and that a *)
(* search is complete only once its results are saved.  `LanesInv` is      *)
(* about the process: a lane that is about to ask has a question whose     *)
(* answer is not saved.  Neither is preserved without the other.           *)
(***************************************************************************)
EXTENDS ResearchRun, WellFoundedInduction, TLAPS

AskStates == {"prepared", "sent", "completed", "never", "failed", "timeout", "dropped", "bad", "cancelled", "lost"}
Attempt == [st : AskStates, cost : {"none", "reserved", "committed", "uncertain"}, acked : BOOLEAN]
Ats == {"over", "on", "ask", "queued", "reserved", "sent", "keep", "failed", "judged", "close", "pause"}
Ends == {"none", "done", "app", "budget", "model", "target"}
LaneShape == [at : Ats, n : Nat, fault : ModelFailures \cup {"none", "failed"}, drops : Nat,
              slow : BOOLEAN, end : Ends]
LiveShape == [phase : {"scan", "rank", "areas", "end", "off"}, aborted : BOOLEAN, failed : BOOLEAN]
RunShape == [state : {"running", "completed", "failed", "cancelled"}, made : BOOLEAN, chosen : SUBSET Areas,
             done : BOOLEAN, left : SUBSET Areas]

\* Of the attempts q at one question: all but the newest may be made again, and what a search says.
Told(q) == \A i \in 1..Len(q) - 1 : MayBeAskedAgain(q[i])
Plain(r, q, s) == KindOf(r) = "search" =>
  \A i \in DOMAIN q : q[i].st \notin {"lost", "dropped"} /\ (q[i].st = "completed" => r \in s)
AsksOK(all, s) ==
  /\ all \in [Requests -> Seq(Attempt)]
  /\ \A r \in Requests : Told(all[r]) /\ Plain(r, all[r], s)

\* A lane whose call has begun, or is to begin, has a call whose answer is not saved.
Waiting == {"ask", "queued", "reserved", "sent", "failed", "pause"}
CallOf(l, n) == IF l = Root THEN <<Root, "rank">> ELSE <<l, IF n = 0 THEN "scan" ELSE AreaCalls[l][n]>>
LaneOK(l, ln, phase, s) ==
  /\ ln \in LaneShape
  /\ ln.at \in Waiting => CallOf(l, ln.n) \notin s
  /\ ln.at # "over" => IF phase = "areas" THEN l # Root /\ ln.n >= 1 ELSE ln.n = 0
LanesOK(ls, phase, s) ==
  /\ ls \in [Lanes -> LaneShape]
  /\ \A l \in Lanes : LaneOK(l, ls[l], phase, s)

AsksInv == AsksOK(asks, saved)
LanesInv == LanesOK(lane, live.phase, saved) /\ live \in LiveShape /\ run \in RunShape
Inv == AsksInv /\ LanesInv

-----------------------------------------------------------------------------
(* What is done to the attempts at a question. *)

\* Attempts that are kept in number and only settled, forgiven or given up stay told and plain.
LEMMA Settled ==
  ASSUME NEW all, NEW s, AsksOK(all, s), NEW more,
         more \in [Requests -> Seq(Attempt)],
         \A r \in Requests : Len(more[r]) = Len(all[r]),
         \A r \in Requests : \A i \in DOMAIN all[r] :
           /\ MayBeAskedAgain(all[r][i]) => MayBeAskedAgain(more[r][i])
           /\ \/ more[r][i].st = all[r][i].st
              \/ KindOf(r) = "search" => more[r][i].st \notin {"lost", "dropped", "completed"}
  PROVE AsksOK(more, s)
<1> SUFFICES ASSUME NEW r \in Requests PROVE Told(more[r]) /\ Plain(r, more[r], s)
  BY DEF AsksOK
<1>1. all[r] \in Seq(Attempt) /\ more[r] \in Seq(Attempt) /\ Told(all[r]) /\ Plain(r, all[r], s)
  BY DEF AsksOK
<1>2. DOMAIN more[r] = DOMAIN all[r] /\ DOMAIN all[r] = 1..Len(all[r]) /\ Len(all[r]) \in Nat
  BY <1>1
<1>3. Told(more[r])
  BY <1>1, <1>2 DEF Told
<1>4. Plain(r, more[r], s)
  BY <1>1, <1>2 DEF Plain
<1> QED BY <1>3, <1>4

\* What the rows of a function of attempts are.
LEMMA RowsOf ==
  ASSUME NEW all \in [Requests -> Seq(Attempt)], NEW r \in Requests
  PROVE /\ all[r] \in Seq(Attempt) /\ Len(all[r]) \in Nat /\ DOMAIN all[r] = 1..Len(all[r])
        /\ \A i \in DOMAIN all[r] : all[r][i] \in Attempt
<1>1. all[r] \in Seq(Attempt)
  OBVIOUS
<1> QED BY <1>1

\* A function on the places of a sequence of attempts is one as long.
LEMMA AsLong ==
  ASSUME NEW q \in Seq(Attempt), NEW p, DOMAIN p = DOMAIN q, p = [i \in DOMAIN q |-> p[i]],
         \A i \in DOMAIN q : p[i] \in Attempt
  PROVE p \in Seq(Attempt) /\ Len(p) = Len(q)
<1>1. Len(q) \in Nat /\ DOMAIN q = 1..Len(q)
  OBVIOUS
<1>2. p \in [1..Len(q) -> Attempt]
  BY <1>1
<1>3. p \in Seq(Attempt)
  BY <1>1, <1>2
<1> QED BY <1>1, <1>2, <1>3

LEMMA ChargedOnly ==
  ASSUME NEW all, NEW s, AsksOK(all, s)
  PROVE AsksOK(SettleUncertain(all), s)
<1> DEFINE more == SettleUncertain(all)
<1>0. all \in [Requests -> Seq(Attempt)]
  BY DEF AsksOK
<1>1. ASSUME NEW r \in Requests, NEW i \in DOMAIN all[r]
      PROVE /\ Charge(r, all[r][i]) \in Attempt
            /\ Charge(r, all[r][i]).st = all[r][i].st /\ Charge(r, all[r][i]).acked = all[r][i].acked
  <2> DEFINE x == all[r][i]
  <2>1. x \in Attempt
    BY <1>0, RowsOf
  <2> HIDE DEF x
  <2>2. Charge(r, x) \in Attempt /\ Charge(r, x).st = x.st /\ Charge(r, x).acked = x.acked
    BY <2>1 DEF Charge, Attempt, AskStates
  <2> QED BY <2>2 DEF x
<1>2. \A r \in Requests : more[r] = [i \in DOMAIN all[r] |-> Charge(r, all[r][i])]
  BY DEF SettleUncertain
<1>3. ASSUME NEW r \in Requests PROVE more[r] \in Seq(Attempt) /\ Len(more[r]) = Len(all[r])
  <2>1. all[r] \in Seq(Attempt)
    BY <1>0
  <2>2. \A i \in DOMAIN all[r] : more[r][i] \in Attempt
    BY <1>1, <1>2
  <2>3. more[r] = [i \in DOMAIN all[r] |-> more[r][i]] /\ DOMAIN more[r] = DOMAIN all[r]
    BY <1>2
  <2> HIDE DEF more
  <2> QED BY <2>1, <2>2, <2>3, AsLong
<1>4. more \in [Requests -> Seq(Attempt)]
  BY <1>3 DEF SettleUncertain
<1>5. \A r \in Requests : \A i \in DOMAIN all[r] :
           /\ MayBeAskedAgain(all[r][i]) => MayBeAskedAgain(more[r][i])
           /\ \/ more[r][i].st = all[r][i].st
              \/ KindOf(r) = "search" => more[r][i].st \notin {"lost", "dropped", "completed"}
  <2>1. \A r \in Requests : \A i \in DOMAIN all[r] : more[r][i] = Charge(r, all[r][i])
    BY <1>2
  <2> QED BY <1>1, <2>1 DEF MayBeAskedAgain
<1> HIDE DEF more
<1>6. AsksOK(more, s)
  BY <1>3, <1>4, <1>5, Settled
<1> QED BY <1>6 DEF more

LEMMA LetGo ==
  ASSUME NEW all, NEW s, NEW calls, AsksOK(all, s)
  PROVE AsksOK(Acknowledged(all, calls), s)
<1> DEFINE more == Acknowledged(all, calls)
<1>0. all \in [Requests -> Seq(Attempt)]
  BY DEF AsksOK
<1>2. \A r \in Requests : more[r] = [i \in DOMAIN all[r] |->
             IF <<r, i>> \in calls THEN [all[r][i] EXCEPT !.acked = TRUE] ELSE all[r][i]]
  BY DEF Acknowledged
<1>1. ASSUME NEW r \in Requests, NEW i \in DOMAIN all[r]
      PROVE more[r][i] \in Attempt /\ more[r][i].st = all[r][i].st /\ (all[r][i].acked => more[r][i].acked)
  <2>1. all[r][i] \in Attempt
    BY <1>0, RowsOf
  <2>2. more[r][i] = IF <<r, i>> \in calls THEN [all[r][i] EXCEPT !.acked = TRUE] ELSE all[r][i]
    BY <1>2
  <2> HIDE DEF more
  <2> QED BY <2>1, <2>2 DEF Attempt, AskStates
<1>3. ASSUME NEW r \in Requests PROVE more[r] \in Seq(Attempt) /\ Len(more[r]) = Len(all[r])
  <2>1. all[r] \in Seq(Attempt)
    BY <1>0
  <2>3. more[r] = [i \in DOMAIN all[r] |-> more[r][i]] /\ DOMAIN more[r] = DOMAIN all[r]
    BY <1>2
  <2> HIDE DEF more
  <2> QED BY <2>1, <1>1, <2>3, AsLong
<1>4. more \in [Requests -> Seq(Attempt)]
  BY <1>3 DEF Acknowledged
<1> HIDE DEF more
<1>5. \A r \in Requests : \A i \in DOMAIN all[r] :
           /\ MayBeAskedAgain(all[r][i]) => MayBeAskedAgain(more[r][i])
           /\ \/ more[r][i].st = all[r][i].st
              \/ KindOf(r) = "search" => more[r][i].st \notin {"lost", "dropped", "completed"}
  BY <1>1 DEF MayBeAskedAgain
<1>6. AsksOK(more, s)
  BY <1>3, <1>4, <1>5, Settled
<1> QED BY <1>6 DEF more

\* The newest attempt at a question is told how it stands.
LEMMA Renewed ==
  ASSUME NEW s, AsksOK(asks, saved), saved \subseteq s, NEW r, NEW st \in AskStates,
         NEW cost \in {"none", "reserved", "committed", "uncertain"},
         KindOf(r) = "search" => st \notin {"lost", "dropped"} /\ (st = "completed" => r \in s)
  PROVE AsksOK(WithNewest(r, st, cost), s)
<1> DEFINE more == WithNewest(r, st, cost)
           q == asks[r]
<1>0. asks \in [Requests -> Seq(Attempt)]
  BY DEF AsksOK
<1>1. ASSUME NEW o \in Requests, o # r PROVE more[o] = asks[o]
  BY <1>0, <1>1 DEF WithNewest
<1>2. ASSUME r \in Requests
      PROVE /\ more[r] \in Seq(Attempt) /\ Len(more[r]) = Len(q)
            /\ \A i \in 1..Len(q) - 1 : more[r][i] = q[i]
            /\ \A i \in DOMAIN q : more[r][i].st = q[i].st \/ more[r][i].st = st
  <2>1. /\ q \in Seq(Attempt) /\ Len(q) \in Nat /\ DOMAIN q = 1..Len(q)
        /\ \A i \in DOMAIN q : q[i] \in Attempt
    BY <1>0, <1>2, RowsOf
  <2>2. more[r] = [q EXCEPT ![Len(q)] = [@ EXCEPT !.st = st, !.cost = cost]]
    BY <1>0, <1>2 DEF WithNewest
  <2> HIDE DEF more, q
  <2>3. \A i \in DOMAIN q : i # Len(q) => more[r][i] = q[i]
    BY <2>2
  <2>4. Len(q) \in DOMAIN q => more[r][Len(q)] = [q[Len(q)] EXCEPT !.st = st, !.cost = cost]
    BY <2>2
  <2>5. Len(q) \in DOMAIN q => more[r][Len(q)] \in Attempt /\ more[r][Len(q)].st = st
    BY <2>1, <2>4 DEF Attempt
  <2>6. DOMAIN more[r] = DOMAIN q /\ more[r] = [i \in DOMAIN q |-> more[r][i]]
    BY <2>2
  <2>7. \A i \in DOMAIN q : more[r][i] \in Attempt
    BY <2>1, <2>3, <2>5
  <2>8. more[r] \in Seq(Attempt) /\ Len(more[r]) = Len(q)
    BY <2>1, <2>6, <2>7, AsLong
  <2>9. \A i \in 1..Len(q) - 1 : more[r][i] = q[i]
    BY <2>1, <2>3
  <2>10. \A i \in DOMAIN q : more[r][i].st = q[i].st \/ more[r][i].st = st
    BY <2>3, <2>5
  <2> QED BY <2>8, <2>9, <2>10
<1>3. more \in [Requests -> Seq(Attempt)]
  <2>1. DOMAIN more = Requests /\ more = [o \in Requests |-> more[o]]
    BY <1>0 DEF WithNewest
  <2>2. \A o \in Requests : more[o] \in Seq(Attempt)
    BY <1>0, <1>1, <1>2
  <2> HIDE DEF more
  <2> QED BY <2>1, <2>2
<1>4. ASSUME NEW o \in Requests PROVE Told(more[o]) /\ Plain(o, more[o], s)
  <2>1. Told(asks[o]) /\ Plain(o, asks[o], saved)
    BY DEF AsksOK
  <2>2. CASE o # r
    <3>1. more[o] = asks[o]
      BY <1>1, <2>2
    <3> HIDE DEF more
    <3> QED BY <2>1, <3>1 DEF Plain
  <2>3. CASE o = r
    <3>1. /\ Len(more[r]) = Len(q) /\ DOMAIN more[r] = DOMAIN q
          /\ \A i \in 1..Len(q) - 1 : more[r][i] = q[i]
          /\ \A i \in DOMAIN q : more[r][i].st = q[i].st \/ more[r][i].st = st
      BY <1>0, <1>2, <2>3, RowsOf
    <3>2. Told(q) /\ Plain(r, q, saved)
      BY <2>1, <2>3
    <3> HIDE DEF more, q
    <3>3. Told(more[r])
      BY <3>1, <3>2 DEF Told
    <3>4. Plain(r, more[r], s)
      BY <3>1, <3>2 DEF Plain
    <3> QED BY <2>3, <3>3, <3>4
  <2> QED BY <2>2, <2>3
<1> HIDE DEF more
<1>5. AsksOK(more, s)
  BY <1>3, <1>4 DEF AsksOK
<1> QED BY <1>5 DEF more

\* A question is only asked anew when its newest attempt has left nothing to wait for.
LEMMA AskedAnew ==
  ASSUME AsksOK(asks, saved), NEW r, r \notin saved, ~Blocked(r), ~Recoverable(r)
  PROVE AsksOK([asks EXCEPT ![r] = Append(@, NewAsk)], saved)
<1> DEFINE more == [asks EXCEPT ![r] = Append(@, NewAsk)]
           q == asks[r]
<1>0. asks \in [Requests -> Seq(Attempt)]
  BY DEF AsksOK
<1>1. NewAsk \in Attempt /\ NewAsk.st = "prepared"
  BY DEF NewAsk, Attempt, AskStates
<1>2. ASSUME r \in Requests
      PROVE more[r] \in Seq(Attempt) /\ Told(more[r]) /\ Plain(r, more[r], saved)
  <2>1. /\ q \in Seq(Attempt) /\ Len(q) \in Nat /\ DOMAIN q = 1..Len(q)
        /\ \A i \in DOMAIN q : q[i] \in Attempt
    BY <1>0, <1>2, RowsOf
  <2>2. more[r] = Append(q, NewAsk)
    BY <1>0, <1>2
  <2>3. Told(q) /\ Plain(r, q, saved)
    BY <1>2 DEF AsksOK
  <2>4. ASSUME Len(q) # 0 PROVE MayBeAskedAgain(q[Len(q)])
    <3> DEFINE i == Len(q)
    <3>1. i \in DOMAIN q /\ q[i] \in Attempt /\ \A j \in i + 1..Len(q) : FALSE
      BY <2>1, <2>4
    <3>2. <<r, i>> \notin Unknown(asks)
      BY <3>1 DEF Blocked
    <3>3. <<r, i>> \in UNION {{o} \X DOMAIN asks[o] : o \in Requests}
      BY <1>2, <3>1
    <3>4. ~Unresolved(asks, r, i) \/ q[i].acked
      BY <3>2, <3>3 DEF Unknown
    <3>5. CASE KindOf(r) = "search"
      <4>1. q[i].st \notin {"lost", "dropped", "completed"}
        BY <2>3, <3>1, <3>5 DEF Plain
      <4>2. q[i].st # "sent" \/ q[i].acked
        BY <3>4, <3>5 DEF Unresolved
      <4> QED BY <3>1, <4>1, <4>2 DEF MayBeAskedAgain, Attempt, AskStates
    <3>6. CASE KindOf(r) # "search"
      <4>1. q[i].st # "completed"
        BY <3>1, <3>6 DEF Recoverable, KindOf
      <4>2. q[i].st \notin {"sent", "lost", "dropped"} \/ q[i].acked
        BY <3>1, <3>4, <3>6 DEF Unresolved
      <4> QED BY <3>1, <4>1, <4>2 DEF MayBeAskedAgain, Attempt, AskStates
    <3> QED BY <3>5, <3>6
  <2> HIDE DEF more, q
  <2>5. /\ more[r] \in Seq(Attempt) /\ Len(more[r]) = Len(q) + 1 /\ more[r][Len(q) + 1] = NewAsk
        /\ \A i \in 1..Len(q) : more[r][i] = q[i]
    BY <1>1, <2>1, <2>2
  <2>6. Told(more[r])
    BY <2>1, <2>3, <2>4, <2>5 DEF Told
  <2>7. Plain(r, more[r], saved)
    BY <1>1, <2>1, <2>3, <2>5 DEF Plain
  <2> QED BY <2>5, <2>6, <2>7
<1>3. ASSUME NEW o \in Requests PROVE more[o] \in Seq(Attempt) /\ Told(more[o]) /\ Plain(o, more[o], saved)
  <2>1. CASE o = r
    BY <1>2, <2>1
  <2>2. CASE o # r
    <3>1. more[o] = asks[o]
      BY <1>0, <2>2
    <3> HIDE DEF more
    <3> QED BY <1>0, <3>1 DEF AsksOK
  <2> QED BY <2>1, <2>2
<1>4. DOMAIN more = Requests /\ more = [o \in Requests |-> more[o]]
  BY <1>0
<1> HIDE DEF more
<1>5. AsksOK(more, saved)
  BY <1>3, <1>4 DEF AsksOK
<1> QED BY <1>5 DEF more

\* What a crash leaves of the attempts.
LostWith(all) ==
  [r \in Requests |-> [i \in DOMAIN all[r] |->
     IF KindOf(r) = "search" THEN all[r][i]
     ELSE [all[r][i] EXCEPT !.st = CASE @ = "prepared" -> "never" [] @ = "sent" -> "lost" [] OTHER -> @]]]

LEMMA LostOnly ==
  ASSUME NEW all, NEW s, AsksOK(all, s)
  PROVE AsksOK(LostWith(all), s)
<1> DEFINE more == LostWith(all)
<1>0. all \in [Requests -> Seq(Attempt)]
  BY DEF AsksOK
<1>1. \A r \in Requests : more[r] = [i \in DOMAIN all[r] |->
             IF KindOf(r) = "search" THEN all[r][i]
             ELSE [all[r][i] EXCEPT !.st = CASE @ = "prepared" -> "never" [] @ = "sent" -> "lost" [] OTHER -> @]]
  BY DEF LostWith
<1>2. ASSUME NEW r \in Requests, NEW i \in DOMAIN all[r]
      PROVE /\ more[r][i] \in Attempt
            /\ MayBeAskedAgain(all[r][i]) => MayBeAskedAgain(more[r][i])
            /\ KindOf(r) = "search" => more[r][i].st = all[r][i].st
  <2> DEFINE x == all[r][i]
             st == CASE x.st = "prepared" -> "never" [] x.st = "sent" -> "lost" [] OTHER -> x.st
  <2>1. x \in Attempt
    BY <1>0, RowsOf
  <2>2. more[r][i] = IF KindOf(r) = "search" THEN x ELSE [x EXCEPT !.st = st]
    BY <1>1
  <2>3. st \in AskStates /\ (st = x.st \/ (x.st = "prepared" /\ st = "never") \/ (x.st = "sent" /\ st = "lost"))
    BY <2>1 DEF Attempt, AskStates
  <2> HIDE DEF more, x, st
  <2>4. [x EXCEPT !.st = st] \in Attempt /\ [x EXCEPT !.st = st].st = st /\ [x EXCEPT !.st = st].acked = x.acked
    BY <2>1, <2>3 DEF Attempt
  <2>5. more[r][i] \in Attempt
    BY <2>1, <2>2, <2>4
  <2>6. MayBeAskedAgain(x) => MayBeAskedAgain(more[r][i])
    BY <2>2, <2>3, <2>4 DEF MayBeAskedAgain
  <2>7. KindOf(r) = "search" => more[r][i].st = x.st
    BY <2>2
  <2> QED BY <2>5, <2>6, <2>7 DEF x
<1>3. ASSUME NEW r \in Requests PROVE more[r] \in Seq(Attempt) /\ Len(more[r]) = Len(all[r])
  <2>1. all[r] \in Seq(Attempt)
    BY <1>0
  <2>2. more[r] = [i \in DOMAIN all[r] |-> more[r][i]] /\ DOMAIN more[r] = DOMAIN all[r]
    BY <1>1
  <2> HIDE DEF more
  <2> QED BY <2>1, <1>2, <2>2, AsLong
<1>4. more \in [Requests -> Seq(Attempt)]
  BY <1>3 DEF LostWith
<1> HIDE DEF more
<1>5. ASSUME NEW r \in Requests PROVE Told(more[r]) /\ Plain(r, more[r], s)
  <2>1. /\ Len(all[r]) \in Nat /\ DOMAIN all[r] = 1..Len(all[r])
        /\ DOMAIN more[r] = 1..Len(more[r]) /\ Len(more[r]) = Len(all[r])
    BY <1>0, <1>3, <1>4, RowsOf
  <2>2. Told(all[r]) /\ Plain(r, all[r], s)
    BY DEF AsksOK
  <2>3. Told(more[r])
    BY <1>2, <2>1, <2>2 DEF Told
  <2>4. Plain(r, more[r], s)
    BY <1>2, <2>1, <2>2 DEF Plain
  <2> QED BY <2>3, <2>4
<1>6. AsksOK(more, s)
  BY <1>4, <1>5 DEF AsksOK
<1> QED BY <1>6 DEF more

-----------------------------------------------------------------------------
(* What a step does to the lanes. *)

LEMMA OwnCall ==
  ASSUME NEW l \in Lanes, NEW k \in Lanes, NEW m, NEW n, CallOf(l, m) = CallOf(k, n)
  PROVE l = k
BY DEF CallOf

LEMMA CallsOwn == \A l \in Lanes : Call(l) = CallOf(l, lane[l].n)
BY DEF Call, CallOf

\* One lane moves, and what is saved is the answer to its call or nothing.
LEMMA OneLane ==
  ASSUME NEW ls, NEW phase, NEW s, LanesOK(ls, phase, s), NEW l \in Lanes, NEW x, NEW t,
         t = s \/ t = s \cup {CallOf(l, ls[l].n)}, LaneOK(l, x, phase, t)
  PROVE LanesOK([ls EXCEPT ![l] = x], phase, t)
<1> DEFINE more == [ls EXCEPT ![l] = x]
<1>1. ls \in [Lanes -> LaneShape] /\ x \in LaneShape
  BY DEF LanesOK, LaneOK
<1>2. more \in [Lanes -> LaneShape] /\ more[l] = x /\ \A k \in Lanes : k # l => more[k] = ls[k]
  BY <1>1
<1> HIDE DEF more
<1>3. ASSUME NEW k \in Lanes PROVE LaneOK(k, more[k], phase, t)
  <2>1. CASE k = l
    BY <1>2, <2>1
  <2>2. CASE k # l
    <3>1. CallOf(k, ls[k].n) # CallOf(l, ls[l].n)
      BY <2>2, OwnCall
    <3>2. LaneOK(k, ls[k], phase, s)
      BY DEF LanesOK
    <3> QED BY <1>2, <2>2, <3>1, <3>2 DEF LaneOK
  <2> QED BY <2>1, <2>2
<1>4. LanesOK(more, phase, t)
  BY <1>2, <1>3 DEF LanesOK
<1> QED BY <1>4 DEF more

\* A lane that rests, and one at the start of its call.
LEMMA IdleLane == NoLane \in LaneShape /\ NoLane.at = "over"
BY DEF NoLane, LaneShape, Ats, Ends

LEMMA FreshLane ==
  ASSUME NEW n \in Nat
  PROVE LaneAt(n) \in LaneShape /\ LaneAt(n).at = "on" /\ LaneAt(n).n = n
<1>1. NoLane \in LaneShape
  BY IdleLane
<1>2. [NoLane EXCEPT !.at = "on"] \in LaneShape /\ [NoLane EXCEPT !.at = "on"].at = "on"
  BY <1>1 DEF LaneShape, Ats
<1> QED BY <1>2 DEF LaneShape, Ats, LaneAt

\* The three ways a lane goes on.
LEMMA LaneMoves ==
  ASSUME LanesInv, NEW l \in Lanes, NEW at \in Ats, Move(l, at),
         at \in Waiting => Call(l) \notin saved, at # "over" => lane[l].at # "over"
  PROVE LanesOK(lane', live.phase, saved)
<1> DEFINE x == [lane[l] EXCEPT !.at = at]
<1>1. lane' = [lane EXCEPT ![l] = x]
  BY DEF Move
<1>2. lane[l] \in LaneShape /\ LaneOK(l, lane[l], live.phase, saved) /\ LanesOK(lane, live.phase, saved)
  BY DEF LanesInv, LanesOK
<1>3. x \in LaneShape /\ x.at = at /\ x.n = lane[l].n
  BY <1>2 DEF LaneShape
<1> HIDE DEF x
<1>4. LaneOK(l, x, live.phase, saved)
  BY <1>2, <1>3, CallsOwn DEF LaneOK
<1> QED BY <1>1, <1>2, <1>4, OneLane

LEMMA LaneEnds ==
  ASSUME LanesInv, NEW l \in Lanes, NEW end \in Ends, End(l, end), NEW t, t = saved \/ t = saved \cup {Call(l)}
  PROVE LanesOK(lane', live.phase, t)
<1> DEFINE x == [lane[l] EXCEPT !.at = "over", !.end = end]
<1>1. lane' = [lane EXCEPT ![l] = x]
  <2>1. lane = [k \in Lanes |-> lane[k]]
    BY DEF LanesInv, LanesOK
  <2> QED BY <2>1 DEF End
<1>2. lane[l] \in LaneShape /\ LanesOK(lane, live.phase, saved)
  BY DEF LanesInv, LanesOK
<1>3. x \in LaneShape /\ x.at = "over"
  BY <1>2 DEF LaneShape, Ats
<1> HIDE DEF x
<1>4. LaneOK(l, x, live.phase, t)
  BY <1>3 DEF LaneOK, Waiting
<1>5. t = saved \/ t = saved \cup {CallOf(l, lane[l].n)}
  BY CallsOwn
<1> QED BY <1>1, <1>2, <1>4, <1>5, OneLane

LEMMA LanePasses ==
  ASSUME LanesInv, NEW l \in Lanes, Pass(l), live.phase = "areas", lane[l].at # "over",
         NEW t, t = saved \/ t = saved \cup {Call(l)}
  PROVE LanesOK(lane', live.phase, t)
<1> DEFINE x == LaneAt(lane[l].n + 1)
<1>1. lane' = [lane EXCEPT ![l] = x]
  BY DEF Pass
<1>2. lane[l] \in LaneShape /\ LaneOK(l, lane[l], live.phase, saved) /\ LanesOK(lane, live.phase, saved)
  BY DEF LanesInv, LanesOK
<1>3. x \in LaneShape /\ x.at = "on" /\ x.n = lane[l].n + 1 /\ lane[l].n \in Nat
  <2>1. lane[l].n \in Nat
    BY <1>2 DEF LaneShape
  <2> QED BY <2>1, FreshLane
<1> HIDE DEF x
<1>4. LaneOK(l, x, live.phase, t)
  BY <1>2, <1>3 DEF LaneOK, Waiting
<1>5. t = saved \/ t = saved \cup {CallOf(l, lane[l].n)}
  BY CallsOwn
<1> QED BY <1>1, <1>2, <1>4, <1>5, OneLane

\* A call that is none of a scan or the ranking is made in the phase of the areas.
LEMMA InAreas ==
  ASSUME LanesInv, NEW l \in Lanes, lane[l].at # "over", Call(l)[2] \notin {"scan", "rank"}
  PROVE live.phase = "areas"
<1>1. LaneOK(l, lane[l], live.phase, saved)
  BY DEF LanesInv, LanesOK
<1>2. CallOf(l, lane[l].n)[2] \notin {"scan", "rank"}
  BY CallsOwn
<1> QED BY <1>1, <1>2 DEF LaneOK, CallOf

\* What is refused is left out, or ends its lane.
LEMMA LaneRefused ==
  ASSUME LanesInv, NEW l \in Lanes, NEW intime \in BOOLEAN, Refuse(l, intime), lane[l].at # "over"
  PROVE LanesOK(lane', live.phase, saved)
<1>1. CASE Pass(l)
  <2>1. Optional(Call(l)) \/ Call(l)[2] = "verdict" \/ \E end \in {"budget", "app"} : End(l, end)
    BY DEF Refuse
  <2>2. CASE Optional(Call(l)) \/ Call(l)[2] = "verdict"
    <3>1. live.phase = "areas"
      BY <2>2, InAreas DEF Optional
    <3> QED BY <1>1, <3>1, LanePasses
  <2>3. CASE \E end \in {"budget", "app"} : End(l, end)
    BY <2>3, LaneEnds DEF Ends
  <2> QED BY <2>1, <2>2, <2>3
<1>2. CASE \E end \in {"budget", "app"} : End(l, end)
  BY <1>2, LaneEnds DEF Ends
<1> QED BY <1>1, <1>2 DEF Refuse

LEMMA LanesHold ==
  ASSUME LanesInv, live' = live, run' = run, NEW t, t = saved', LanesOK(lane', live.phase, t)
  PROVE LanesInv'
BY DEF LanesInv

\* A lane looks for its next call.
LEMMA GoStep ==
  ASSUME Inv, NEW l \in Lanes, Go(l)
  PROVE Inv'
<1>1. UNCHANGED <<asks, saved, run, live>> /\ lane[l].at = "on"
  BY DEF Go, kept
<1>2. AsksInv'
  BY <1>1 DEF Inv, AsksInv
<1>3. LanesInv
  BY DEF Inv
<1>4. LanesOK(lane', live.phase, saved)
  <2>1. CASE live.phase # "areas"
    <3>1. CASE Call(l) \in saved
      <4>1. End(l, "done")
        BY <2>1, <3>1 DEF Go
      <4> QED BY <1>3, <4>1, LaneEnds DEF Ends
    <3>2. CASE Call(l) \notin saved
      <4>1. Move(l, "ask")
        BY <2>1, <3>2 DEF Go
      <4> QED BY <1>1, <1>3, <3>2, <4>1, LaneMoves DEF Ats
    <3> QED BY <3>1, <3>2
  <2>2. CASE live.phase = "areas"
    <3> DEFINE open == {n \in lane[l].n..Len(AreaCalls[l]) : ~Passed(l, AreaCalls[l][n])}
               n1 == IF open = {} THEN Len(AreaCalls[l]) + 1 ELSE Min(open)
               at1 == IF area[l].problems = "failed" THEN "judged" ELSE IF open = {} THEN "close" ELSE "ask"
               x == [lane[l] EXCEPT !.n = n1, !.at = at1]
    <3>0. lane \in [Lanes -> LaneShape] /\ lane[l] \in LaneShape /\ LaneOK(l, lane[l], "areas", saved)
      BY <1>3, <2>2 DEF LanesInv, LanesOK
    <3>1. lane' = [lane EXCEPT ![l] = x]
      BY <2>2, <3>0 DEF Go
    <3>2. l \in Areas /\ lane[l].n \in Nat /\ lane[l].n >= 1 /\ Len(AreaCalls[l]) \in Nat
      <4>1. l # Root /\ lane[l].n \in Nat /\ lane[l].n >= 1
        BY <1>1, <3>0 DEF LaneOK, LaneShape
      <4>2. l \in Areas
        BY <4>1 DEF Lanes
      <4>3. Len(AreaCalls[l]) \in Nat
        BY <4>2, ResearchAssumption
      <4> QED BY <4>1, <4>2, <4>3
    <3>3. ASSUME open # {} PROVE Min(open) \in open
      <4>1. open \subseteq Nat
        BY <3>2
      <4>2. IsWellFoundedOn(OpToRel(<, Nat), Nat)
        BY NatLessThanWellFounded
      <4> HIDE DEF open
      <4>3. PICK m \in open : \A n \in open : ~(<<n, m>> \in OpToRel(<, Nat))
        BY <3>3, <4>1, <4>2, WFMin
      <4>4. \A n \in open : m <= n
        <5>1. \A n \in open : ~(n < m)
          BY <4>1, <4>3 DEF OpToRel
        <5> QED BY <4>1, <5>1
      <4> QED BY <4>4 DEF Min
    <3>4. n1 \in Nat /\ n1 >= 1
      <4>1. CASE open = {}
        BY <3>2, <4>1
      <4>2. CASE open # {}
        BY <3>2, <3>3, <4>2
      <4> QED BY <4>1, <4>2
    <3>5. at1 \in {"judged", "close", "ask"} /\ (at1 = "ask" => open # {})
      OBVIOUS
    <3>6. ASSUME at1 = "ask" PROVE CallOf(l, n1) \notin saved
      <4>1. n1 \in open /\ n1 # 0
        BY <3>3, <3>4, <3>5, <3>6
      <4>2. <<l, AreaCalls[l][n1]>> \notin saved
        BY <4>1 DEF Passed
      <4>3. l # Root
        BY <3>2, ResearchAssumption
      <4> HIDE DEF n1, open
      <4> QED BY <4>1, <4>2, <4>3 DEF CallOf
    <3> HIDE DEF open, n1, at1
    <3>7. x \in LaneShape /\ x.at = at1 /\ x.n = n1
      BY <3>0, <3>4, <3>5 DEF LaneShape, Ats
    <3> HIDE DEF x
    <3>8. LaneOK(l, x, live.phase, saved)
      BY <2>2, <3>0, <1>1, <3>4, <3>5, <3>6, <3>7 DEF LaneOK, Waiting
    <3>9. LanesOK(lane, live.phase, saved)
      BY <1>3 DEF LanesInv
    <3> QED BY <3>1, <3>8, <3>9, OneLane
  <2> QED BY <2>1, <2>2
<1>5. LanesInv'
  BY <1>1, <1>3, <1>4, LanesHold
<1> QED BY <1>2, <1>5 DEF Inv

\* What a step leaves of the invariant when it leaves the lanes, or the attempts, alone.
LEMMA AsksStay == ASSUME Inv, UNCHANGED <<asks, saved>> PROVE AsksInv'
BY DEF Inv, AsksInv
LEMMA LanesRest == ASSUME Inv, UNCHANGED <<lane, live, run, saved>> PROVE LanesInv'
BY DEF Inv, LanesInv

\* discoveryClient, WorkflowExecution.search: what is blocked or answered is not asked.
LEMMA AskStep ==
  ASSUME Inv, NEW l \in Lanes, Ask(l)
  PROVE Inv'
<1> DEFINE r == Call(l)
<1>1. UNCHANGED <<saved, run, live>> /\ lane[l].at = "ask"
  BY DEF Ask
<1>2. LanesInv /\ AsksInv /\ AsksOK(asks, saved)
  BY DEF Inv, AsksInv
<1>3. r \notin saved
  BY <1>1, <1>2, CallsOwn DEF LanesInv, LanesOK, LaneOK, Waiting
<1>4. \/ End(l, "app") /\ UNCHANGED asks
      \/ Optional(r) /\ Pass(l) /\ UNCHANGED asks
      \/ Refuse(l, TRUE) /\ UNCHANGED asks
      \/ Move(l, "keep") /\ UNCHANGED asks
      \/ /\ ~Blocked(r) /\ ~Recoverable(r)
         /\ Move(l, "queued") /\ asks' = [asks EXCEPT ![r] = Append(@, NewAsk)]
  BY DEF Ask
<1>5. AsksInv'
  <2>1. CASE UNCHANGED asks
    BY <1>1, <2>1, AsksStay
  <2>2. CASE ~Blocked(r) /\ ~Recoverable(r) /\ asks' = [asks EXCEPT ![r] = Append(@, NewAsk)]
    <3> HIDE DEF r
    <3>1. AsksOK([asks EXCEPT ![r] = Append(@, NewAsk)], saved)
      BY <1>2, <1>3, <2>2, AskedAnew
    <3> QED BY <1>1, <2>2, <3>1 DEF AsksInv
  <2> QED BY <1>4, <2>1, <2>2
<1>6. LanesOK(lane', live.phase, saved)
  <2>1. CASE End(l, "app")
    BY <1>2, <2>1, LaneEnds DEF Ends
  <2>2. CASE Optional(r) /\ Pass(l)
    <3>1. live.phase = "areas"
      BY <1>1, <1>2, <2>2, InAreas DEF Optional
    <3> QED BY <1>1, <1>2, <2>2, <3>1, LanePasses
  <2>3. CASE Refuse(l, TRUE)
    BY <1>1, <1>2, <2>3, LaneRefused
  <2>4. CASE Move(l, "keep")
    BY <1>1, <1>2, <2>4, LaneMoves DEF Ats, Waiting
  <2>5. CASE Move(l, "queued")
    BY <1>1, <1>2, <1>3, <2>5, LaneMoves DEF Ats, Waiting
  <2> QED BY <1>4, <2>1, <2>2, <2>3, <2>4, <2>5
<1>7. LanesInv'
  BY <1>1, <1>2, <1>6, LanesHold
<1> QED BY <1>5, <1>7 DEF Inv

\* From the place in the queue to the answer.
LEMMA CallStep ==
  ASSUME Inv, NEW l \in Lanes, Reserve(l) \/ Send(l) \/ Answer(l)
  PROVE Inv'
<1> DEFINE r == Call(l)
<1>1. UNCHANGED <<saved, run, live>> /\ lane[l].at \in {"queued", "reserved", "sent"}
  BY DEF Reserve, Send, Answer
<1>2. LanesInv /\ AsksOK(asks, saved)
  BY DEF Inv, AsksInv
<1>3. r \notin saved
  BY <1>1, <1>2, CallsOwn DEF LanesInv, LanesOK, LaneOK, Waiting
<1>4. \/ Move(l, "reserved") /\ asks' = WithNewest(r, "prepared", "reserved")
      \/ Refuse(l, FALSE) /\ asks' = WithNewest(r, "never", "none")
      \/ Move(l, "sent") /\ asks' = WithNewest(r, "sent", "reserved")
      \/ Move(l, "keep") /\ asks' = WithNewest(r, "sent", "committed")
      \/ Move(l, "keep") /\ KindOf(r) # "search" /\ asks' = WithNewest(r, "completed", "committed")
  BY DEF Reserve, Send, Answer
<1>5. AsksInv'
  <2> HIDE DEF r
  <2>1. AsksOK(WithNewest(r, "prepared", "reserved"), saved)
    BY <1>2, Renewed DEF AskStates
  <2>2. AsksOK(WithNewest(r, "never", "none"), saved)
    BY <1>2, Renewed DEF AskStates
  <2>3. AsksOK(WithNewest(r, "sent", "reserved"), saved) /\ AsksOK(WithNewest(r, "sent", "committed"), saved)
    BY <1>2, Renewed DEF AskStates
  <2>4. ASSUME KindOf(r) # "search" PROVE AsksOK(WithNewest(r, "completed", "committed"), saved)
    BY <1>2, <2>4, Renewed DEF AskStates
  <2> QED BY <1>1, <1>4, <2>1, <2>2, <2>3, <2>4 DEF AsksInv
<1>6. LanesOK(lane', live.phase, saved)
  <2>1. CASE Refuse(l, FALSE)
    BY <1>1, <1>2, <2>1, LaneRefused
  <2>2. ASSUME NEW at \in {"reserved", "sent", "keep"}, Move(l, at) PROVE LanesOK(lane', live.phase, saved)
    BY <1>1, <1>2, <1>3, <2>2, LaneMoves DEF Ats
  <2> QED BY <1>4, <2>1, <2>2
<1>7. LanesInv'
  BY <1>1, <1>2, <1>6, LanesHold
<1> QED BY <1>5, <1>7 DEF Inv

\* What an answer brought is saved: with the attempt of a search, after that of a model call.
LEMMA KeepStep ==
  ASSUME Inv, NEW l \in Lanes, NEW found, Keep(l, found)
  PROVE Inv'
<1> DEFINE r == Call(l)
           t == saved \cup {r}
<1>1. UNCHANGED <<run, live>> /\ lane[l].at = "keep" /\ saved' = t
  BY DEF Keep
<1>2. LanesInv /\ AsksOK(asks, saved)
  BY DEF Inv, AsksInv
<1>3. \/ UNCHANGED asks
      \/ \E cost \in {"none", "reserved", "committed", "uncertain"} : asks' = WithNewest(r, "completed", cost)
  <2>1. CASE KeepStage(r)
    BY <2>1 DEF KeepStage
  <2>2. CASE KeepResults(r)
    <3>1. asks' = WithNewest(r, "completed", Newest(r).cost)
      BY <2>2 DEF KeepResults
    <3>2. CASE r \in Requests /\ Len(asks[r]) # 0
      <4>1. /\ asks[r] \in Seq(Attempt) /\ Len(asks[r]) \in Nat /\ DOMAIN asks[r] = 1..Len(asks[r])
            /\ \A i \in DOMAIN asks[r] : asks[r][i] \in Attempt
        BY <1>2, <3>2, RowsOf DEF AsksOK
      <4>2. Newest(r) \in Attempt
        BY <3>2, <4>1 DEF Newest
      <4> QED BY <3>1, <4>2 DEF Attempt
    <3>3. CASE r \notin Requests
      <4>1. WithNewest(r, "completed", Newest(r).cost) = asks
        BY <1>2, <3>3 DEF WithNewest, AsksOK
      <4> QED BY <3>1, <4>1
    <3>4. CASE r \in Requests /\ Len(asks[r]) = 0
      <4>1. asks[r] \in Seq(Attempt) /\ DOMAIN asks[r] = 1..0
        BY <1>2, <3>4, RowsOf DEF AsksOK
      <4>2. [asks[r] EXCEPT ![Len(asks[r])] = [@ EXCEPT !.st = "completed", !.cost = Newest(r).cost]] = asks[r]
        BY <3>4, <4>1
      <4>3. WithNewest(r, "completed", Newest(r).cost) = asks
        BY <1>2, <3>4, <4>2 DEF WithNewest, AsksOK
      <4> QED BY <3>1, <4>3
    <3> QED BY <3>2, <3>3, <3>4
  <2> QED BY <2>1, <2>2 DEF Keep
<1>4. AsksInv'
  <2>1. CASE UNCHANGED asks
    <3>1. AsksOK(asks, t)
      BY <1>2 DEF AsksOK, Plain
    <3> QED BY <1>1, <2>1, <3>1 DEF AsksInv
  <2>2. CASE \E cost \in {"none", "reserved", "committed", "uncertain"} : asks' = WithNewest(r, "completed", cost)
    <3>1. PICK cost \in {"none", "reserved", "committed", "uncertain"} : asks' = WithNewest(r, "completed", cost)
      BY <2>2
    <3>2. r \in t /\ saved \subseteq t
      OBVIOUS
    <3> HIDE DEF r, t
    <3>3. AsksOK(WithNewest(r, "completed", cost), t)
      BY <1>2, <3>2, Renewed DEF AskStates
    <3> QED BY <1>1, <3>1, <3>3 DEF AsksInv
  <2> QED BY <1>3, <2>1, <2>2
<1>5. LanesOK(lane', live.phase, t)
  <2>1. CASE live.phase = "areas"
    <3>1. Pass(l)
      BY <2>1 DEF Keep
    <3> QED BY <1>1, <1>2, <2>1, <3>1, LanePasses
  <2>2. CASE live.phase # "areas"
    <3>1. End(l, "done")
      BY <2>2 DEF Keep
    <3> QED BY <1>2, <3>1, LaneEnds DEF Ends
  <2> QED BY <2>1, <2>2
<1>6. LanesInv'
  BY <1>1, <1>2, <1>5, LanesHold
<1> QED BY <1>4, <1>6 DEF Inv

\* A call that ends without a result, or was told to stop.
LEMMA FaultStep ==
  ASSUME Inv, NEW l \in Lanes, NEW how \in ModelFailures \cup {"failed"}, Fault(l, how)
  PROVE Inv'
<1> DEFINE r == Call(l)
           x == [lane[l] EXCEPT !.at = "failed", !.fault = how]
<1>1. UNCHANGED <<saved, run, live>> /\ lane[l].at = "sent" /\ asks' = WithNewest(r, how, "committed")
  BY DEF Fault
<1>2. LanesInv /\ AsksOK(asks, saved)
  BY DEF Inv, AsksInv
<1>3. AsksInv'
  <2>1. how \in AskStates /\ (KindOf(r) = "search" => how \notin {"lost", "dropped", "completed"})
    BY DEF Fault, AskStates, ModelFailures
  <2> HIDE DEF r
  <2>2. AsksOK(WithNewest(r, how, "committed"), saved)
    BY <1>2, <2>1, Renewed
  <2> QED BY <1>1, <2>2 DEF AsksInv
<1>4. LanesOK(lane', live.phase, saved)
  <2>1. LanesOK(lane, live.phase, saved) /\ LaneOK(l, lane[l], live.phase, saved) /\ lane[l] \in LaneShape
        /\ lane \in [Lanes -> LaneShape]
    BY <1>2 DEF LanesInv, LanesOK
  <2>2. lane' = [lane EXCEPT ![l] = x]
    BY <2>1 DEF Fault
  <2>3. x \in LaneShape /\ x.at = "failed" /\ x.n = lane[l].n
    BY <2>1 DEF LaneShape, Ats
  <2> HIDE DEF x
  <2>4. LaneOK(l, x, live.phase, saved)
    BY <1>1, <2>1, <2>3 DEF LaneOK, Waiting
  <2> QED BY <2>1, <2>2, <2>4, OneLane
<1>5. LanesInv'
  BY <1>1, <1>2, <1>4, LanesHold
<1> QED BY <1>3, <1>5 DEF Inv

LEMMA UnwindStep ==
  ASSUME Inv, NEW l \in Lanes, NEW how \in {"cancelled", "lost"}, Unwind(l, how)
  PROVE Inv'
<1> DEFINE r == Call(l)
<1>1. UNCHANGED <<saved, run, live>> /\ End(l, "app")
  BY DEF Unwind
<1>2. LanesInv /\ AsksOK(asks, saved)
  BY DEF Inv, AsksInv
<1>3. AsksInv'
  <2>1. CASE KindOf(r) = "search"
    BY <1>1, <2>1, AsksStay DEF Unwind
  <2>2. CASE KindOf(r) # "search"
    <3>1. asks' = WithNewest(r, how, "committed") /\ how \in AskStates
      BY <2>2 DEF Unwind, AskStates
    <3> HIDE DEF r
    <3>2. AsksOK(WithNewest(r, how, "committed"), saved)
      BY <1>2, <2>2, <3>1, Renewed
    <3> QED BY <1>1, <3>1, <3>2 DEF AsksInv
  <2> QED BY <2>1, <2>2
<1>4. LanesOK(lane', live.phase, saved)
  BY <1>1, <1>2, LaneEnds DEF Ends
<1>5. LanesInv'
  BY <1>1, <1>2, <1>4, LanesHold
<1> QED BY <1>3, <1>5 DEF Inv

\* What becomes of a call that failed; it is asked again at the same place, or left behind.
LEMMA HandleStep ==
  ASSUME Inv, NEW l \in Lanes, Handle(l)
  PROVE Inv'
<1> DEFINE r == Call(l)
<1>1. UNCHANGED <<run, live>> /\ lane[l].at = "failed"
  BY DEF Handle
<1>2. LanesInv /\ AsksOK(asks, saved)
  BY DEF Inv, AsksInv
<1>0. /\ LanesOK(lane, live.phase, saved) /\ LaneOK(l, lane[l], live.phase, saved) /\ lane[l] \in LaneShape
      /\ lane \in [Lanes -> LaneShape]
  BY <1>2 DEF LanesInv, LanesOK
<1>3. CASE AskAgain(l)
  <2>1. saved' = saved
    BY <1>3 DEF AskAgain
  <2>2. AsksInv'
    <3>1. asks' = asks \/ asks' = Acknowledged(asks, {<<r, Len(asks[r])>>})
      BY <1>3 DEF AskAgain
    <3>2. AsksOK(Acknowledged(asks, {<<r, Len(asks[r])>>}), saved)
      BY <1>2, LetGo
    <3> QED BY <1>2, <2>1, <3>1, <3>2 DEF AsksInv
  <2>3. LanesOK(lane', live.phase, saved)
    <3> DEFINE more == lane[l].drops + 1
               x == [lane[l] EXCEPT !.at = "pause", !.drops = more]
               drops == IF r[2] = "read" THEN 0 ELSE lane[l].drops
               y == [lane[l] EXCEPT !.at = "ask", !.slow = TRUE, !.drops = drops]
    <3>1. lane' = [lane EXCEPT ![l] = x] \/ lane' = [lane EXCEPT ![l] = y]
      BY <1>0, <1>3 DEF AskAgain
    <3>6. more \in Nat
      BY <1>0 DEF LaneShape
    <3> HIDE DEF more
    <3>2. x \in LaneShape /\ x.at = "pause" /\ x.n = lane[l].n
      BY <1>0, <3>6 DEF LaneShape, Ats
    <3>3. drops \in Nat
      BY <1>0 DEF LaneShape
    <3> HIDE DEF drops
    <3>4. y \in LaneShape /\ y.at = "ask" /\ y.n = lane[l].n
      BY <1>0, <3>3 DEF LaneShape, Ats
    <3> HIDE DEF x, y
    <3>5. LaneOK(l, x, live.phase, saved) /\ LaneOK(l, y, live.phase, saved)
      BY <1>0, <1>1, <3>2, <3>4 DEF LaneOK, Waiting
    <3> QED BY <1>0, <3>1, <3>5, OneLane
  <2>4. LanesInv'
    BY <1>1, <1>2, <2>1, <2>3, LanesHold
  <2> QED BY <2>2, <2>4 DEF Inv
<1>4. CASE LeaveOut(l)
  <2> DEFINE t == saved \cup {r}
  <2>1. Pass(l) /\ saved' = t /\ UNCHANGED asks /\ r[2] = "read"
    BY <1>4 DEF LeaveOut
  <2>2. AsksInv'
    <3>1. AsksOK(asks, t)
      BY <1>2 DEF AsksOK, Plain
    <3> QED BY <2>1, <3>1 DEF AsksInv
  <2>3. live.phase = "areas"
    BY <1>1, <1>2, <2>1, InAreas
  <2>4. LanesOK(lane', live.phase, t)
    BY <1>1, <1>2, <2>1, <2>3, LanePasses
  <2>5. LanesInv'
    BY <1>1, <1>2, <2>1, <2>4, LanesHold
  <2> QED BY <2>2, <2>5 DEF Inv
<1>5. CASE GiveUp(l)
  <2>1. UNCHANGED <<asks, saved>>
    BY <1>5 DEF GiveUp
  <2>2. Move(l, "judged") \/ \E end \in {"model", "app"} : End(l, end)
    BY <1>5 DEF GiveUp
  <2>3. LanesOK(lane', live.phase, saved)
    <3>1. CASE Move(l, "judged")
      BY <1>1, <1>2, <3>1, LaneMoves DEF Ats, Waiting
    <3>2. ASSUME NEW end \in {"model", "app"}, End(l, end) PROVE LanesOK(lane', live.phase, saved)
      BY <1>2, <3>2, LaneEnds DEF Ends
    <3> QED BY <2>2, <3>1, <3>2
  <2>4. LanesInv'
    BY <1>1, <1>2, <2>1, <2>3, LanesHold
  <2>5. AsksInv'
    BY <2>1, AsksStay
  <2> QED BY <2>4, <2>5 DEF Inv
<1> QED BY <1>3, <1>4, <1>5 DEF Handle

LEMMA RestartStep ==
  ASSUME Inv, NEW l \in Lanes, Restart(l)
  PROVE Inv'
<1>1. UNCHANGED <<asks, saved, run, live>> /\ lane[l].at = "pause" /\ Move(l, "ask")
  BY DEF Restart, kept
<1>2. LanesInv /\ AsksInv'
  BY <1>1, AsksStay DEF Inv
<1>3. Call(l) \notin saved
  BY <1>1, <1>2, CallsOwn DEF LanesInv, LanesOK, LaneOK, Waiting
<1>4. LanesOK(lane', live.phase, saved)
  BY <1>1, <1>2, <1>3, LaneMoves DEF Ats
<1>5. LanesInv'
  BY <1>1, <1>2, <1>4, LanesHold
<1> QED BY <1>2, <1>5 DEF Inv

-----------------------------------------------------------------------------
(* The run and its coordinator. *)

LEMMA AllResting ==
  ASSUME NEW ls \in [Lanes -> LaneShape], NEW phase, NEW s, \A l \in Lanes : ls[l].at = "over"
  PROVE LanesOK(ls, phase, s)
BY DEF LanesOK, LaneOK, Waiting

LEMMA NobodyAsks ==
  /\ [l \in Lanes |-> NoLane] \in [Lanes -> LaneShape]
  /\ \A phase, s : LanesOK([l \in Lanes |-> NoLane], phase, s)
<1> DEFINE none == [l \in Lanes |-> NoLane]
<1>1. none \in [Lanes -> LaneShape] /\ \A l \in Lanes : none[l].at = "over"
  BY IdleLane
<1> HIDE DEF none
<1>2. \A phase, s : LanesOK(none, phase, s)
  BY <1>1, AllResting
<1> QED BY <1>1, <1>2 DEF none

\* What begin() leaves of the lanes.
LEMMA BegunLanes ==
  ASSUME NEW areas, NEW phase, phase # "areas", NEW s
  PROVE LanesOK(Begun(areas), phase, s)
<1>1. \A l \in Lanes : Begun(areas)[l] = LaneAt(0) \/ Begun(areas)[l] = NoLane
  BY DEF Begun
<1>2. LaneAt(0) \in LaneShape /\ LaneAt(0).at = "on" /\ LaneAt(0).n = 0
  BY FreshLane
<1>3. Begun(areas) \in [Lanes -> LaneShape]
  <2>1. Begun(areas) = [l \in Lanes |-> Begun(areas)[l]]
    BY DEF Begun
  <2> QED BY <1>1, <1>2, <2>1, IdleLane
<1> QED BY <1>1, <1>2, <1>3, IdleLane DEF LanesOK, LaneOK, Waiting

LEMMA LiveTypes ==
  /\ NotLive \in LiveShape /\ NotLive.phase = "off"
  /\ \A done : Live(done) \in LiveShape /\ Live(done).phase # "areas"
BY DEF NotLive, Live, LiveShape

\* An area ends, or what it lost is let go.
LEMMA AreaStep ==
  ASSUME Inv, NEW a \in Areas, CloseJudged(a) \/ CloseArea(a)
  PROVE Inv'
<1>1. UNCHANGED <<saved, run, live>> /\ a \in Lanes
  BY DEF CloseJudged, CloseArea, Lanes
<1>2. \/ AcknowledgeDroppedCalls(a)
      \/ End(a, "done") /\ UNCHANGED asks
  BY DEF CloseJudged, CloseArea
<1>3. LanesInv /\ AsksOK(asks, saved)
  BY DEF Inv, AsksInv
<1>4. CASE AcknowledgeDroppedCalls(a)
  <2>1. asks' = Acknowledged(asks, LostBy(a)) /\ lane' = lane
    BY <1>4 DEF AcknowledgeDroppedCalls
  <2>2. AsksOK(Acknowledged(asks, LostBy(a)), saved)
    BY <1>3, LetGo
  <2>3. AsksInv'
    BY <1>1, <2>1, <2>2 DEF AsksInv
  <2>4. LanesInv'
    BY <1>1, <2>1, LanesRest
  <2> QED BY <2>3, <2>4 DEF Inv
<1>5. CASE End(a, "done") /\ UNCHANGED asks
  <2>1. LanesOK(lane', live.phase, saved)
    BY <1>1, <1>3, <1>5, LaneEnds DEF Ends
  <2>2. LanesInv'
    BY <1>1, <1>3, <2>1, LanesHold
  <2>3. AsksInv'
    BY <1>1, <1>5, AsksStay
  <2> QED BY <2>2, <2>3 DEF Inv
<1> QED BY <1>2, <1>4, <1>5

LEMMA SaveScanStep == ASSUME Inv, SaveScan PROVE Inv'
<1> DEFINE a == Earlier({b \in Areas : area[b].scan = "none"})
<1>1. UNCHANGED <<saved, run, lane>> /\ AllOver
  BY DEF SaveScan, AcknowledgeDroppedCalls
<1>2. \/ live' = live
      \/ live' = [live EXCEPT !.phase = "end", !.failed = TRUE]
  BY DEF SaveScan
<1>3. asks' = asks \/ asks' = Acknowledged(asks, LostBy(a))
  BY DEF SaveScan, AcknowledgeDroppedCalls
<1>4. LanesInv /\ AsksOK(asks, saved)
  BY DEF Inv, AsksInv
<1> HIDE DEF a
<1>5. AsksInv'
  BY <1>1, <1>3, <1>4, LetGo DEF AsksInv
<1>6. lane \in [Lanes -> LaneShape] /\ \A l \in Lanes : lane[l].at = "over"
  BY <1>1, <1>4 DEF AllOver, LanesInv, LanesOK
<1>7. LanesOK(lane, live'.phase, saved) /\ live' \in LiveShape
  BY <1>2, <1>4, <1>6, AllResting DEF LanesInv, LiveShape
<1> QED BY <1>1, <1>4, <1>5, <1>7 DEF Inv, LanesInv

\* The scans and the choice lead on to the ranking, the areas and the end.
LEMMA PhaseStep ==
  ASSUME Inv, StartRanking \/ (\E chosen \in SUBSET Areas : Choose(chosen)) \/ StartAreas
  PROVE Inv'
<1>1. UNCHANGED <<asks, saved>> /\ AllOver
  BY DEF StartRanking, Choose, StartAreas
<1>2. LanesInv /\ AsksInv'
  BY <1>1, AsksStay DEF Inv
<1>3. lane \in [Lanes -> LaneShape] /\ (\A l \in Lanes : lane[l].at = "over") /\ live \in LiveShape /\ run \in RunShape
  BY <1>1, <1>2 DEF AllOver, LanesInv, LanesOK
<1>4. ASSUME NEW live1 \in LiveShape PROVE LanesOK(lane, live1.phase, saved)
  BY <1>3, AllResting
<1>5. CASE StartRanking
  <2>1. CASE Scanned = {}
    <3>1. run' = [run EXCEPT !.made = TRUE] /\ UNCHANGED <<live, lane>>
      BY <1>5, <2>1 DEF StartRanking
    <3>2. run' \in RunShape
      BY <1>3, <3>1 DEF RunShape
    <3> QED BY <1>1, <1>2, <1>3, <3>1, <3>2 DEF Inv, LanesInv
  <2>2. CASE Scanned # {}
    <3>1. /\ live' = [live EXCEPT !.phase = "rank"]
          /\ lane' = [lane EXCEPT ![Root] = LaneAt(0)] /\ UNCHANGED run
      BY <1>5, <2>2 DEF StartRanking
    <3>2. live' \in LiveShape /\ live'.phase = "rank"
      BY <1>3, <3>1 DEF LiveShape
    <3>3. LaneOK(Root, LaneAt(0), "rank", saved)
      BY FreshLane DEF LaneOK, Waiting
    <3>4. LanesOK(lane, "rank", saved) /\ Root \in Lanes
      BY <1>3, AllResting DEF Lanes
    <3>5. LanesOK(lane', "rank", saved)
      BY <3>1, <3>3, <3>4, OneLane
    <3> QED BY <1>1, <1>2, <1>3, <3>1, <3>2, <3>5 DEF Inv, LanesInv
  <2> QED BY <2>1, <2>2
<1>6. CASE \E chosen \in SUBSET Areas : Choose(chosen)
  <2>1. PICK chosen \in SUBSET Areas : Choose(chosen)
    BY <1>6
  <2>2. /\ UNCHANGED lane
        /\ \/ run' = [run EXCEPT !.made = TRUE, !.chosen = chosen] /\ UNCHANGED live
           \/ live' = [live EXCEPT !.phase = "end", !.failed = TRUE] /\ UNCHANGED run
    BY <2>1 DEF Choose
  <2>3. run' \in RunShape /\ live' \in LiveShape
    BY <1>3, <2>2 DEF RunShape, LiveShape
  <2>4. LanesOK(lane, live'.phase, saved)
    BY <1>3, AllResting
  <2> QED BY <1>1, <1>2, <2>2, <2>3, <2>4 DEF Inv, LanesInv
<1>7. CASE StartAreas
  <2> DEFINE open == {a \in run.chosen : area[a].outcome = "none"}
             started == IF TargetMet THEN {} ELSE open
             rest(l) == [NoLane EXCEPT !.end = IF l \in open THEN "target" ELSE "done"]
  <2>1. /\ live' = [live EXCEPT !.phase = "areas"] /\ UNCHANGED run
        /\ lane' = [l \in Lanes |-> IF l \in started THEN LaneAt(1) ELSE rest(l)]
    BY <1>7 DEF StartAreas
  <2>2. live' \in LiveShape /\ live'.phase = "areas"
    BY <1>3, <2>1 DEF LiveShape
  <2>3. \A l \in Lanes : rest(l) \in LaneShape /\ rest(l).at = "over"
    BY IdleLane DEF LaneShape, Ends
  <2>4. LaneAt(1) \in LaneShape /\ LaneAt(1).at = "on" /\ LaneAt(1).n = 1
    BY FreshLane
  <2>5. \A l \in started : l # Root
    BY <1>3, ResearchAssumption DEF RunShape
  <2> HIDE DEF started, rest
  <2>6. lane' \in [Lanes -> LaneShape]
    BY <2>1, <2>3, <2>4
  <2>7. ASSUME NEW l \in Lanes PROVE LaneOK(l, lane'[l], "areas", saved)
    <3>1. CASE l \in started
      <4>1. lane'[l] = LaneAt(1)
        BY <2>1, <3>1
      <4> QED BY <2>4, <2>5, <3>1, <4>1 DEF LaneOK, Waiting
    <3>2. CASE l \notin started
      <4>1. lane'[l] = rest(l)
        BY <2>1, <3>2
      <4> QED BY <2>3, <4>1 DEF LaneOK, Waiting
    <3> QED BY <3>1, <3>2
  <2>8. LanesOK(lane', "areas", saved)
    BY <2>6, <2>7 DEF LanesOK
  <2> QED BY <1>1, <1>2, <1>3, <2>1, <2>2, <2>8 DEF Inv, LanesInv
<1> QED BY <1>5, <1>6, <1>7

LEMMA SettleAreaStep == ASSUME Inv, SettleArea PROVE Inv'
<1> DEFINE a == Earlier({b \in run.chosen : Spares(b) /\ area[b].outcome = "none"})
<1>1. UNCHANGED <<saved, run, live, lane>>
  BY DEF SettleArea, AcknowledgeDroppedCalls
<1>2. asks' = asks \/ asks' = Acknowledged(asks, LostBy(a))
  BY DEF SettleArea, AcknowledgeDroppedCalls
<1> HIDE DEF a
<1>3. AsksOK(asks, saved)
  BY DEF Inv, AsksInv
<1>4. AsksInv'
  BY <1>1, <1>2, <1>3, LetGo DEF AsksInv
<1> QED BY <1>1, <1>4, LanesRest DEF Inv

LEMMA CloseStep == ASSUME Inv, Close PROVE Inv'
<1>1. UNCHANGED <<asks, saved, lane>> /\ AllOver
  BY DEF Close
<1>2. LanesInv /\ AsksInv'
  BY <1>1, AsksStay DEF Inv
<1>3. lane \in [Lanes -> LaneShape] /\ (\A l \in Lanes : lane[l].at = "over") /\ live \in LiveShape /\ run \in RunShape
  BY <1>1, <1>2 DEF AllOver, LanesInv, LanesOK
<1>4. /\ \E failed \in BOOLEAN : live' = [live EXCEPT !.phase = "end", !.failed = failed]
      /\ \/ run' = run
         \/ run' = [run EXCEPT !.done = TRUE, !.left = {a \in run.chosen : area[a].outcome = "none"}]
  BY DEF Close
<1>5. live' \in LiveShape
  BY <1>3, <1>4 DEF LiveShape
<1>6. run' \in RunShape
  <2> DEFINE left == {a \in run.chosen : area[a].outcome = "none"}
  <2>1. left \in SUBSET Areas
    BY <1>3 DEF RunShape
  <2>2. run' = run \/ run' = [run EXCEPT !.done = TRUE, !.left = left]
    BY <1>4
  <2> HIDE DEF left
  <2> QED BY <1>3, <2>1, <2>2 DEF RunShape
<1>7. LanesOK(lane, live'.phase, saved)
  BY <1>3, AllResting
<1> QED BY <1>1, <1>2, <1>5, <1>6, <1>7 DEF Inv, LanesInv

LEMMA FinishStep == ASSUME Inv, Finish PROVE Inv'
<1>1. /\ live' = NotLive /\ lane' = [l \in Lanes |-> NoLane] /\ UNCHANGED saved
      /\ asks' = asks \/ asks' = SettleUncertain(asks)
  BY DEF Finish
<1>2. AsksOK(asks, saved) /\ LanesInv
  BY DEF Inv, AsksInv
<1>3. AsksInv'
  BY <1>1, <1>2, ChargedOnly DEF AsksInv
<1>4. run' \in RunShape
  <2>1. event' \in {"cancelled", "failed", "completed"}
    BY DEF Finish
  <2>2. run' = run \/ run' = [run EXCEPT !.state = event']
    BY DEF Finish
  <2>3. run \in RunShape
    BY <1>2 DEF LanesInv
  <2> QED BY <2>1, <2>2, <2>3 DEF RunShape
<1>5. LanesOK(lane', "off", saved)
  BY <1>1, NobodyAsks
<1> QED BY <1>1, <1>3, <1>4, <1>5, LiveTypes DEF Inv, LanesInv

LEMMA HearStep == ASSUME Inv, Hear PROVE Inv'
<1>1. UNCHANGED <<asks, saved, run, lane, live>>
  BY DEF Hear, kept
<1> QED BY <1>1, AsksStay, LanesRest DEF Inv

\* cancelRun: what has not left is withdrawn, and its lane ends.
LEMMA StopStep == ASSUME Inv, Stop PROVE Inv'
<1>1. AsksOK(asks, saved) /\ LanesInv /\ run \in RunShape /\ live \in LiveShape /\ LanesOK(lane, live.phase, saved)
  BY DEF Inv, AsksInv, LanesInv
<1>2. saved' = saved /\ run' = [run EXCEPT !.state = "cancelled"]
  BY DEF Stop
<1>3. run' \in RunShape
  BY <1>1, <1>2 DEF RunShape
<1>4. CASE live.phase = "off"
  <2>1. asks' = SettleUncertain(asks) /\ UNCHANGED <<lane, live>>
    BY <1>4 DEF Stop
  <2>2. AsksInv'
    BY <1>1, <1>2, <2>1, ChargedOnly DEF AsksInv
  <2> QED BY <1>1, <1>2, <1>3, <2>1, <2>2 DEF Inv, LanesInv
<1>5. CASE live.phase # "off"
  <2> DEFINE On(l, at) == lane[l].at = at
             Withdrawn(r) == \E l \in Lanes : On(l, "queued") /\ Call(l) = r
             GivenUp(r) == KindOf(r) = "search" /\ \E l \in Lanes : On(l, "sent") /\ Call(l) = r
             stopped == [r \in Requests |-> CASE Withdrawn(r) -> WithNewest(r, "never", "none")[r]
                                              [] GivenUp(r) -> WithNewest(r, "cancelled", "reserved")[r]
                                              [] OTHER -> asks[r]]
             ended(l) == [lane[l] EXCEPT !.at = "over", !.end = "app"]
  <2>1. /\ asks' = stopped /\ live' = [live EXCEPT !.aborted = TRUE]
        /\ lane' = [l \in Lanes |-> IF On(l, "queued") \/ On(l, "pause") THEN ended(l) ELSE lane[l]]
    BY <1>5 DEF Stop
  <2>2. live' \in LiveShape /\ live'.phase = live.phase
    BY <1>1, <2>1 DEF LiveShape
  <2>3. ASSUME NEW r \in Requests
        PROVE stopped[r] \in Seq(Attempt) /\ Told(stopped[r]) /\ Plain(r, stopped[r], saved)
    <3>1. AsksOK(WithNewest(r, "never", "none"), saved) /\ AsksOK(WithNewest(r, "cancelled", "reserved"), saved)
      BY <1>1, Renewed DEF AskStates
    <3>2. \/ stopped[r] = WithNewest(r, "never", "none")[r]
          \/ stopped[r] = WithNewest(r, "cancelled", "reserved")[r]
          \/ stopped[r] = asks[r]
      OBVIOUS
    <3> HIDE DEF stopped
    <3>3. CASE stopped[r] = WithNewest(r, "never", "none")[r]
      BY <3>1, <3>3 DEF AsksOK
    <3>4. CASE stopped[r] = WithNewest(r, "cancelled", "reserved")[r]
      BY <3>1, <3>4 DEF AsksOK
    <3>5. CASE stopped[r] = asks[r]
      BY <1>1, <3>5 DEF AsksOK
    <3> QED BY <3>2, <3>3, <3>4, <3>5
  <2>4. stopped = [r \in Requests |-> stopped[r]]
    OBVIOUS
  <2> HIDE DEF stopped
  <2>5. AsksOK(stopped, saved)
    BY <2>3, <2>4 DEF AsksOK
  <2>6. ASSUME NEW l \in Lanes PROVE lane'[l] \in LaneShape /\ LaneOK(l, lane'[l], live.phase, saved)
    <3>1. lane[l] \in LaneShape /\ LaneOK(l, lane[l], live.phase, saved)
      BY <1>1 DEF LanesOK
    <3>2. ended(l) \in LaneShape /\ ended(l).at = "over"
      BY <3>1 DEF LaneShape, Ats, Ends
    <3>3. lane'[l] = ended(l) \/ lane'[l] = lane[l]
      BY <2>1
    <3> HIDE DEF ended
    <3> QED BY <3>1, <3>2, <3>3 DEF LaneOK, Waiting
  <2>7. lane' \in [Lanes -> LaneShape]
    <3>1. lane' = [l \in Lanes |-> lane'[l]]
      BY <2>1
    <3> QED BY <2>6, <3>1
  <2>8. LanesOK(lane', live.phase, saved)
    BY <2>6, <2>7 DEF LanesOK
  <2> QED BY <1>2, <1>3, <2>1, <2>2, <2>5, <2>8 DEF Inv, AsksInv, LanesInv
<1> QED BY <1>4, <1>5

LEMMA CrashStep == ASSUME Inv, Crash PROVE Inv'
<1>1. /\ live' = NotLive /\ lane' = [l \in Lanes |-> NoLane] /\ UNCHANGED saved
      /\ asks' = LostWith(asks)
  BY DEF Crash, LostWith
<1>2. AsksOK(asks, saved) /\ LanesInv
  BY DEF Inv, AsksInv
<1>3. AsksInv'
  BY <1>1, <1>2, LostOnly DEF AsksInv
<1>4. run' \in RunShape
  <2>1. run' = run \/ run' = [run EXCEPT !.state = IF @ = "running" THEN "failed" ELSE @]
    BY DEF Crash
  <2>2. run \in RunShape
    BY <1>2 DEF LanesInv
  <2> QED BY <2>1, <2>2 DEF RunShape
<1>5. LanesOK(lane', "off", saved)
  BY <1>1, NobodyAsks
<1> QED BY <1>1, <1>3, <1>4, <1>5, LiveTypes DEF Inv, LanesInv

\* The process begins again where the database says that it left off.
LEMMA BeginInv ==
  ASSUME Inv, Begin, saved' = saved, run' \in RunShape, AsksInv'
  PROVE Inv'
<1>1. lane' = Begun(area) /\ live' = Live(run.done)
  BY DEF Begin
<1>2. live' \in LiveShape /\ live'.phase # "areas"
  BY <1>1, LiveTypes
<1>3. LanesOK(lane', live'.phase, saved)
  BY <1>1, <1>2, BegunLanes
<1> QED BY <1>2, <1>3 DEF Inv, LanesInv

LEMMA ResumeStep == ASSUME Inv, Resume PROVE Inv'
<1>1. UNCHANGED <<saved, run>>
  BY DEF Resume
<1>2. AsksOK(asks, saved) /\ run \in RunShape
  BY DEF Inv, AsksInv, LanesInv
<1>3. CASE asks' = SettleUncertain(asks) /\ Begin
  <2>1. AsksInv'
    BY <1>1, <1>2, <1>3, ChargedOnly DEF AsksInv
  <2> QED BY <1>1, <1>2, <1>3, <2>1, BeginInv
<1>4. CASE UNCHANGED <<asks, lane, live>>
  BY <1>1, <1>4, AsksStay, LanesRest DEF Inv
<1> QED BY <1>3, <1>4 DEF Resume

LEMMA RetryStep == ASSUME Inv, NEW c, Retry(c) PROVE Inv'
<1> DEFINE all == Acknowledged(asks, {c})
<1>1. saved' = saved
  BY DEF Retry
<1>2. AsksOK(asks, saved) /\ run \in RunShape
  BY DEF Inv, AsksInv, LanesInv
<1>3. AsksOK(all, saved)
  BY <1>2, LetGo
<1>4. CASE Unknown(all) # {}
  <2>1. asks' = all /\ UNCHANGED <<run, lane, live>>
    BY <1>4 DEF Retry
  <2>2. AsksInv'
    BY <1>1, <1>3, <2>1 DEF AsksInv
  <2> QED BY <1>1, <2>1, <2>2, LanesRest DEF Inv
<1>5. CASE Unknown(all) = {}
  <2>1. asks' = SettleUncertain(all) /\ Begin /\ run' = [run EXCEPT !.state = "running"]
    BY <1>5 DEF Retry
  <2>2. run' \in RunShape
    BY <1>2, <2>1 DEF RunShape
  <2> HIDE DEF all
  <2>3. AsksInv'
    BY <1>1, <1>3, <2>1, ChargedOnly DEF AsksInv
  <2> QED BY <1>1, <2>1, <2>2, <2>3, BeginInv
<1> QED BY <1>4, <1>5

LEMMA InitInv == ASSUME Init PROVE Inv
<1>1. AsksInv
  <2>1. asks = [r \in Requests |-> <<>>] /\ <<>> \in Seq(Attempt)
    BY DEF Init
  <2>2. Told(<<>>) /\ \A r : Plain(r, <<>>, saved)
    BY DEF Told, Plain
  <2> QED BY <2>1, <2>2 DEF AsksInv, AsksOK
<1>2. run \in RunShape
  BY DEF Init, RunShape
<1>3. lane = Begun(area) /\ live = Live(FALSE)
  BY DEF Init
<1>4. LanesOK(lane, live.phase, saved) /\ live \in LiveShape
  BY <1>3, BegunLanes, LiveTypes
<1> QED BY <1>1, <1>2, <1>4 DEF Inv, LanesInv

LEMMA NextInv == ASSUME Inv, [Next]_vars PROVE Inv'
<1>1. CASE Next
  <2>1. CASE \E l \in Lanes : Go(l) \/ Ask(l) \/ Reserve(l) \/ Send(l) \/ Answer(l)
    BY <2>1, GoStep, AskStep, CallStep
  <2>2. CASE \E l \in Lanes, found \in {"kept", "dropped"} : Keep(l, found)
    BY <2>2, KeepStep
  <2>3. CASE \E l \in Lanes, how \in ModelFailures \cup {"failed"} : Fault(l, how)
    BY <2>3, FaultStep
  <2>4. CASE \E l \in Lanes : Handle(l) \/ Restart(l)
    BY <2>4, HandleStep, RestartStep
  <2>5. CASE \E a \in Areas : CloseJudged(a) \/ CloseArea(a)
    BY <2>5, AreaStep
  <2>6. CASE \/ SaveScan \/ StartRanking \/ (\E chosen \in SUBSET Areas : Choose(chosen))
             \/ StartAreas \/ SettleArea \/ Close
    BY <2>6, SaveScanStep, PhaseStep, SettleAreaStep, CloseStep
  <2>7. CASE Finish \/ Hear \/ Stop \/ Crash \/ Resume
    BY <2>7, FinishStep, HearStep, StopStep, CrashStep, ResumeStep
  <2>8. CASE \E l \in Lanes, how \in {"cancelled", "lost"} : Unwind(l, how)
    BY <2>8, UnwindStep
  <2>9. CASE \E c \in Unknown(asks) : Retry(c)
    BY <2>9, RetryStep
  <2> QED BY <1>1, <2>1, <2>2, <2>3, <2>4, <2>5, <2>6, <2>7, <2>8, <2>9 DEF Next
<1>2. CASE UNCHANGED vars
  <2>1. UNCHANGED <<asks, saved, run, lane, live>>
    BY <1>2 DEF vars, kept
  <2> QED BY <2>1, AsksStay, LanesRest DEF Inv
<1> QED BY <1>1, <1>2

\* For every frame, every list of calls, every allowance and any number of stops, crashes, dropped
\* streams and retries: of the attempts at one question, each but the newest ended without an answer
\* that could still be used, or was let go by the owner or by the end of its stream
\* (unresolvedAttemptIds of db/repositories/generation-attempts.ts, acknowledgeDroppedCalls of
\* core/research-engine.ts).
THEOREM AskedOnceEver == Spec => []AskedOnce
<1>1. Init => Inv
  BY InitInv
<1>2. Inv /\ [Next]_vars => Inv'
  BY NextInv
<1>3. Inv => AskedOnce
  BY DEF Inv, AsksInv, AsksOK, Told, AskedOnce
<1> QED BY <1>1, <1>2, <1>3, PTL DEF Spec
=============================================================================

----------------------- MODULE ModelSchedulerProofs -------------------------
(***************************************************************************)
(* Theorems about the scheduler of model calls, for any projects, requests *)
(* and slots.                                                              *)
(***************************************************************************)
EXTENDS ModelScheduler, FiniteSetTheorems, WellFoundedInduction, TLAPS

-----------------------------------------------------------------------------
(* Sequences without repetition *)

LEMMA InRange ==
  ASSUME NEW S, NEW s \in Seq(S)
  PROVE  \A x : x \in Range(s) <=> \E i \in 1..Len(s) : s[i] = x
  BY DEF Range

LEMMA NoRepeats ==
  ASSUME NEW S, NEW s \in Seq(S)
  PROVE  Once(s) <=> \A i, j \in 1..Len(s) : s[i] = s[j] => i = j
  BY DEF Once

LEMMA LastOne ==
  ASSUME NEW S, NEW s \in Seq(S), s # <<>>
  PROVE  Tail(s) = <<>> <=> Len(s) = 1
  <1> DEFINE t == Tail(s)
  <1>1. t \in Seq(S) /\ Len(t) = Len(s) - 1 /\ Len(s) >= 1
    OBVIOUS
  <1> HIDE DEF t
  <1>2. t = <<>> <=> Len(t) = 0
    BY <1>1
  <1>3. QED
    BY <1>1, <1>2 DEF t

LEMMA AppendOnce ==
  ASSUME NEW S, NEW s \in Seq(S), NEW e \in S, Once(s), e \notin Range(s)
  PROVE  /\ Append(s, e) \in Seq(S) /\ Append(s, e) # <<>>
         /\ Once(Append(s, e)) /\ Range(Append(s, e)) = Range(s) \cup {e}
  <1> DEFINE t == Append(s, e)
  <1>1. /\ t \in Seq(S) /\ t # <<>> /\ Len(t) = Len(s) + 1
        /\ t[Len(s) + 1] = e /\ \A i \in 1..Len(s) : t[i] = s[i]
    OBVIOUS
  <1> HIDE DEF t
  <1>2. \A i \in 1..Len(s) : s[i] # e
    BY InRange
  <1>3. Once(t)
    BY <1>1, <1>2 DEF Once
  <1>4. \A x : x \in Range(t) <=> x \in Range(s) \cup {e}
    BY <1>1, InRange
  <1>5. QED
    BY <1>1, <1>3, <1>4 DEF t

LEMMA TailOnce ==
  ASSUME NEW S, NEW s \in Seq(S), Once(s), s # <<>>
  PROVE  /\ Head(s) \in S /\ Head(s) \in Range(s) /\ Tail(s) \in Seq(S)
         /\ Once(Tail(s)) /\ Range(Tail(s)) = Range(s) \ {Head(s)}
  <1> DEFINE t == Tail(s)
  <1>1. /\ Head(s) \in S /\ Head(s) = s[1] /\ t \in Seq(S) /\ Len(t) = Len(s) - 1
        /\ Len(s) >= 1 /\ \A i \in 1..(Len(s) - 1) : t[i] = s[i + 1]
    OBVIOUS
  <1> HIDE DEF t
  <1>2. Once(t)
    <2>1. ASSUME NEW i \in 1..(Len(s) - 1), NEW j \in 1..(Len(s) - 1), t[i] = t[j]
          PROVE  i = j
      <3>1. s[i + 1] = s[j + 1] /\ i + 1 \in 1..Len(s) /\ j + 1 \in 1..Len(s)
        BY <2>1, <1>1
      <3>2. QED
        BY <3>1, NoRepeats
    <2>2. QED
      BY <2>1, <1>1, NoRepeats
  <1>3. ASSUME NEW x, x \in Range(t)
        PROVE  x \in Range(s) \ {Head(s)}
    <2>1. PICK i \in 1..(Len(s) - 1) : s[i + 1] = x
      BY <1>1, <1>3, InRange
    <2>2. x # s[1]
      BY <2>1, <1>1 DEF Once
    <2>3. QED
      BY <2>1, <2>2, <1>1, InRange
  <1>4. ASSUME NEW x, x \in Range(s) \ {Head(s)}
        PROVE  x \in Range(t)
    <2>1. PICK i \in 1..Len(s) : s[i] = x
      BY <1>4, InRange
    <2>2. i - 1 \in 1..(Len(s) - 1) /\ t[i - 1] = x
      BY <2>1, <1>1, <1>4
    <2>3. QED
      BY <2>2, <1>1, InRange
  <1>5. Head(s) \in Range(s)
    BY <1>1, InRange
  <1>6. QED
    BY <1>1, <1>2, <1>3, <1>4, <1>5 DEF t

\* What is left of a sequence without one of its elements.
LEMMA WithoutIs ==
  ASSUME NEW S, NEW s \in Seq(S), NEW e, e \in Range(s)
  PROVE  LET k == Place(s, e)
             t == Without(s, e) IN
         /\ k \in 1..Len(s) /\ s[k] = e
         /\ t \in Seq(S) /\ Len(t) = Len(s) - 1
         /\ \A i \in 1..(Len(s) - 1) : t[i] = IF i < k THEN s[i] ELSE s[i + 1]
  <1> DEFINE k == Place(s, e)
             t == Without(s, e)
  <1>1. k \in 1..Len(s) /\ s[k] = e
    BY InRange DEF Place
  <1>2. /\ t \in Seq(S) /\ Len(t) = Len(s) - 1
        /\ \A i \in 1..(Len(s) - 1) : t[i] = IF i < k THEN s[i] ELSE s[i + 1]
    <2> DEFINE a == SubSeq(s, 1, k - 1)
               b == SubSeq(s, k + 1, Len(s))
    <2>1. a \in Seq(S) /\ Len(a) = k - 1 /\ \A i \in 1..(k - 1) : a[i] = s[i]
      BY <1>1
    <2>2. b \in Seq(S) /\ Len(b) = Len(s) - k /\ \A i \in 1..(Len(s) - k) : b[i] = s[k + i]
      BY <1>1
    <2>3. t = a \o b
      BY DEF Without, RemoveAt
    <2> HIDE DEF a, b, t, k
    <2>4. t \in Seq(S) /\ Len(t) = Len(s) - 1
      <3>1. t \in Seq(S) /\ Len(t) = Len(a) + Len(b)
        BY <2>1, <2>2, <2>3
      <3>2. QED
        BY <3>1, <2>1, <2>2, <1>1
    <2>5. ASSUME NEW i \in 1..(Len(s) - 1)
          PROVE  t[i] = IF i < k THEN s[i] ELSE s[i + 1]
      <3>1. CASE i < k
        BY <2>1, <2>2, <2>3, <3>1, <1>1
      <3>2. CASE ~(i < k)
        <4>1. t[i] = b[i - (k - 1)] /\ i - (k - 1) \in 1..(Len(s) - k)
          BY <2>1, <2>2, <2>3, <3>2, <1>1
        <4>2. b[i - (k - 1)] = s[k + (i - (k - 1))] /\ k + (i - (k - 1)) = i + 1
          BY <4>1, <2>2, <1>1
        <4>3. QED
          BY <4>1, <4>2, <3>2
      <3>3. QED
        BY <3>1, <3>2
    <2>6. QED
      BY <2>4, <2>5
  <1>3. QED
    BY <1>1, <1>2

LEMMA WithoutOnce ==
  ASSUME NEW S, NEW s \in Seq(S), Once(s), NEW e, e \in Range(s)
  PROVE  /\ Without(s, e) \in Seq(S) /\ Len(Without(s, e)) = Len(s) - 1
         /\ Once(Without(s, e)) /\ Range(Without(s, e)) = Range(s) \ {e}
  <1> DEFINE k == Place(s, e)
             t == Without(s, e)
  <1>1. k \in 1..Len(s) /\ s[k] = e
    BY WithoutIs
  <1>2. /\ t \in Seq(S) /\ Len(t) = Len(s) - 1
        /\ \A i \in 1..(Len(s) - 1) : t[i] = IF i < k THEN s[i] ELSE s[i + 1]
    BY WithoutIs
  <1> HIDE DEF k, t
  <1>3. Once(t)
    <2>1. ASSUME NEW i \in 1..(Len(s) - 1), NEW j \in 1..(Len(s) - 1), t[i] = t[j]
          PROVE  i = j
      <3> DEFINE m == IF i < k THEN i ELSE i + 1
                 n == IF j < k THEN j ELSE j + 1
      <3>1. m \in 1..Len(s) /\ n \in 1..Len(s)
        BY <1>1
      <3>2. t[i] = s[m] /\ t[j] = s[n]
        BY <1>2
      <3>3. m = n => i = j
        BY <1>1
      <3> HIDE DEF m, n
      <3>4. m = n
        BY <2>1, <3>1, <3>2, NoRepeats
      <3>5. QED
        BY <3>3, <3>4
    <2>2. QED
      BY <2>1, <1>2, NoRepeats
  <1>4. ASSUME NEW x, x \in Range(t)
        PROVE  x \in Range(s) \ {e}
    <2>1. PICK i \in 1..(Len(s) - 1) : t[i] = x
      BY <1>2, <1>4, InRange
    <2>2. PICK j \in 1..Len(s) : j # k /\ s[j] = x
      BY <2>1, <1>1, <1>2
    <2>3. x # e
      BY <2>2, <1>1 DEF Once
    <2>4. QED
      BY <2>2, <2>3, InRange
  <1>5. ASSUME NEW x, x \in Range(s) \ {e}
        PROVE  x \in Range(t)
    <2>1. PICK i \in 1..Len(s) : s[i] = x
      BY <1>5, InRange
    <2>2. i # k
      BY <2>1, <1>1, <1>5
    <2>3. PICK j \in 1..(Len(s) - 1) : t[j] = x
      <3>1. CASE i < k
        BY <2>1, <3>1, <1>1, <1>2
      <3>2. CASE i > k
        <4>1. i - 1 \in 1..(Len(s) - 1) /\ t[i - 1] = x
          BY <2>1, <3>2, <1>1, <1>2
        <4>2. QED
          BY <4>1
      <3>3. QED
        BY <2>1, <2>2, <3>1, <3>2, <1>1
    <2>4. QED
      BY <2>3, <1>2, InRange
  <1>6. QED
    BY <1>2, <1>3, <1>4, <1>5 DEF t

\* An element put in at a place moves those after it by one.
LEMMA InsertIs ==
  ASSUME NEW S, NEW s \in Seq(S), NEW e \in S, NEW k \in 1..(Len(s) + 1)
  PROVE  LET t == InsertAt(s, k, e) IN
         /\ t \in Seq(S) /\ Len(t) = Len(s) + 1
         /\ \A i \in 1..(Len(s) + 1) :
              t[i] = IF i < k THEN s[i] ELSE IF i = k THEN e ELSE s[i - 1]
  <1> DEFINE t == InsertAt(s, k, e)
  <1>1. /\ t \in Seq(S) /\ Len(t) = Len(s) + 1
        /\ \A i \in 1..(Len(s) + 1) :
             t[i] = IF i < k THEN s[i] ELSE IF i = k THEN e ELSE s[i - 1]
    <2> DEFINE a == SubSeq(s, 1, k - 1)
               b == SubSeq(s, k, Len(s))
    <2>1. a \in Seq(S) /\ Len(a) = k - 1 /\ \A i \in 1..(k - 1) : a[i] = s[i]
      OBVIOUS
    <2>2. b \in Seq(S) /\ Len(b) = Len(s) - k + 1
      OBVIOUS
    <2>3. \A i \in 1..(Len(s) - k + 1) : b[i] = s[k + i - 1]
      OBVIOUS
    <2>4. t = a \o <<e>> \o b
      BY DEF InsertAt
    <2> DEFINE c == a \o <<e>>
    <2> HIDE DEF a, b, t
    <2>8. /\ c \in Seq(S) /\ Len(c) = k /\ c[k] = e
          /\ \A i \in 1..(k - 1) : c[i] = a[i]
      BY <2>1
    <2> HIDE DEF c
    <2>9. t = c \o b
      BY <2>4 DEF c
    <2>5. t \in Seq(S) /\ Len(t) = Len(s) + 1
      <3>1. c \in Seq(S) /\ b \in Seq(S)
        BY <2>8, <2>2
      <3>2. t \in Seq(S) /\ Len(t) = Len(c) + Len(b)
        BY <3>1, <2>9
      <3>3. QED
        BY <3>2, <2>8, <2>2
    <2>6. ASSUME NEW i \in 1..(Len(s) + 1)
          PROVE  t[i] = IF i < k THEN s[i] ELSE IF i = k THEN e ELSE s[i - 1]
      <3>1. CASE i < k
        <4>1. i \in 1..(k - 1) /\ i \in 1..Len(c)
          BY <2>8, <3>1
        <4>2. t[i] = c[i]
          BY <4>1, <2>2, <2>8, <2>9
        <4>3. c[i] = s[i]
          BY <4>1, <2>1, <2>8
        <4>4. QED
          BY <4>2, <4>3, <3>1
      <3>2. CASE i = k
        BY <2>1, <2>2, <2>8, <2>9, <3>2
      <3>3. CASE i > k
        <4>1. t[i] = b[i - k] /\ i - k \in 1..(Len(s) - k + 1)
          BY <2>2, <2>8, <2>9, <3>3
        <4>2. b[i - k] = s[k + (i - k) - 1] /\ k + (i - k) - 1 = i - 1
          BY <4>1, <2>3
        <4>3. QED
          BY <4>1, <4>2, <3>3
      <3>4. QED
        BY <3>1, <3>2, <3>3
    <2>7. QED
      BY <2>5, <2>6
  <1>2. QED
    BY <1>1

LEMMA InsertOnce ==
  ASSUME NEW S, NEW s \in Seq(S), Once(s), NEW e \in S, e \notin Range(s),
         NEW k \in 1..(Len(s) + 1)
  PROVE  /\ InsertAt(s, k, e) \in Seq(S) /\ InsertAt(s, k, e) # <<>>
         /\ Once(InsertAt(s, k, e)) /\ Range(InsertAt(s, k, e)) = Range(s) \cup {e}
  <1> DEFINE t == InsertAt(s, k, e)
  <1>1. /\ t \in Seq(S) /\ Len(t) = Len(s) + 1
        /\ \A i \in 1..(Len(s) + 1) :
             t[i] = IF i < k THEN s[i] ELSE IF i = k THEN e ELSE s[i - 1]
    BY InsertIs
  <1> HIDE DEF t
  <1>2. \A i \in 1..Len(s) : s[i] # e
    BY InRange
  <1>3. Once(t)
    <2> DEFINE o(n) == IF n < k THEN n ELSE n - 1
    <2>1. ASSUME NEW i \in 1..(Len(s) + 1), i # k
          PROVE  o(i) \in 1..Len(s) /\ t[i] = s[o(i)]
      BY <2>1, <1>1
    <2>2. ASSUME NEW i \in 1..(Len(s) + 1), NEW j \in 1..(Len(s) + 1), t[i] = t[j]
          PROVE  i = j
      <3>0. /\ t[k] = e
            /\ \A n \in 1..(Len(s) + 1) : n # k => t[n] # e
        <4>1. t[k] = e
          BY <1>1
        <4>2. ASSUME NEW n \in 1..(Len(s) + 1), n # k
              PROVE  t[n] # e
          <5>1. o(n) \in 1..Len(s) /\ t[n] = s[o(n)]
            BY <4>2, <2>1
          <5> HIDE DEF o
          <5> QED BY <5>1, <1>2
        <4> QED BY <4>1, <4>2
      <3>1. CASE i = k \/ j = k
        <4> HIDE DEF o
        <4> QED BY <3>0, <3>1, <2>2
      <3>2. CASE i # k /\ j # k
        <4>1. o(i) = o(j)
          BY <3>2, <2>1, <2>2, NoRepeats
        <4>2. QED
          BY <4>1, <3>2
      <3>3. QED
        BY <3>1, <3>2
    <2>3. QED
      BY <2>2, <1>1, NoRepeats
  <1>4. ASSUME NEW x, x \in Range(t)
        PROVE  x \in Range(s) \cup {e}
    <2>1. PICK i \in 1..(Len(s) + 1) : t[i] = x
      BY <1>1, <1>4, InRange
    <2>2. x = e \/ \E j \in 1..Len(s) : s[j] = x
      <3>1. CASE i < k
        BY <2>1, <3>1, <1>1
      <3>2. CASE i = k
        BY <2>1, <3>2, <1>1
      <3>3. CASE i > k
        <4>1. i - 1 \in 1..Len(s) /\ s[i - 1] = x
          BY <2>1, <3>3, <1>1
        <4>2. QED
          BY <4>1
      <3>4. QED
        BY <3>1, <3>2, <3>3
    <2>3. QED
      BY <2>2, InRange
  <1>5. ASSUME NEW x, x \in Range(s)
        PROVE  x \in Range(t)
    <2>1. PICK i \in 1..Len(s) : s[i] = x
      BY <1>5, InRange
    <2>2. PICK j \in 1..(Len(s) + 1) : t[j] = x
      <3>1. CASE i < k
        BY <2>1, <3>1, <1>1
      <3>2. CASE i >= k
        <4>1. i + 1 \in 1..(Len(s) + 1) /\ t[i + 1] = x
          BY <2>1, <3>2, <1>1
        <4>2. QED
          BY <4>1
      <3>3. QED
        BY <3>1, <3>2
    <2>3. QED
      BY <2>2, <1>1, InRange
  <1>6. e \in Range(t)
    BY <1>1, InRange
  <1>7. t # <<>>
    BY <1>1
  <1>8. QED
    BY <1>1, <1>3, <1>4, <1>5, <1>6, <1>7 DEF t

-----------------------------------------------------------------------------
(* The queues *)

LEMMA QueuedCalls ==
  ASSUME QueuesOK
  PROVE  /\ Queued \subseteq Call
         /\ \A c \in Call : c \in Queued <=> c \in Range(pending[Owner(c)])
         /\ Queued # {} => ready # <<>>
  <1>1. \A p \in Project : \A c \in Range(pending[p]) : c \in Call /\ Owner(c) = p
    BY InRange DEF QueuesOK
  <1>2. \A c \in Call : Owner(c) \in Project
    BY SchedulerAssumption DEF Call, Owner
  <1>3. \A c : c \in Queued <=> \E p \in Project : c \in Range(pending[p])
    BY DEF Queued
  <1>4. ASSUME NEW c \in Queued
        PROVE  ready # <<>>
    <2>1. PICK p \in Project : c \in Range(pending[p])
      BY <1>3
    <2>2. pending[p] # <<>>
      BY <2>1, InRange DEF QueuesOK
    <2>3. p \in Range(ready)
      BY <2>2 DEF QueuesOK, Waiting
    <2>4. QED
      BY <2>3, InRange DEF QueuesOK
  <1>5. QED
    BY <1>1, <1>2, <1>3, <1>4

\* A project's turn is a place among those that wait.
LEMMA TurnIsPlace ==
  ASSUME QueuesOK, NEW p \in Project
  PROVE  TurnOf(p) \in 1..(Len(ready) + 1)
  <1> DEFINE busy == {i \in DOMAIN ready : ready[i] \in ActiveProjects}
  <1>1. CASE p \notin ActiveProjects /\ busy # {}
    <2>1. busy \subseteq 1..Len(ready) /\ \A i, j \in busy : i <= j \/ j <= i
      BY DEF QueuesOK
    <2>2. \E i \in busy : \A j \in busy : i <= j
      <3> HIDE DEF busy
      <3>1. busy \subseteq Nat /\ busy # {}
        BY <1>1, <2>1
      <3> DEFINE R == {ss \in Nat \X Nat : ss[1] < ss[2]}
      <3>5. IsWellFoundedOn(R, Nat)
        BY NatLessThanWellFounded DEF OpToRel
      <3>2. PICK i \in busy : \A j \in busy : <<j, i>> \notin R
        <4> HIDE DEF R
        <4>1. QED
          BY <3>1, <3>5, WFMin
      <3>3. \A j \in busy : ~(j < i)
        BY <3>1, <3>2
      <3>4. QED
        BY <3>1, <3>3
    <2>3. QED
      BY <1>1, <2>1, <2>2 DEF TurnOf, QueuesOK
  <1>2. CASE ~(p \notin ActiveProjects /\ busy # {})
    BY <1>2 DEF TurnOf, QueuesOK
  <1>3. QED
    BY <1>1, <1>2

\* A project that gets its first call takes its turn among those that wait.
LEMMA EnqueueOK ==
  ASSUME QueuesOK, NEW c \in Call, c \notin Queued, Enqueue(c)
  PROVE  QueuesOK' /\ Queued' = Queued \cup {c}
  <1> DEFINE p == Owner(c)
  <1>1. p \in Project
    BY SchedulerAssumption DEF Call, Owner
  <1>2. c \notin Range(pending[p])
    BY QueuedCalls
  <1>3. /\ pending'[p] = Append(pending[p], c)
        /\ \A q \in Project \ {p} : pending'[q] = pending[q]
        /\ pending' \in [Project -> Seq(Call)]
    BY <1>1 DEF Enqueue, QueuesOK
  <1>4. /\ pending'[p] # <<>> /\ Once(pending'[p])
        /\ Range(pending'[p]) = Range(pending[p]) \cup {c}
    BY <1>1, <1>2, <1>3, AppendOnce DEF QueuesOK
  <1>5. Waiting' = Waiting \cup {p}
    BY <1>1, <1>3, <1>4 DEF Waiting
  <1>6. ready' \in Seq(Project) /\ Once(ready)' /\ Range(ready)' = Waiting'
    <2>1. CASE pending[p] # <<>>
      BY <2>1, <1>1, <1>5 DEF Enqueue, QueuesOK, Waiting
    <2>2. CASE pending[p] = <<>>
      <3>1. TurnOf(p) \in 1..(Len(ready) + 1)
        BY <1>1, TurnIsPlace
      <3>2. p \notin Range(ready)
        BY <2>2 DEF QueuesOK, Waiting
      <3>3. ready' = InsertAt(ready, TurnOf(p), p)
        BY <2>2 DEF Enqueue
      <3>4. QED
        BY <3>1, <3>2, <3>3, <1>1, <1>5, InsertOnce DEF QueuesOK
    <2>3. QED
      BY <2>1, <2>2
  <1>7. \A q \in Project : Once(pending'[q]) /\ \A x \in Range(pending'[q]) : Owner(x) = q
    BY <1>3, <1>4 DEF QueuesOK
  <1>8. Queued' = Queued \cup {c}
    BY <1>1, <1>3, <1>4 DEF Queued
  <1>9. QED
    BY <1>3, <1>6, <1>7, <1>8 DEF QueuesOK

\* A call that leaves takes its project out of the turns when it was the last.
LEMMA RemoveQueuedOK ==
  ASSUME QueuesOK, NEW c \in Queued, RemoveQueued(c)
  PROVE  QueuesOK' /\ Queued' = Queued \ {c}
  <1> DEFINE p == Owner(c)
  <1>1. c \in Call /\ p \in Project /\ c \in Range(pending[p])
    BY QueuedCalls, SchedulerAssumption DEF Call, Owner
  <1>2. /\ pending'[p] = Without(pending[p], c)
        /\ \A q \in Project \ {p} : pending'[q] = pending[q]
        /\ pending' = [q \in Project |-> pending'[q]]
    BY <1>1 DEF RemoveQueued, QueuesOK
  <1>3. /\ pending'[p] \in Seq(Call) /\ Once(pending'[p])
        /\ Len(pending'[p]) = Len(pending[p]) - 1
        /\ Range(pending'[p]) = Range(pending[p]) \ {c}
    BY <1>1, <1>2, WithoutOnce DEF QueuesOK
  <1>4. pending' \in [Project -> Seq(Call)]
    BY <1>2, <1>3 DEF QueuesOK
  <1>5. pending[p] # <<>> /\ p \in Range(ready)
    BY <1>1, InRange DEF QueuesOK, Waiting
  <1>6. ready' \in Seq(Project) /\ Once(ready)' /\ Range(ready)' = Waiting'
    <2>1. CASE Len(pending[p]) = 1
      <3>1. Waiting' = Waiting \ {p}
        BY <2>1, <1>1, <1>2, <1>3 DEF Waiting
      <3>2. ready' = Without(ready, p)
        BY <2>1 DEF RemoveQueued
      <3>3. QED
        BY <3>1, <3>2, <1>5, WithoutOnce DEF QueuesOK
    <2>2. CASE Len(pending[p]) # 1
      <3>1. Waiting' = Waiting
        BY <2>2, <1>1, <1>2, <1>3, <1>5 DEF Waiting, QueuesOK
      <3>2. ready' = ready
        BY <2>2 DEF RemoveQueued
      <3>3. QED
        BY <3>1, <3>2 DEF QueuesOK
    <2>3. QED
      BY <2>1, <2>2
  <1>7. \A q \in Project : Once(pending'[q]) /\ \A x \in Range(pending'[q]) : Owner(x) = q
    BY <1>2, <1>3 DEF QueuesOK
  <1>8. Queued' = Queued \ {c}
    <2>1. \A q \in Project : c \in Range(pending[q]) => q = p
      BY DEF QueuesOK
    <2>2. QED
      BY <2>1, <1>1, <1>2, <1>3 DEF Queued
  <1>9. QED
    BY <1>4, <1>6, <1>7, <1>8 DEF QueuesOK

\* The project at the head of the turns makes the first of its calls.
LEMMA AdmitOK ==
  ASSUME QueuesOK, Admit
  PROVE  LET c == Head(pending[Head(ready)]) IN
         QueuesOK' /\ c \in Queued /\ Queued' = Queued \ {c}
  <1> DEFINE p == Head(ready)
             c == Head(pending[p])
  <1>1. p \in Project /\ p \in Range(ready) /\ pending[p] # <<>>
    BY TailOnce DEF Admit, CanAdmit, QueuesOK, Waiting
  <1>2. /\ pending'[p] = Tail(pending[p])
        /\ \A q \in Project \ {p} : pending'[q] = pending[q]
        /\ pending' = [q \in Project |-> pending'[q]]
    BY <1>1 DEF Admit, QueuesOK
  <1>3. /\ c \in Range(pending[p]) /\ pending'[p] \in Seq(Call) /\ Once(pending'[p])
        /\ Range(pending'[p]) = Range(pending[p]) \ {c}
    BY <1>1, <1>2, TailOnce DEF QueuesOK
  <1>4. pending' \in [Project -> Seq(Call)]
    BY <1>2, <1>3 DEF QueuesOK
  <1>5. /\ Tail(ready) \in Seq(Project) /\ Once(Tail(ready))
        /\ Range(Tail(ready)) = Waiting \ {p}
    BY TailOnce DEF Admit, CanAdmit, QueuesOK
  <1>6. pending'[p] = <<>> <=> Len(pending[p]) = 1
    <2>1. pending[p] \in Seq(Call)
      BY <1>1 DEF QueuesOK
    <2>2. QED
      BY <2>1, <1>1, <1>2, LastOne
  <1>7. ready' \in Seq(Project) /\ Once(ready)' /\ Range(ready)' = Waiting'
    <2>1. CASE Len(pending[p]) = 1
      <3>1. Waiting' = Waiting \ {p}
        BY <2>1, <1>1, <1>2, <1>6 DEF Waiting
      <3>2. ready' = Tail(ready)
        BY <2>1 DEF Admit, Rotated
      <3>3. QED
        BY <3>1, <3>2, <1>5
    <2>2. CASE Len(pending[p]) # 1
      <3>1. Waiting' = Waiting
        BY <2>2, <1>1, <1>2, <1>6 DEF Waiting
      <3>2. ready' = Append(Tail(ready), p)
        BY <2>2 DEF Admit, Rotated
      <3>3. p \in Waiting /\ p \notin Range(Tail(ready))
        BY <1>1, <1>5 DEF Waiting
      <3>4. /\ ready' \in Seq(Project) /\ Once(ready')
            /\ Range(ready') = Range(Tail(ready)) \cup {p}
        <4> DEFINE rest == Tail(ready)
        <4>1. rest \in Seq(Project) /\ Once(rest) /\ p \notin Range(rest)
          BY <3>3, <1>5
        <4> HIDE DEF rest, p
        <4>2. /\ Append(rest, p) \in Seq(Project) /\ Once(Append(rest, p))
              /\ Range(Append(rest, p)) = Range(rest) \cup {p}
          BY <4>1, <1>1, AppendOnce
        <4>3. QED
          BY <4>2, <3>2 DEF rest
      <3>5. QED
        BY <3>1, <3>3, <3>4, <1>5
    <2>3. QED
      BY <2>1, <2>2
  <1>8. \A q \in Project : Once(pending'[q]) /\ \A x \in Range(pending'[q]) : Owner(x) = q
    BY <1>2, <1>3 DEF QueuesOK
  <1>9. c \in Queued /\ Queued' = Queued \ {c}
    <2>1. \A q \in Project : c \in Range(pending[q]) => q = p
      BY <1>1, <1>3 DEF QueuesOK
    <2>2. QED
      BY <2>1, <1>1, <1>2, <1>3 DEF Queued
  <1>10. QED
    BY <1>4, <1>7, <1>8, <1>9 DEF QueuesOK

\* Closing empties every queue.
LEMMA CancelAllOK ==
  ASSUME CancelAll
  PROVE  QueuesOK' /\ Queued' = {}
  <1>1. pending' = [p \in Project |-> <<>>] /\ ready' = <<>>
    BY DEF CancelAll
  <1>2. Range(<<>>) = {} /\ Once(<<>>)
    BY DEF Range, Once
  <1>3. QED
    BY <1>1, <1>2 DEF QueuesOK, Queued, Waiting

-----------------------------------------------------------------------------
(* The inductive invariant *)

\* A call has one place: it is not queued while its last run still holds its slot.
CallsInv ==
  /\ IsFiniteSet(active)
  /\ Queued \cap active = {}
  /\ \A r \in Request : request[r].phase = "initial" => <<r, "schema_repair">> \notin active

\* A request that was cut is one whose call the provider is working on.
StopInv == \A r \in Request : request[r].cut => \E a \in Attempt : <<r, a>> \in running

\* What no result has reported is what the first attempt left for the repair to report.
ReceiptInv ==
  \A r \in Request : /\ request[r].unreported = request[r].attempts
                     /\ request[r].phase # "schema_repair" => request[r].attempts = 0

SchedulerInv == TypeOK /\ CallsInv /\ StopInv /\ ReceiptInv /\ NoMissedPump

LEMMA InitInv == Init => SchedulerInv
  <1> SUFFICES ASSUME Init PROVE SchedulerInv
    OBVIOUS
  <1>1. Range(<<>>) = {} /\ Once(<<>>)
    BY DEF Range, Once
  <1>2. QueuesOK /\ Queued = {}
    BY <1>1 DEF Init, QueuesOK, Queued, Waiting
  <1>3. TypeOK
    <2>1. request \in [Request -> RequestState]
      BY DEF Init, NoRequest, RequestState, Phase, Ended
    <2>2. PhasesOK
      BY <1>2 DEF Init, PhasesOK, NoRequest, Attempt
    <2>3. QED
      BY <1>2, <2>1, <2>2 DEF Init, TypeOK
  <1>4. CallsInv
    BY <1>2, FS_EmptySet DEF Init, CallsInv, NoRequest
  <1>5. StopInv /\ ReceiptInv /\ NoMissedPump
    BY DEF Init, StopInv, ReceiptInv, NoMissedPump, CanAdmit, NoRequest
  <1>6. QED
    BY <1>3, <1>4, <1>5 DEF SchedulerInv

LEMMA CallParts ==
  ASSUME NEW c \in Call
  PROVE  c[1] \in Request /\ c[2] \in Attempt /\ c = <<c[1], c[2]>>
  BY DEF Call

\* The queues are the same when no action touched them.
LEMMA SameQueues ==
  ASSUME QueuesOK, UNCHANGED queues
  PROVE  QueuesOK' /\ Queued' = Queued
  BY DEF queues, QueuesOK, Queued, Waiting

LEMMA AdmitInv == SchedulerInv /\ Admit => SchedulerInv'
  <1> SUFFICES ASSUME SchedulerInv, Admit PROVE SchedulerInv'
    OBVIOUS
  <1>1. QueuesOK
    BY DEF SchedulerInv, TypeOK
  <1>2. PICK c : /\ c = Head(pending[Head(ready)])
                 /\ QueuesOK' /\ c \in Queued /\ Queued' = Queued \ {c}
    BY <1>1, AdmitOK
  <1>3. c \in Call
    BY <1>1, <1>2, QueuedCalls
  <1>4. /\ active' = active \cup {c} /\ running' = running \cup {c}
        /\ UNCHANGED <<aborted, capacity, pumpQueued, request>> /\ pumpQueued
    BY <1>2 DEF Admit
  <1>5. PhasesOK'
    BY <1>2, <1>4 DEF SchedulerInv, TypeOK, PhasesOK
  <1>6. TypeOK'
    BY <1>2, <1>3, <1>4, <1>5 DEF SchedulerInv, TypeOK
  <1>7. CallsInv'
    <2>1. IsFiniteSet(active')
      BY <1>4, FS_AddElement DEF SchedulerInv, CallsInv
    <2>2. \A r \in Request : c = <<r, "schema_repair">> => request[r].phase = "schema_repair"
      BY <1>2 DEF SchedulerInv, TypeOK, PhasesOK, Attempt
    <2>3. QED
      BY <1>2, <1>4, <2>1, <2>2 DEF SchedulerInv, CallsInv
  <1>8. StopInv' /\ ReceiptInv' /\ NoMissedPump'
    BY <1>4 DEF SchedulerInv, StopInv, ReceiptInv, NoMissedPump
  <1>9. QED
    BY <1>6, <1>7, <1>8 DEF SchedulerInv

LEMMA PumpEndsInv == SchedulerInv /\ PumpEnds => SchedulerInv'
  <1> SUFFICES ASSUME SchedulerInv, PumpEnds PROVE SchedulerInv'
    OBVIOUS
  <1>1. QueuesOK' /\ Queued' = Queued
    BY SameQueues DEF SchedulerInv, TypeOK, PumpEnds
  <1>2. TypeOK' /\ CallsInv' /\ StopInv' /\ ReceiptInv'
    BY <1>1 DEF SchedulerInv, TypeOK, PhasesOK, CallsInv, StopInv, ReceiptInv, PumpEnds, slots
  <1>3. NoMissedPump'
    BY DEF PumpEnds, NoMissedPump, CanAdmit, queues, slots
  <1>4. QED
    BY <1>2, <1>3 DEF SchedulerInv

LEMMA SetMaxActiveInv ==
  ASSUME NEW n \in 1..MAX_ACTIVE, SchedulerInv, SetMaxActive(n)
  PROVE  SchedulerInv'
  <1>1. QueuesOK' /\ Queued' = Queued
    BY SameQueues DEF SchedulerInv, TypeOK, SetMaxActive
  <1>2. TypeOK' /\ CallsInv' /\ StopInv' /\ ReceiptInv'
    BY <1>1 DEF SchedulerInv, TypeOK, PhasesOK, CallsInv, StopInv, ReceiptInv, SetMaxActive,
       RequestPump
  <1>3. NoMissedPump'
    BY DEF SetMaxActive, RequestPump, NoMissedPump
  <1>4. QED
    BY <1>2, <1>3 DEF SchedulerInv

LEMMA SubmitInv ==
  ASSUME NEW r \in Request, SchedulerInv, Submit(r)
  PROVE  SchedulerInv'
  <1> DEFINE c == <<r, "initial">>
  <1>1. c \in Call
    BY DEF Call, Attempt
  <1>2. c \notin Queued
    BY DEF SchedulerInv, TypeOK, PhasesOK, Submit, Ended, Attempt
  <1>3. QueuesOK' /\ Queued' = Queued \cup {c} /\ pumpQueued'
    BY <1>1, <1>2, EnqueueOK DEF SchedulerInv, TypeOK, Submit, Enqueue
  <1>4. /\ request' = [request EXCEPT ![r] = [@ EXCEPT !.phase = "initial"]]
        /\ UNCHANGED <<active, running, capacity, aborted>>
    BY DEF Submit, slots
  <1>5. /\ request' \in [Request -> RequestState]
        /\ request'[r].phase = "initial" /\ request'[r].cut = request[r].cut
        /\ request'[r].attempts = request[r].attempts
        /\ request'[r].unreported = request[r].unreported
        /\ \A q \in Request \ {r} : request'[q] = request[q]
    BY <1>4 DEF SchedulerInv, TypeOK, RequestState, Phase, Attempt
  <1>6. PhasesOK'
    <2>1. \A a \in Attempt : <<r, a>> \notin Queued \cup running
      BY DEF SchedulerInv, TypeOK, PhasesOK, Submit, Ended, Attempt
    <2>2. \A q \in Request \ {r}, a \in Attempt : <<q, a>> # c
      OBVIOUS
    <2>3. QED
      BY <1>3, <1>4, <1>5, <2>1, <2>2 DEF SchedulerInv, TypeOK, PhasesOK, Attempt
  <1>7. TypeOK'
    BY <1>3, <1>4, <1>5, <1>6 DEF SchedulerInv, TypeOK
  <1>8. CallsInv'
    <2>1. \A a \in Attempt : <<r, a>> \notin active
      BY DEF Submit
    <2>2. QED
      BY <1>3, <1>4, <1>5, <2>1 DEF SchedulerInv, CallsInv, Attempt
  <1>9. StopInv'
    BY <1>4, <1>5 DEF SchedulerInv, StopInv
  <1>10. ReceiptInv'
    <2>1. request[r].phase # "schema_repair"
      BY DEF Submit, Ended
    <2>2. QED
      BY <1>5, <2>1 DEF SchedulerInv, ReceiptInv
  <1>11. NoMissedPump'
    BY <1>3 DEF NoMissedPump
  <1>12. QED
    BY <1>7, <1>8, <1>9, <1>10, <1>11 DEF SchedulerInv

LEMMA ReleaseInv ==
  ASSUME NEW c \in Call, SchedulerInv, Release(c)
  PROVE  SchedulerInv'
  <1>1. QueuesOK' /\ Queued' = Queued
    BY SameQueues DEF SchedulerInv, TypeOK, Release
  <1>2. /\ active' = active \ {c} /\ c \notin running /\ aborted' = aborted \ {c}
        /\ UNCHANGED <<running, capacity, request>> /\ pumpQueued'
    BY DEF Release, RequestPump
  <1>3. TypeOK'
    BY <1>1, <1>2 DEF SchedulerInv, TypeOK, PhasesOK, Release, RequestPump
  <1>4. CallsInv'
    BY <1>1, <1>2, FS_RemoveElement DEF SchedulerInv, CallsInv
  <1>5. StopInv' /\ ReceiptInv' /\ NoMissedPump'
    BY <1>2 DEF SchedulerInv, StopInv, ReceiptInv, NoMissedPump
  <1>6. QED
    BY <1>3, <1>4, <1>5 DEF SchedulerInv

\* What the provider answers, and what the completion makes of it.
LEMMA Results ==
  ASSUME NEW c \in Call, NEW outcome \in Outcome
  PROVE  /\ outcome.receipts \in Nat
         /\ Result(c, outcome).receipts = outcome.receipts
         /\ Result(c, outcome).kind = "value" => ~IsAborted(c)
  BY DEF Outcome, Result

LEMMA SettleInv ==
  ASSUME NEW c \in Call, NEW outcome \in Outcome, NEW late \in BOOLEAN,
         SchedulerInv, Settle(c, outcome, late)
  PROVE  SchedulerInv'
  <1> DEFINE r == c[1]
             result == Result(c, outcome)
             known == [request[r] EXCEPT !.unreported = @ + outcome.receipts]
  <1>1. /\ r \in Request /\ c[2] \in Attempt /\ c = <<r, c[2]>>
        /\ \A q \in Request \ {r}, a \in Attempt : <<q, a>> # c
    BY CallParts
  <1>2. /\ c \in running /\ running' = running \ {c}
        /\ UNCHANGED <<active, capacity, aborted>>
    BY DEF Settle
  <1>3. /\ request[r] \in RequestState /\ request[r].phase = c[2]
        /\ \A a \in Attempt \ {c[2]} : <<r, a>> \notin Queued \cup running
        /\ c \in active /\ c \notin Queued
    BY <1>1, <1>2 DEF SchedulerInv, TypeOK, PhasesOK, CallsInv
  <1>4. /\ request[r].attempts \in Nat /\ request[r].unreported = request[r].attempts
        /\ request[r].phase # "schema_repair" => request[r].attempts = 0
    BY <1>1, <1>3 DEF SchedulerInv, ReceiptInv, RequestState
  <1>5. outcome.receipts \in Nat /\ result.receipts = outcome.receipts
    BY Results
  <1>9. /\ known \in RequestState /\ known.cut = request[r].cut
        /\ known.attempts = request[r].attempts
        /\ known.unreported = request[r].attempts + outcome.receipts
    BY <1>3, <1>4, <1>5 DEF RequestState
  <1>6. CASE Retries(c, result, late)
    <2> DEFINE d == <<r, "schema_repair">>
    <2>1. /\ d \in Call /\ d # c /\ d \notin Queued /\ d \notin active /\ d \notin running
          /\ c[2] = "initial" /\ ~request[r].cut
      BY <1>1, <1>3, <1>6 DEF Retries, Call, Attempt, SchedulerInv, TypeOK, CallsInv
    <2>2. /\ Enqueue(d)
          /\ request' = [request EXCEPT ![r] =
               [known EXCEPT !.phase = "schema_repair", !.attempts = result.receipts]]
      BY <1>6 DEF Settle
    <2>3. QueuesOK' /\ Queued' = Queued \cup {d} /\ pumpQueued'
      BY <2>1, <2>2, EnqueueOK DEF SchedulerInv, TypeOK, Enqueue
    <2>4. /\ request' \in [Request -> RequestState]
          /\ request'[r].phase = "schema_repair" /\ request'[r].cut = FALSE
          /\ request'[r].attempts = request'[r].unreported
          /\ \A q \in Request \ {r} : request'[q] = request[q]
      <3> DEFINE next == [known EXCEPT !.phase = "schema_repair", !.attempts = result.receipts]
      <3> HIDE DEF known, result
      <3>0. /\ request[r].attempts = 0 /\ request[r].cut = FALSE
            /\ known.unreported = result.receipts /\ result.receipts \in Nat
            /\ known.cut = FALSE /\ "schema_repair" \in Phase
        BY <2>1, <1>3, <1>4, <1>5, <1>9 DEF RequestState, Phase, Attempt
      <3>1. /\ next \in RequestState /\ next.phase = "schema_repair" /\ next.cut = FALSE
            /\ next.attempts = next.unreported
        BY <3>0, <1>9 DEF RequestState
      <3> HIDE DEF next
      <3>2. request' = [request EXCEPT ![r] = next]
        BY <2>2 DEF next
      <3>3. QED
        BY <3>1, <3>2, <1>1 DEF SchedulerInv, TypeOK
    <2>5. PhasesOK'
      <3> HIDE DEF known, result, d
      <3>1. SUFFICES ASSUME NEW q \in Request, NEW a \in Attempt
            PROVE  request'[q].phase = a <=> <<q, a>> \in Queued' \cup running'
        BY DEF PhasesOK
      <3>2. CASE q # r
        <4>1. <<q, a>> # c /\ <<q, a>> # d
          BY <3>2, <1>1 DEF d
        <4>2. <<q, a>> \in Queued' \cup running' <=> <<q, a>> \in Queued \cup running
          BY <4>1, <2>3, <1>2
        <4>3. request[q].phase = a <=> <<q, a>> \in Queued \cup running
          BY DEF SchedulerInv, TypeOK, PhasesOK
        <4>4. QED
          BY <4>2, <4>3, <3>2, <2>4
      <3>3. CASE q = r /\ a = "schema_repair"
        BY <3>3, <2>3, <2>4 DEF d
      <3>4. CASE q = r /\ a = "initial"
        <4>1. <<q, a>> = c
          BY <3>4, <2>1, <1>1
        <4>2. c \notin Queued' \cup running'
          BY <2>1, <2>3, <1>2, <1>3
        <4>3. QED
          BY <4>1, <4>2, <3>4, <2>4
      <3>5. QED
        BY <3>2, <3>3, <3>4 DEF Attempt
    <2>6. TypeOK'
      BY <2>3, <2>4, <2>5, <1>2, <1>3 DEF SchedulerInv, TypeOK
    <2>7. CallsInv'
      BY <2>1, <2>3, <2>4, <1>2 DEF SchedulerInv, CallsInv
    <2>8. StopInv'
      BY <2>4, <1>1, <1>2 DEF SchedulerInv, StopInv
    <2>9. ReceiptInv' /\ NoMissedPump'
      BY <2>3, <2>4 DEF SchedulerInv, ReceiptInv, NoMissedPump
    <2>10. QED
      BY <2>6, <2>7, <2>8, <2>9 DEF SchedulerInv
  <1>7. CASE ~Retries(c, result, late)
    <2>1. PICK phase \in {"answered", "failed"} :
            request' = [request EXCEPT ![r] = EndedAs(known, phase, result.receipts)]
      BY <1>7 DEF Settle
    <2>2. UNCHANGED <<queues, pumpQueued>>
      BY <1>7 DEF Settle
    <2>3. QueuesOK' /\ Queued' = Queued
      BY <2>2, SameQueues DEF SchedulerInv, TypeOK
    <2>4. /\ request' \in [Request -> RequestState]
          /\ request'[r].phase \in Ended /\ request'[r].cut = FALSE
          /\ request'[r].attempts = 0 /\ request'[r].unreported = 0
          /\ \A q \in Request \ {r} : request'[q] = request[q]
      <3> DEFINE next == EndedAs(known, phase, result.receipts)
      <3> HIDE DEF known, result
      <3>1. known.unreported - (known.attempts + result.receipts) = 0
        BY <1>4, <1>5, <1>9
      <3>2. phase \in Ended /\ phase \in Phase
        BY DEF Ended, Phase
      <3>3. /\ next \in RequestState /\ next.phase = phase /\ next.cut = FALSE
            /\ next.attempts = 0 /\ next.unreported = 0
        BY <3>1, <3>2 DEF EndedAs, RequestState
      <3> HIDE DEF next
      <3>4. request' = [request EXCEPT ![r] = next]
        BY <2>1 DEF next
      <3>5. QED
        BY <3>2, <3>3, <3>4, <1>1 DEF SchedulerInv, TypeOK
    <2>5. PhasesOK'
      <3>1. \A a \in Attempt : <<r, a>> \notin Queued \cup running'
        BY <1>1, <1>2, <1>3
      <3>2. request'[r].phase \notin Attempt
        BY <2>4 DEF Ended, Attempt
      <3>3. QED
        <4>1. SUFFICES ASSUME NEW q \in Request, NEW a \in Attempt
              PROVE  request'[q].phase = a <=> <<q, a>> \in Queued' \cup running'
          BY DEF PhasesOK
        <4>2. CASE q = r
          BY <4>2, <3>1, <3>2, <2>3
        <4>3. CASE q # r
          <5>1. <<q, a>> # c
            BY <4>3, <1>1
          <5>2. request[q].phase = a <=> <<q, a>> \in Queued \cup running
            BY DEF SchedulerInv, TypeOK, PhasesOK
          <5>3. QED
            BY <4>3, <5>1, <5>2, <2>3, <2>4, <1>2
        <4>4. QED
          BY <4>2, <4>3
    <2>6. TypeOK'
      BY <2>2, <2>3, <2>4, <2>5, <1>2, <1>3 DEF SchedulerInv, TypeOK
    <2>7. CallsInv'
      BY <2>3, <2>4, <1>2 DEF SchedulerInv, CallsInv, Ended
    <2>8. StopInv'
      BY <2>4, <1>1, <1>2 DEF SchedulerInv, StopInv
    <2>9. ReceiptInv'
      BY <2>4 DEF SchedulerInv, ReceiptInv
    <2>10. NoMissedPump'
      BY <2>2, <1>2 DEF SchedulerInv, NoMissedPump, CanAdmit, queues
    <2>11. QED
      BY <2>6, <2>7, <2>8, <2>9, <2>10 DEF SchedulerInv
  <1>8. QED
    BY <1>6, <1>7

\* A request that is cut while its call waits ends at once.
LEMMA CutInv ==
  ASSUME NEW r \in Request, SchedulerInv, Cut(r)
  PROVE  SchedulerInv'
  <1>1. PICK a \in Attempt : a = request[r].phase
    BY DEF Cut
  <1> DEFINE c == <<r, a>>
  <1>2. /\ c \in Call /\ c \in Queued \cup running /\ ~request[r].cut
        /\ request[r] \in RequestState
    BY <1>1 DEF Call, Cut, SchedulerInv, TypeOK, PhasesOK
  <1>3. UNCHANGED <<active, running, capacity, aborted, pumpQueued>>
    BY DEF Cut, slots
  <1>4. CASE c \in Queued
    <2> DEFINE next == EndedAs(request[r], "failed", 0)
    <2>1. RemoveQueued(c) /\ request' = [request EXCEPT ![r] = next]
      BY <1>1, <1>4 DEF Cut
    <2>2. QueuesOK' /\ Queued' = Queued \ {c}
      BY <2>1, <1>4, RemoveQueuedOK DEF SchedulerInv, TypeOK
    <2>3. /\ next \in RequestState /\ next.phase = "failed" /\ next.cut = FALSE
          /\ next.attempts = 0 /\ next.unreported = 0
      <3>1. request[r].unreported - (request[r].attempts + 0) = 0
        BY <1>2 DEF SchedulerInv, ReceiptInv, RequestState
      <3>2. QED
        BY <3>1 DEF EndedAs, RequestState, Phase, Ended
    <2> HIDE DEF next
    <2>4. /\ request' \in [Request -> RequestState] /\ request'[r] = next
          /\ \A q \in Request \ {r} : request'[q] = request[q]
      BY <2>1, <2>3 DEF SchedulerInv, TypeOK
    <2>5. PhasesOK'
      <3>1. \A b \in Attempt : <<r, b>> \notin Queued' \cup running'
        BY <2>2, <1>1, <1>3, <1>4 DEF SchedulerInv, TypeOK, PhasesOK, CallsInv
      <3>2. request'[r].phase \notin Attempt
        BY <2>3, <2>4 DEF Attempt
      <3>3. \A q \in Request \ {r}, b \in Attempt : <<q, b>> # c
        OBVIOUS
      <3>4. SUFFICES ASSUME NEW q \in Request, NEW b \in Attempt
            PROVE  request'[q].phase = b <=> <<q, b>> \in Queued' \cup running'
        BY DEF PhasesOK
      <3>5. CASE q = r
        BY <3>5, <3>1, <3>2
      <3>6. CASE q # r
        <4>1. request[q].phase = b <=> <<q, b>> \in Queued \cup running
          BY DEF SchedulerInv, TypeOK, PhasesOK
        <4>2. QED
          BY <4>1, <3>6, <3>3, <2>2, <2>4, <1>3
      <3>7. QED
        BY <3>5, <3>6
    <2>6. TypeOK'
      BY <2>2, <2>4, <2>5, <1>3 DEF SchedulerInv, TypeOK
    <2>7. CallsInv'
      BY <2>2, <2>3, <2>4, <1>3 DEF SchedulerInv, CallsInv
    <2>8. StopInv' /\ ReceiptInv'
      BY <2>3, <2>4, <1>3 DEF SchedulerInv, StopInv, ReceiptInv
    <2>9. NoMissedPump'
      <3>1. ready # <<>>
        BY <1>4, QueuedCalls DEF SchedulerInv, TypeOK
      <3>2. QED
        BY <3>1, <1>3 DEF SchedulerInv, NoMissedPump, CanAdmit
    <2>10. QED
      BY <2>6, <2>7, <2>8, <2>9 DEF SchedulerInv
  <1>5. CASE c \notin Queued
    <2>1. request' = [request EXCEPT ![r].cut = TRUE] /\ UNCHANGED queues
      BY <1>1, <1>5 DEF Cut
    <2>2. QueuesOK' /\ Queued' = Queued
      BY <2>1, SameQueues DEF SchedulerInv, TypeOK
    <2>3. /\ request' \in [Request -> RequestState]
          /\ request'[r].phase = request[r].phase
          /\ request'[r].attempts = request[r].attempts
          /\ request'[r].unreported = request[r].unreported
          /\ \A q \in Request \ {r} : request'[q] = request[q]
      BY <2>1, <1>2 DEF SchedulerInv, TypeOK, RequestState
    <2>4. PhasesOK'
      BY <2>2, <2>3, <1>3 DEF SchedulerInv, TypeOK, PhasesOK
    <2>5. TypeOK' /\ CallsInv' /\ ReceiptInv'
      BY <2>2, <2>3, <2>4, <1>3 DEF SchedulerInv, TypeOK, CallsInv, ReceiptInv
    <2>6. StopInv'
      BY <2>3, <1>2, <1>3, <1>5 DEF SchedulerInv, StopInv
    <2>7. NoMissedPump'
      BY <2>1, <1>3 DEF SchedulerInv, NoMissedPump, CanAdmit, queues
    <2>8. QED
      BY <2>5, <2>6, <2>7 DEF SchedulerInv
  <1>6. QED
    BY <1>4, <1>5

LEMMA CancelAllInv ==
  ASSUME SchedulerInv, CancelAll
  PROVE  SchedulerInv'
  <1>1. QueuesOK' /\ Queued' = {} /\ ready' = <<>>
    BY CancelAllOK DEF CancelAll
  <1>2. aborted' = aborted \cup active /\ UNCHANGED <<active, running, capacity, pumpQueued>>
    BY DEF CancelAll, slots
  <1> DEFINE Dropped(r) == <<r, request[r].phase>> \in Queued
  <1>3. request' = [r \in Request |-> IF Dropped(r) THEN EndedAs(request[r], "failed", 0)
                                                  ELSE request[r]]
    BY DEF CancelAll
  <1>4. ASSUME NEW r \in Request, Dropped(r)
        PROVE  /\ request'[r] \in RequestState /\ request'[r].phase = "failed"
               /\ request'[r].cut = FALSE
               /\ request'[r].attempts = 0 /\ request'[r].unreported = 0
    <2>1. request[r].unreported - (request[r].attempts + 0) = 0 /\ request[r] \in RequestState
      BY DEF SchedulerInv, TypeOK, ReceiptInv, RequestState
    <2>2. request'[r] = EndedAs(request[r], "failed", 0)
      BY <1>3, <1>4
    <2>3. QED
      BY <2>1, <2>2 DEF EndedAs, RequestState, Phase, Ended
  <1>5. \A r \in Request : ~Dropped(r) => request'[r] = request[r]
    BY <1>3
  <1>6. request' \in [Request -> RequestState]
    BY <1>3, <1>4, <1>5 DEF SchedulerInv, TypeOK
  <1>7. PhasesOK'
    <2>1. ASSUME NEW r \in Request, NEW a \in Attempt, Dropped(r)
          PROVE  request'[r].phase # a /\ <<r, a>> \notin running
      <3>1. a # "failed"
        BY DEF Attempt
      <3>2. request[r].phase = a => <<r, a>> \in Queued /\ <<r, a>> \notin active
        BY <2>1 DEF SchedulerInv, CallsInv
      <3>3. QED
        BY <2>1, <3>1, <3>2, <1>4 DEF SchedulerInv, TypeOK, PhasesOK
    <2>2. ASSUME NEW r \in Request, NEW a \in Attempt, ~Dropped(r)
          PROVE  request'[r].phase = a <=> <<r, a>> \in running
      BY <2>2, <1>5 DEF SchedulerInv, TypeOK, PhasesOK
    <2>3. QED
      BY <2>1, <2>2, <1>1, <1>2 DEF PhasesOK
  <1>8. TypeOK'
    BY <1>1, <1>2, <1>6, <1>7 DEF SchedulerInv, TypeOK
  <1>9. CallsInv' /\ StopInv' /\ ReceiptInv'
    BY <1>1, <1>2, <1>4, <1>5 DEF SchedulerInv, CallsInv, StopInv, ReceiptInv
  <1>10. NoMissedPump'
    BY <1>1 DEF NoMissedPump, CanAdmit
  <1>11. QED
    BY <1>8, <1>9, <1>10 DEF SchedulerInv

LEMMA NextInv == SchedulerInv /\ [Next]_vars => SchedulerInv'
  <1> SUFFICES ASSUME SchedulerInv, [Next]_vars PROVE SchedulerInv'
    OBVIOUS
  <1>1. CASE Admit
    BY <1>1, AdmitInv
  <1>2. CASE PumpEnds
    BY <1>2, PumpEndsInv
  <1>3. ASSUME NEW n \in 1..MAX_ACTIVE, SetMaxActive(n) PROVE SchedulerInv'
    BY <1>3, SetMaxActiveInv
  <1>4. ASSUME NEW r \in Request, Submit(r) PROVE SchedulerInv'
    BY <1>4, SubmitInv
  <1>5. ASSUME NEW c \in Call, NEW outcome \in Outcome, NEW late \in BOOLEAN,
               Settle(c, outcome, late)
        PROVE  SchedulerInv'
    BY <1>5, SettleInv
  <1>6. ASSUME NEW c \in Call, Release(c) PROVE SchedulerInv'
    BY <1>6, ReleaseInv
  <1>7. ASSUME NEW r \in Request, Cut(r) PROVE SchedulerInv'
    BY <1>7, CutInv
  <1>8. CASE CancelAll
    BY <1>8, CancelAllInv
  <1>9. CASE UNCHANGED vars
    <2>1. QueuesOK' /\ Queued' = Queued
      BY <1>9, SameQueues DEF SchedulerInv, TypeOK, vars
    <2>2. QED
      BY <2>1, <1>9 DEF SchedulerInv, TypeOK, PhasesOK, CallsInv, StopInv, ReceiptInv,
         NoMissedPump, CanAdmit, vars, queues, slots
  <1>10. QED
    BY <1>1, <1>2, <1>3, <1>4, <1>5, <1>6, <1>7, <1>8, <1>9 DEF Next

LEMMA AlwaysInv == Spec => []SchedulerInv
  BY InitInv, NextInv, PTL DEF Spec

-----------------------------------------------------------------------------
(* The theorems *)

\* Every call is in one place, and its request waits for it (workflow-scheduler.ts).
THEOREM SchedulerTypeCorrect == Spec => []TypeOK
  <1>1. SchedulerInv => TypeOK
    BY DEF SchedulerInv
  <1>2. QED
    BY <1>1, AlwaysInv, PTL

\* While a slot is free and a project waits, the pump will run (requestPump).
THEOREM PumpIsNeverMissed == Spec => []NoMissedPump
  <1>1. SchedulerInv => NoMissedPump
    BY DEF SchedulerInv
  <1>2. QED
    BY <1>1, AlwaysInv, PTL

\* What a request ends with reports every receipt the provider gave for it (completion).
THEOREM EveryReceiptIsReported == Spec => []ReceiptsReported
  <1>1. SchedulerInv => ReceiptsReported
    BY DEF SchedulerInv, ReceiptInv, ReceiptsReported, Ended
  <1>2. QED
    BY <1>1, AlwaysInv, PTL

\* Only the pump gives the provider a call, and it is one that waits.
LEMMA OnlyAdmitStarts ==
  ASSUME SchedulerInv, [Next]_vars
  PROVE  \/ running' \subseteq running
         \/ Admit /\ \E c \in Queued : active' = active \cup {c} /\ running' = running \cup {c}
  <1>1. CASE Admit
    <2>1. Head(pending[Head(ready)]) \in Queued
      BY <1>1, AdmitOK DEF SchedulerInv, TypeOK
    <2>2. QED
      BY <2>1, <1>1 DEF Admit
  <1>2. CASE PumpEnds \/ (\E n \in 1..MAX_ACTIVE : SetMaxActive(n)) \/ CancelAll
    BY <1>2 DEF PumpEnds, SetMaxActive, CancelAll, slots
  <1>3. CASE \E r \in Request : Submit(r) \/ Cut(r)
    BY <1>3 DEF Submit, Cut, slots
  <1>4. CASE \E c \in Call : \/ Release(c)
                             \/ \E outcome \in Outcome, late \in BOOLEAN :
                                  Settle(c, outcome, late)
    BY <1>4 DEF Release, Settle
  <1>5. CASE UNCHANGED vars
    BY <1>5 DEF vars, slots
  <1>6. QED
    BY <1>1, <1>2, <1>3, <1>4, <1>5 DEF Next

\* A call is given to the provider only into a slot that is free, whatever was aborted
\* or lowered meanwhile (pump).
THEOREM SlotsBoundTheProvider == Spec => ProviderCallsBounded
  <1>1. ASSUME SchedulerInv, [Next]_vars
        PROVE  running' \subseteq running \/ Cardinality(running') <= capacity
    <2>1. CASE Admit /\ \E c \in Queued : active' = active \cup {c} /\ running' = running \cup {c}
      <3>1. PICK c \in Queued : active' = active \cup {c} /\ running' = running \cup {c}
        BY <2>1
      <3>2. /\ IsFiniteSet(active) /\ Cardinality(active) < capacity /\ running \subseteq active
            /\ capacity \in Nat
        BY <1>1, <2>1, SchedulerAssumption DEF SchedulerInv, TypeOK, CallsInv, Admit, CanAdmit
      <3>3. /\ IsFiniteSet(active') /\ Cardinality(active) \in Nat
            /\ \/ Cardinality(active') = Cardinality(active)
               \/ Cardinality(active') = Cardinality(active) + 1
        BY <3>1, <3>2, FS_AddElement, FS_CardinalityType
      <3>4. running' \subseteq active'
        BY <3>1, <3>2
      <3>5. Cardinality(running') <= Cardinality(active') /\ Cardinality(running') \in Nat
        BY <3>3, <3>4, FS_Subset, FS_CardinalityType
      <3>6. QED
        BY <3>2, <3>3, <3>5
    <2>2. QED
      BY <1>1, <2>1, OnlyAdmitStarts
  <1>2. SchedulerInv /\ [Next]_vars =>
          [running' \subseteq running \/ Cardinality(running') <= capacity]_vars
    BY <1>1
  <1>3. QED
    BY <1>2, AlwaysInv, PTL DEF Spec, ProviderCallsBounded

\* A request that was stopped or ran out of time goes to the provider no more and is
\* never answered, though the provider may still be working on it (schedule, completion).
THEOREM StoppedStaysStopped == Spec => StopIsFinal
  <1> DEFINE Final(r) == request[r].cut =>
               /\ ({r} \X Attempt) \cap running' \subseteq running
               /\ request'[r].phase # "answered"
  <1>1. ASSUME SchedulerInv, [Next]_vars, NEW r \in Request
        PROVE  Final(r)
    <2> SUFFICES ASSUME request[r].cut PROVE Final(r)
      OBVIOUS
    <2>1. PICK a \in Attempt : <<r, a>> \in running /\ request[r].phase = a
      BY <1>1 DEF SchedulerInv, StopInv, TypeOK, PhasesOK
    <2>2. ({r} \X Attempt) \cap running' \subseteq running
      <3>1. ASSUME NEW c \in Queued
            PROVE  c \notin {r} \X Attempt
        <4>1. c # <<r, a>>
          BY <1>1, <2>1, <3>1 DEF SchedulerInv, TypeOK, CallsInv
        <4>2. \A b \in Attempt : <<r, b>> \in Queued => b = a
          BY <1>1, <2>1 DEF SchedulerInv, TypeOK, PhasesOK
        <4>3. QED
          BY <3>1, <4>1, <4>2
      <3>2. QED
        BY <1>1, <3>1, OnlyAdmitStarts
    <2>3. request[r].phase # "answered" /\ request[r].phase \notin Ended
      BY <2>1 DEF Attempt, Ended
    <2>4. request'[r].phase # "answered"
      <3>1. CASE UNCHANGED request
        BY <3>1, <2>3
      <3>2. ASSUME NEW q \in Request, Submit(q) PROVE request'[r].phase # "answered"
        BY <3>2, <2>3 DEF Submit
      <3>3. ASSUME NEW q \in Request, Cut(q) PROVE request'[r].phase # "answered"
        <4>1. CASE q = r
          BY <3>3, <4>1 DEF Cut
        <4>2. CASE q # r
          <5>1. request'[r] = request[r]
            BY <1>1, <3>3, <4>2 DEF Cut, SchedulerInv, TypeOK
          <5>2. QED
            BY <5>1, <2>3
        <4>3. QED
          BY <4>1, <4>2
      <3>4. ASSUME CancelAll PROVE request'[r].phase # "answered"
        BY <3>4, <2>3 DEF CancelAll, EndedAs
      <3>5. ASSUME NEW c \in Call, NEW outcome \in Outcome, NEW late \in BOOLEAN,
                   Settle(c, outcome, late)
            PROVE  request'[r].phase # "answered"
        <4>1. c[1] \in Request /\ request \in [Request -> RequestState]
          BY <1>1, CallParts DEF SchedulerInv, TypeOK
        <4>2. CASE c[1] = r
          <5>1. Result(c, outcome).kind # "value"
            BY <4>2, Results DEF IsAborted
          <5> DEFINE known == [request[r] EXCEPT !.unreported = @ + outcome.receipts]
                     receipts == Result(c, outcome).receipts
          <5>2. CASE Retries(c, Result(c, outcome), late)
            <6>1. request' = [request EXCEPT ![r] =
                    [known EXCEPT !.phase = "schema_repair", !.attempts = receipts]]
              BY <3>5, <4>2, <5>2 DEF Settle
            <6>2. [known EXCEPT !.phase = "schema_repair", !.attempts = receipts].phase
                    = "schema_repair"
              BY <1>1, <4>1 DEF RequestState
            <6>3. QED
              BY <4>1, <6>1, <6>2
          <5>3. CASE ~Retries(c, Result(c, outcome), late)
            <6>1. request' = [request EXCEPT ![r] = EndedAs(known, "failed", receipts)]
              BY <3>5, <4>2, <5>1, <5>3 DEF Settle
            <6>2. EndedAs(known, "failed", receipts).phase = "failed"
              BY DEF EndedAs
            <6>3. QED
              BY <4>1, <6>1, <6>2
          <5>4. QED
            BY <5>2, <5>3
        <4>3. CASE c[1] # r
          <5>1. request'[r] = request[r]
            BY <3>5, <4>1, <4>3 DEF Settle
          <5>2. QED
            BY <5>1, <2>3
        <4>4. QED
          BY <4>2, <4>3
      <3>6. Next \/ UNCHANGED vars
        BY <1>1
      <3>7. QED
        BY <3>1, <3>2, <3>3, <3>4, <3>5, <3>6
        DEF Next, vars, Admit, PumpEnds, SetMaxActive, Release
    <2>5. QED
      BY <2>2, <2>4
  <1>2. SchedulerInv /\ [Next]_vars => [\A r \in Request : Final(r)]_vars
    BY <1>1
  <1>3. QED
    BY <1>2, AlwaysInv, PTL DEF Spec, StopIsFinal

\* The turns of a sequence without repetition.
LEMMA PlaceIs ==
  ASSUME NEW S, NEW s \in Seq(S), Once(s)
  PROVE  /\ \A i \in 1..Len(s) : Place(s, s[i]) = i
         /\ \A e \in Range(s) : Place(s, e) \in 1..Len(s) /\ s[Place(s, e)] = e
  <1>1. \A e \in Range(s) : Place(s, e) \in 1..Len(s) /\ s[Place(s, e)] = e
    BY InRange DEF Place
  <1>2. \A i \in 1..Len(s) : s[i] \in Range(s)
    BY InRange
  <1>3. QED
    BY <1>1, <1>2, NoRepeats

\* Who is in the turns before and after stays before whom he was, when another comes or leaves.
LEMMA ComesInOrder ==
  ASSUME NEW S, NEW s \in Seq(S), Once(s), NEW x \in S, x \notin Range(s), NEW k \in 1..(Len(s) + 1),
         NEW e \in Range(s), NEW f \in Range(s), Place(s, e) < Place(s, f)
  PROVE  Place(InsertAt(s, k, x), e) < Place(InsertAt(s, k, x), f)
  <1> DEFINE t == InsertAt(s, k, x)
             at(i) == IF i < k THEN i ELSE i + 1
  <1>1. /\ t \in Seq(S) /\ Once(t) /\ Len(t) = Len(s) + 1
        /\ \A i \in 1..(Len(s) + 1) : t[i] = IF i < k THEN s[i] ELSE IF i = k THEN x ELSE s[i - 1]
    BY InsertIs, InsertOnce
  <1>2. \A i \in 1..Len(s) : at(i) \in 1..Len(t) /\ t[at(i)] = s[i]
    <2> HIDE DEF t
    <2>1. QED
      BY <1>1
  <1>3. \A g \in Range(s) : Place(t, g) = at(Place(s, g)) /\ Place(s, g) \in 1..Len(s)
    <2> HIDE DEF t, at
    <2>1. \A g \in Range(s) : Place(s, g) \in 1..Len(s) /\ s[Place(s, g)] = g
      BY PlaceIs
    <2>2. \A i \in 1..Len(t) : Place(t, t[i]) = i
      BY <1>1, PlaceIs
    <2>3. ASSUME NEW g \in Range(s)
          PROVE  Place(t, g) = at(Place(s, g))
      <3>1. at(Place(s, g)) \in 1..Len(t) /\ t[at(Place(s, g))] = g
        BY <1>2, <2>1
      <3>2. QED
        BY <3>1, <2>2
    <2>4. QED
      BY <2>1, <2>3
  <1>4. QED
    BY <1>3

LEMMA LeavesInOrder ==
  ASSUME NEW S, NEW s \in Seq(S), Once(s), NEW x \in Range(s),
         NEW e \in Range(s) \ {x}, NEW f \in Range(s) \ {x}, Place(s, e) < Place(s, f)
  PROVE  Place(Without(s, x), e) < Place(Without(s, x), f)
  <1> DEFINE t == Without(s, x)
             k == Place(s, x)
             at(i) == IF i < k THEN i ELSE i - 1
  <1>1. /\ t \in Seq(S) /\ Once(t) /\ Len(t) = Len(s) - 1 /\ k \in 1..Len(s) /\ s[k] = x
        /\ \A i \in 1..(Len(s) - 1) : t[i] = IF i < k THEN s[i] ELSE s[i + 1]
    BY WithoutIs, WithoutOnce
  <1>2. \A i \in 1..Len(s) : i # k => at(i) \in 1..Len(t) /\ t[at(i)] = s[i]
    <2> HIDE DEF t, k
    <2>1. QED
      BY <1>1
  <1>3. \A g \in Range(s) \ {x} : Place(t, g) = at(Place(s, g)) /\ Place(s, g) \in (1..Len(s)) \ {k}
    <2> HIDE DEF t, at, k
    <2>1. \A g \in Range(s) \ {x} : Place(s, g) \in 1..Len(s) /\ s[Place(s, g)] = g
      BY PlaceIs
    <2>2. ASSUME NEW g \in Range(s) \ {x}
          PROVE  Place(t, g) = at(Place(s, g)) /\ Place(s, g) # k
      <3>1. Place(s, g) \in 1..Len(s) /\ Place(s, g) # k
        BY <1>1, <2>1
      <3>2. at(Place(s, g)) \in 1..Len(t) /\ t[at(Place(s, g))] = g
        BY <1>2, <2>1, <3>1
      <3>3. \A i \in 1..Len(t) : Place(t, t[i]) = i
        BY <1>1, PlaceIs
      <3>4. QED
        BY <3>1, <3>2, <3>3
    <2>3. QED
      BY <2>1, <2>2
  <1>4. QED
    BY <1>1, <1>3

\* The first goes to the end, or leaves, and the others move up.
LEMMA FirstGoesLast ==
  ASSUME NEW S, NEW s \in Seq(S), Once(s), s # <<>>, NEW t, t \in {Tail(s), Append(Tail(s), Head(s))},
         NEW e \in Range(s), NEW f \in Range(s), e # f
  PROVE  IF e = Head(s) THEN t # Tail(s) => Place(t, f) < Place(t, e)
         ELSE f # Head(s) /\ Place(s, e) < Place(s, f) => Place(t, e) < Place(t, f)
  <1> DEFINE rest == Tail(s)
             h == Head(s)
  <1>1. /\ rest \in Seq(S) /\ h \in S /\ Once(rest) /\ Range(rest) = Range(s) \ {h}
        /\ Len(rest) = Len(s) - 1 /\ h = s[1] /\ Len(s) >= 1 /\ \A i \in 1..(Len(s) - 1) : rest[i] = s[i + 1]
    BY TailOnce
  <1> HIDE DEF rest, h
  <1>2. /\ t \in Seq(S) /\ Once(t) /\ Len(t) >= Len(s) - 1
        /\ \A i \in 1..(Len(s) - 1) : t[i] = s[i + 1]
        /\ t # rest => Len(t) = Len(s) /\ t[Len(s)] = h
    <2>1. CASE t = rest
      BY <2>1, <1>1
    <2>2. CASE t = Append(rest, h)
      <3>1. Once(t)
        BY <2>2, <1>1, AppendOnce
      <3>2. t \in Seq(S) /\ Len(t) = Len(rest) + 1 /\ t[Len(rest) + 1] = h /\ \A i \in 1..Len(rest) : t[i] = rest[i]
        BY <2>2, <1>1
      <3>3. QED
        BY <3>1, <3>2, <1>1
    <2>3. QED
      BY <2>1, <2>2 DEF rest, h
  <1>3. \A g \in Range(s) : /\ Place(s, g) \in 1..Len(s) /\ s[Place(s, g)] = g
                            /\ g # h => Place(t, g) = Place(s, g) - 1
    <2>1. \A g \in Range(s) : Place(s, g) \in 1..Len(s) /\ s[Place(s, g)] = g
      BY PlaceIs
    <2>2. ASSUME NEW g \in Range(s), g # h
          PROVE  Place(t, g) = Place(s, g) - 1
      <3>1. Place(s, g) - 1 \in 1..(Len(s) - 1) /\ t[Place(s, g) - 1] = g
        BY <2>1, <2>2, <1>1, <1>2
      <3>2. QED
        BY <3>1, <1>1, <1>2, PlaceIs
    <2>3. QED
      BY <2>1, <2>2
  <1>4. t # rest => Place(t, h) = Len(s)
    BY <1>1, <1>2, PlaceIs
  <1>5. h \in Range(s)
    BY TailOnce DEF h
  <1>10. \A g \in {e, f} : /\ Place(s, g) \in Int /\ Place(s, g) <= Len(s)
                           /\ g # h => Place(t, g) = Place(s, g) - 1
    BY <1>3
  <1>6. e = h /\ t # rest => Place(t, f) < Place(t, e)
    BY <1>4, <1>10
  <1>7. e # h /\ f # h /\ Place(s, e) < Place(s, f) => Place(t, e) < Place(t, f)
    BY <1>10
  <1>8. QED
    BY <1>6, <1>7 DEF rest, h

\* Whoever waits keeps his place before those behind him, and only a project that made a call goes
\* behind all others (pump, schedule, removeQueued).
THEOREM ProjectsTakeTurns == Spec => TurnsInOrder
  <1> DEFINE Made(p) == \E c \in active' \ active : Owner(c) = p
             InOrder(p, q) == Place(ready, p) < Place(ready, q) =>
               IF Made(p) THEN Place(ready', q) < Place(ready', p) ELSE Place(ready', p) < Place(ready', q)
  <1>1. ASSUME SchedulerInv, [Next]_vars, NEW p \in Waiting \cap Waiting', NEW q \in Waiting \cap Waiting'
        PROVE  InOrder(p, q)
    <2> SUFFICES ASSUME Place(ready, p) < Place(ready, q) PROVE InOrder(p, q)
      OBVIOUS
    <2>1. /\ ready \in Seq(Project) /\ Once(ready) /\ Range(ready) = Waiting
          /\ p \in Range(ready) /\ q \in Range(ready) /\ QueuesOK
      BY <1>1 DEF SchedulerInv, TypeOK, QueuesOK
    <2>2. p # q
      BY <2>1, PlaceIs
    <2>3. CASE Admit
      <3> DEFINE h == Head(ready)
                 c == Head(pending[h])
      <3>1. QueuesOK' /\ c \in Queued /\ c \in Call
        BY <2>1, <2>3, AdmitOK, QueuedCalls
      <3>2. h \in Project /\ h \in Waiting /\ ready # <<>>
        BY <2>1, <2>3, TailOnce DEF Admit, CanAdmit
      <3>3. Owner(c) = h
        <4>1. c \in Range(pending[h])
          BY <2>1, <3>2, TailOnce DEF QueuesOK, Waiting
        <4>2. QED
          BY <4>1, <3>2, <2>1 DEF QueuesOK
      <3>4. active' \ active = {c}
        BY <1>1, <2>3, <3>1 DEF Admit, SchedulerInv, CallsInv
      <3>5. \A r : Made(r) <=> r = h
        BY <3>3, <3>4
      <3>6. ready' \in {Tail(ready), Append(Tail(ready), h)}
        BY <2>3 DEF Admit, Rotated
      <3>7. p = h => ready' # Tail(ready)
        <4>1. Range(ready') = Waiting'
          BY <3>1 DEF QueuesOK
        <4>2. h \notin Range(Tail(ready))
          BY <2>1, <3>2, TailOnce
        <4>3. QED
          BY <4>1, <4>2
      <3>8. q # h
        <4>1. ready[1] = h /\ 1 \in 1..Len(ready)
          BY <2>1, <3>2
        <4>2. Place(ready, h) = 1 /\ Place(ready, p) \in 1..Len(ready)
          BY <4>1, <2>1, PlaceIs
        <4>3. QED
          BY <4>2
      <3> HIDE DEF Made, c
      <3>9. IF p = h THEN ready' # Tail(ready) => Place(ready', q) < Place(ready', p)
            ELSE q # h /\ Place(ready, p) < Place(ready, q) => Place(ready', p) < Place(ready', q)
        BY <2>1, <2>2, <3>2, <3>6, FirstGoesLast
      <3>10. QED
        BY <3>5, <3>7, <3>8, <3>9
    <2>4. CASE UNCHANGED active /\ ready' = ready
      BY <2>4
    <2>5. CASE PumpEnds \/ \E n \in 1..MAX_ACTIVE : SetMaxActive(n)
      BY <2>5, <2>4 DEF PumpEnds, SetMaxActive, queues, slots
    <2>6. ASSUME NEW c \in Call, Enqueue(c), UNCHANGED active
          PROVE  InOrder(p, q)
      <3>1. Owner(c) \in Project
        BY SchedulerAssumption DEF Call, Owner
      <3>2. CASE pending[Owner(c)] # <<>>
        BY <2>6, <3>2, <2>4 DEF Enqueue
      <3>3. CASE pending[Owner(c)] = <<>>
        <4>1. Owner(c) \notin Range(ready) /\ TurnOf(Owner(c)) \in 1..(Len(ready) + 1)
          BY <2>1, <3>1, <3>3, TurnIsPlace DEF Waiting
        <4>2. ready' = InsertAt(ready, TurnOf(Owner(c)), Owner(c))
          BY <2>6, <3>3 DEF Enqueue
        <4>3. Place(ready', p) < Place(ready', q)
          BY <4>1, <4>2, <3>1, <2>1, ComesInOrder
        <4>4. QED
          BY <4>3, <2>6
      <3>4. QED
        BY <3>2, <3>3
    <2>7. ASSUME NEW r \in Request, Submit(r) PROVE InOrder(p, q)
      BY <2>6, <2>7 DEF Submit, slots, Call, Attempt
    <2>8. ASSUME NEW c \in Call, NEW outcome \in Outcome, NEW late \in BOOLEAN, Settle(c, outcome, late)
          PROVE  InOrder(p, q)
      <3>1. <<c[1], "schema_repair">> \in Call /\ active' = active
        BY <2>8, CallParts DEF Call, Attempt, Settle
      <3>2. CASE Enqueue(<<c[1], "schema_repair">>)
        BY <3>1, <3>2, <2>6
      <3>3. CASE UNCHANGED queues
        BY <3>1, <3>3, <2>4 DEF queues
      <3>4. QED
        BY <3>2, <3>3, <2>8 DEF Settle
    <2>9. ASSUME NEW c \in Call, Release(c) PROVE InOrder(p, q)
      <3>1. active' \subseteq active /\ ready' = ready
        BY <2>9 DEF Release, queues
      <3>2. QED
        BY <3>1
    <2>10. ASSUME NEW r \in Request, Cut(r) PROVE InOrder(p, q)
      <3> DEFINE c == <<r, request[r].phase>>
                 o == Owner(c)
      <3>1. UNCHANGED active
        BY <2>10 DEF Cut, slots
      <3>2. CASE c \in Queued
        <4>1. RemoveQueued(c) /\ QueuesOK'
          BY <2>1, <2>10, <3>2, RemoveQueuedOK DEF Cut
        <4>2. CASE Len(pending[o]) = 1
          <5>1. ready' = Without(ready, o)
            BY <4>1, <4>2 DEF RemoveQueued
          <5>2. o \in Range(ready)
            <6>1. c \in Call /\ o \in Project /\ c \in Range(pending[o])
              BY <2>1, <3>2, QueuedCalls, SchedulerAssumption DEF Call, Owner
            <6>2. pending[o] # <<>>
              BY <6>1, <2>1, InRange DEF QueuesOK
            <6>3. QED
              BY <6>1, <6>2, <2>1 DEF Waiting
          <5>3. p # o /\ q # o
            <6>1. Range(ready') = Waiting' /\ o \notin Range(Without(ready, o))
              BY <4>1, <5>2, <2>1, WithoutOnce DEF QueuesOK
            <6>2. QED
              BY <6>1, <5>1
          <5> HIDE DEF o
          <5>4. Place(ready', p) < Place(ready', q)
            BY <5>1, <5>2, <5>3, <2>1, LeavesInOrder
          <5>5. QED
            BY <5>4, <3>1
        <4>3. CASE Len(pending[o]) # 1
          BY <4>1, <4>3, <3>1, <2>4 DEF RemoveQueued
        <4>4. QED
          BY <4>2, <4>3
      <3>3. CASE c \notin Queued
        BY <2>10, <3>1, <3>3, <2>4 DEF Cut, queues
      <3>4. QED
        BY <3>2, <3>3
    <2>11. CASE CancelAll
      BY <2>11 DEF CancelAll, Waiting
    <2>12. CASE UNCHANGED vars
      BY <2>12, <2>4 DEF vars, queues, slots
    <2>13. QED
      BY <1>1, <2>3, <2>5, <2>7, <2>8, <2>9, <2>10, <2>11, <2>12 DEF Next
  <1>2. SchedulerInv /\ [Next]_vars => [\A p, q \in Waiting \cap Waiting' : InOrder(p, q)]_vars
    BY <1>1
  <1>3. QED
    BY <1>2, AlwaysInv, PTL DEF Spec, TurnsInOrder
=============================================================================

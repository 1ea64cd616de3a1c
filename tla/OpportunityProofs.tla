-------------------------- MODULE OpportunityProofs --------------------------
(***************************************************************************)
(* Theorems about the exploration of a project: whatever the reviews, the  *)
(* sessions and the owner make of its ideas, in whatever order and         *)
(* whatever is cut short, each idea is in one place and in a family that   *)
(* is still there, no request is paid for twice, and the batches are       *)
(* generated and reviewed in turn.                                         *)
(***************************************************************************)
EXTENDS OpportunityExploration, FiniteSetTheorems, WellFoundedInduction, TLAPS

\* What the proof needs of the shape of the families and of the decisions.  A family's
\* representative may be anything.
Rows == [option : Option, family : Nat, state : {"accepted", "unresolved"}]
FamilyShape(fs) == fs \in Seq([active : BOOLEAN, rep : {fs[f].rep : f \in DOMAIN fs}])
FamiliesOK ==
  /\ FamilyShape(family) /\ decision \subseteq Rows
  /\ DecidedOnce /\ MergedStaysEmpty

-----------------------------------------------------------------------------
(* The operators on families.                                              *)

LEMMA InSeq ==
  ASSUME NEW S, NEW s \in Seq(S), NEW i \in DOMAIN s
  PROVE  s[i] \in S
OBVIOUS

LEMMA SeqOf ==
  ASSUME NEW S, NEW s \in Seq(S), NEW T, \A i \in DOMAIN s : s[i] \in T
  PROVE  s \in Seq(T)
OBVIOUS

LEMMA LikeSeq ==
  ASSUME NEW S, NEW s \in Seq(S), NEW T, NEW t, t = [i \in DOMAIN s |-> t[i]],
         \A i \in DOMAIN s : t[i] \in T
  PROVE  t \in Seq(T) /\ Len(t) = Len(s) /\ DOMAIN t = DOMAIN s
<1>1. DOMAIN s = 1..Len(s) /\ Len(s) \in Nat
  OBVIOUS
<1> QED BY <1>1

\* A sequence of families of any kind of representatives has the shape.
LEMMA ShapeOf ==
  ASSUME NEW R, NEW fs \in Seq([active : BOOLEAN, rep : R])
  PROVE  FamilyShape(fs)
<1> DEFINE S == {fs[g].rep : g \in DOMAIN fs}
<1>1. ASSUME NEW f \in DOMAIN fs
      PROVE  fs[f] \in [active : BOOLEAN, rep : S]
  <2>1. fs[f].rep \in S
    OBVIOUS
  <2> HIDE DEF S
  <2>2. fs[f] \in [active : BOOLEAN, rep : R]
    BY InSeq
  <2> QED BY <2>1, <2>2
<1> HIDE DEF S
<1>2. fs \in Seq([active : BOOLEAN, rep : S])
  BY <1>1, SeqOf
<1> QED BY <1>2 DEF FamilyShape, S

\* The representatives may be taken from any larger set.
LEMMA ShapeGives ==
  ASSUME NEW fs, FamilyShape(fs), NEW more
  PROVE  \E R : more \subseteq R /\ fs \in Seq([active : BOOLEAN, rep : R])
<1> DEFINE S == {fs[g].rep : g \in DOMAIN fs}
<1>1. fs \in Seq([active : BOOLEAN, rep : S])
  BY DEF FamilyShape
<1> HIDE DEF S
<1>2. ASSUME NEW f \in DOMAIN fs
      PROVE  fs[f] \in [active : BOOLEAN, rep : S \cup more]
  <2>1. fs[f] \in [active : BOOLEAN, rep : S]
    BY <1>1, InSeq
  <2> QED BY <2>1
<1>3. fs \in Seq([active : BOOLEAN, rep : S \cup more])
  BY <1>1, <1>2, SeqOf
<1> QED BY <1>3

\* A new representative leaves every family as active as it was.
LEMMA Represents ==
  ASSUME NEW fs, FamilyShape(fs), NEW f, NEW o
  PROVE  /\ FamilyShape([fs EXCEPT ![f].rep = o])
         /\ Active([fs EXCEPT ![f].rep = o]) = Active(fs)
         /\ Len([fs EXCEPT ![f].rep = o]) = Len(fs)
<1> DEFINE gs == [fs EXCEPT ![f].rep = o]
<1>1. PICK R : {o} \subseteq R /\ fs \in Seq([active : BOOLEAN, rep : R])
  BY ShapeGives
<1>2. ASSUME NEW i \in DOMAIN fs
      PROVE  gs[i] \in [active : BOOLEAN, rep : R] /\ gs[i].active = fs[i].active
  <2>1. fs[i] \in [active : BOOLEAN, rep : R]
    BY <1>1, InSeq
  <2>2. gs[i] = IF i = f THEN [fs[i] EXCEPT !.rep = o] ELSE fs[i]
    OBVIOUS
  <2> QED BY <1>1, <2>1, <2>2
<1>3. gs = [i \in DOMAIN fs |-> gs[i]]
  OBVIOUS
<1>4. gs \in Seq([active : BOOLEAN, rep : R]) /\ Len(gs) = Len(fs) /\ DOMAIN gs = DOMAIN fs
  <2> DEFINE T == [active : BOOLEAN, rep : R]
  <2>1. fs \in Seq(T) /\ \A i \in DOMAIN fs : gs[i] \in T
    BY <1>1, <1>2
  <2> HIDE DEF T, gs
  <2>2. gs \in Seq(T) /\ Len(gs) = Len(fs) /\ DOMAIN gs = DOMAIN fs
    BY <1>3, <2>1, LikeSeq
  <2> QED BY <2>2 DEF T
<1> QED BY <1>2, <1>4, ShapeOf DEF Active

LEMMA PrefersAndInherits ==
  ASSUME NEW fs, FamilyShape(fs), NEW f, NEW o
  PROVE  /\ FamilyShape(Preferred(fs, f, o)) /\ FamilyShape(Inherit(fs, f, o))
         /\ Active(Preferred(fs, f, o)) = Active(fs) /\ Active(Inherit(fs, f, o)) = Active(fs)
         /\ Len(Preferred(fs, f, o)) = Len(fs) /\ Len(Inherit(fs, f, o)) = Len(fs)
BY Represents DEF Preferred, Inherit

\* A merge closes a family, a split opens one.
LEMMA Closes ==
  ASSUME NEW fs, FamilyShape(fs), NEW f
  PROVE  /\ FamilyShape([fs EXCEPT ![f].active = FALSE])
         /\ Active([fs EXCEPT ![f].active = FALSE]) = Active(fs) \ {f}
<1> DEFINE gs == [fs EXCEPT ![f].active = FALSE]
<1>1. PICK R : {} \subseteq R /\ fs \in Seq([active : BOOLEAN, rep : R])
  BY ShapeGives
<1>2. ASSUME NEW i \in DOMAIN fs
      PROVE  gs[i] \in [active : BOOLEAN, rep : R] /\ (gs[i].active <=> fs[i].active /\ i # f)
  <2>1. fs[i] \in [active : BOOLEAN, rep : R]
    BY <1>1, InSeq
  <2>2. gs[i] = IF i = f THEN [fs[i] EXCEPT !.active = FALSE] ELSE fs[i]
    OBVIOUS
  <2> QED BY <2>1, <2>2
<1>3. gs = [i \in DOMAIN fs |-> gs[i]]
  OBVIOUS
<1>4. gs \in Seq([active : BOOLEAN, rep : R]) /\ DOMAIN gs = DOMAIN fs
  <2> DEFINE T == [active : BOOLEAN, rep : R]
  <2>1. fs \in Seq(T) /\ \A i \in DOMAIN fs : gs[i] \in T
    BY <1>1, <1>2
  <2> HIDE DEF T, gs
  <2>2. gs \in Seq(T) /\ DOMAIN gs = DOMAIN fs
    BY <1>3, <2>1, LikeSeq
  <2> QED BY <2>2 DEF T
<1> QED BY <1>2, <1>4, ShapeOf DEF Active

LEMMA Opens ==
  ASSUME NEW fs, FamilyShape(fs), NEW o
  PROVE  FamilyShape(NewFamily(fs, o)) /\ Active(NewFamily(fs, o)) = Active(fs) \cup {Len(fs) + 1}
<1> DEFINE new == [active |-> TRUE, rep |-> o]
<1>1. PICK R : {o} \subseteq R /\ fs \in Seq([active : BOOLEAN, rep : R])
  BY ShapeGives
<1>2. new \in [active : BOOLEAN, rep : R] /\ new.active
  BY <1>1
<1> HIDE DEF new
<1>3. /\ Append(fs, new) \in Seq([active : BOOLEAN, rep : R])
      /\ DOMAIN Append(fs, new) = DOMAIN fs \cup {Len(fs) + 1} /\ Len(fs) + 1 \notin DOMAIN fs
      /\ Append(fs, new)[Len(fs) + 1] = new /\ \A i \in DOMAIN fs : Append(fs, new)[i] = fs[i]
  BY <1>1, <1>2
<1>4. NewFamily(fs, o) = Append(fs, new)
  BY DEF NewFamily, new
<1> QED BY <1>2, <1>3, <1>4, ShapeOf DEF Active

\* The founders of new families are numbered from one on.
LEMMA Ranks ==
  ASSUME NEW cs \in SUBSET Option, NEW as, DOMAIN as = cs
  PROVE  /\ IsFiniteSet(Founders(as)) /\ Cardinality(Founders(as)) \in Nat
         /\ \A o \in Founders(as) : Rank(as, o) \in 1..Cardinality(Founders(as))
<1>1. Founders(as) \subseteq cs
  BY DEF Founders
<1>2. Founders(as) \subseteq Nat /\ IsFiniteSet(Founders(as))
  BY <1>1, FS_Subset, OptionAssumption
<1>3. ASSUME NEW o \in Founders(as)
      PROVE  Rank(as, o) \in 1..Cardinality(Founders(as))
  <2> DEFINE below == {x \in Founders(as) : x <= o}
  <2>0. o \in Nat
    BY <1>2
  <2>1. below \subseteq Founders(as) /\ o \in below
    <3>1. o <= o
      BY <2>0
    <3> QED BY <3>1
  <2> HIDE DEF below
  <2>2. IsFiniteSet(below) /\ Cardinality(below) <= Cardinality(Founders(as))
    BY <1>2, <2>1, FS_Subset
  <2>3. Cardinality(below) \in Nat /\ Cardinality(below) # 0
    BY <2>1, <2>2, FS_CardinalityType, FS_EmptySet
  <2>4. Cardinality(Founders(as)) \in Nat
    BY <1>2, FS_CardinalityType
  <2>5. \A k, n \in Nat : k # 0 /\ k <= n => k \in 1..n
    OBVIOUS
  <2>6. Cardinality(below) \in 1..Cardinality(Founders(as))
    BY <2>2, <2>3, <2>4, <2>5
  <2> QED BY <2>6 DEF Rank, below
<1> QED BY <1>2, <1>3, FS_CardinalityType

\* The families founded follow the others, and all are active.
LEMMA FoundedOK ==
  ASSUME NEW fs, FamilyShape(fs), NEW as, Cardinality(Founders(as)) \in Nat
  PROVE  /\ FamilyShape(Founded(fs, as))
         /\ Active(Founded(fs, as)) = Active(fs) \cup (Len(fs) + 1..Len(fs) + Cardinality(Founders(as)))
<1> DEFINE n == Cardinality(Founders(as))
           first(i) == CHOOSE o \in Founders(as) : Rank(as, o) = i
           new == [i \in 1..n |-> [active |-> TRUE, rep |-> first(i)]]
           firsts == {first(i) : i \in 1..n}
<1>1. Founded(fs, as) = fs \o new
  BY DEF Founded
<1>2. \A i \in 1..n : first(i) \in firsts
  OBVIOUS
<1> HIDE DEF firsts, first
<1>3. PICK R : firsts \subseteq R /\ fs \in Seq([active : BOOLEAN, rep : R])
  BY ShapeGives
<1>4. \A i \in 1..n : new[i] \in [active : BOOLEAN, rep : R] /\ new[i].active
  BY <1>2, <1>3
<1>5. n \in Nat
  OBVIOUS
<1>6. new \in Seq([active : BOOLEAN, rep : R]) /\ Len(new) = n
  <2> HIDE DEF n
  <2> DEFINE T == [active : BOOLEAN, rep : R]
  <2>1. \A i \in 1..n : new[i] \in T
    BY <1>4
  <2> HIDE DEF T
  <2>2. new \in Seq(T) /\ Len(new) = n
    BY <1>5, <2>1
  <2> QED BY <2>2 DEF T
<1> HIDE DEF new, n
<1>7. fs \o new \in Seq([active : BOOLEAN, rep : R]) /\ Len(fs \o new) = Len(fs) + n
  BY <1>3, <1>6
<1>8. /\ Len(fs) \in Nat /\ DOMAIN fs = 1..Len(fs)
      /\ DOMAIN (fs \o new) = 1..Len(fs) + n
  BY <1>3, <1>7
<1>9. \A i \in 1..Len(fs) : (fs \o new)[i] = fs[i]
  BY <1>3, <1>6
<1>10. \A i \in Len(fs) + 1..Len(fs) + n : (fs \o new)[i] = new[i - Len(fs)] /\ i - Len(fs) \in 1..n
  BY <1>3, <1>5, <1>6, <1>8
<1>11. Active(fs \o new) = Active(fs) \cup (Len(fs) + 1..Len(fs) + n)
  <2>1. \A i \in 1..Len(fs) + n : i \in 1..Len(fs) \/ i \in Len(fs) + 1..Len(fs) + n
    BY <1>5, <1>8
  <2>2. \A i \in Len(fs) + 1..Len(fs) + n : i \in 1..Len(fs) + n /\ (fs \o new)[i].active
    BY <1>4, <1>5, <1>8, <1>10
  <2>3. \A i \in 1..Len(fs) : i \in 1..Len(fs) + n /\ (fs \o new)[i].active = fs[i].active
    BY <1>5, <1>8, <1>9
  <2> QED BY <1>8, <2>1, <2>2, <2>3 DEF Active
<1> QED BY <1>1, <1>7, <1>11, ShapeOf DEF n

LEMMA RepresentedOK ==
  ASSUME NEW fs, FamilyShape(fs), NEW as
  PROVE  FamilyShape(Represented(fs, as)) /\ Active(Represented(fs, as)) = Active(fs)
<1> DEFINE joined(f) == {o \in DOMAIN as : as[o] = Joins(f) /\ Countable(o)}
           first(f) == CHOOSE o \in joined(f) : \A x \in joined(f) : o <= x
           firsts == {first(f) : f \in DOMAIN fs}
           takesOver(f) == joined(f) # {} /\ ~Countable(fs[f].rep)
           gs == [f \in DOMAIN fs |-> IF takesOver(f) THEN [fs[f] EXCEPT !.rep = first(f)] ELSE fs[f]]
<1>1. Represented(fs, as) = gs
  BY DEF Represented
<1>2. \A f \in DOMAIN fs : first(f) \in firsts
  OBVIOUS
<1> HIDE DEF first, firsts, joined, takesOver
<1>3. PICK R : firsts \subseteq R /\ fs \in Seq([active : BOOLEAN, rep : R])
  BY ShapeGives
<1>4. ASSUME NEW f \in DOMAIN fs
      PROVE  gs[f] \in [active : BOOLEAN, rep : R] /\ gs[f].active = fs[f].active
  <2>1. fs[f] \in [active : BOOLEAN, rep : R] /\ first(f) \in R
    BY <1>2, <1>3, InSeq
  <2>2. gs[f] = IF takesOver(f) THEN [fs[f] EXCEPT !.rep = first(f)] ELSE fs[f]
    OBVIOUS
  <2> QED BY <2>1, <2>2
<1>5. gs = [f \in DOMAIN fs |-> gs[f]]
  OBVIOUS
<1>6. gs \in Seq([active : BOOLEAN, rep : R]) /\ DOMAIN gs = DOMAIN fs
  <2> HIDE DEF gs
  <2> QED BY <1>3, <1>4, <1>5, LikeSeq
<1> QED BY <1>1, <1>4, <1>6, ShapeOf DEF Active

-----------------------------------------------------------------------------
(* The steps that change families.                                         *)

LEMMA RowIs ==
  ASSUME NEW o \in Option, NEW f \in Nat, NEW state \in {"accepted", "unresolved"}
  PROVE  /\ Row(o, f, state) \in Rows
         /\ Row(o, f, state).option = o /\ Row(o, f, state).family = f /\ Row(o, f, state).state = state
BY DEF Row, Rows

\* Candidates nobody decided on, each unsure, on its own, or in a family that is there.
LEMMA ApplyOK ==
  ASSUME FamiliesOK, NEW cs \in SUBSET Option, NEW as, DOMAIN as = cs, cs \cap Decided(decision) = {},
         \A o \in cs :
           \/ as[o] = Unsure \/ as[o] = Own
           \/ \E f \in Active(family) \cup (Len(family) + 1..Len(family) + Cardinality(Founders(as))) :
                as[o] = Joins(f),
         ApplyDecisions(as)
  PROVE  FamiliesOK' /\ Active(family) \subseteq Active(family)' /\ Decided(decision)' = Decided(decision) \cup cs
<1> DEFINE n == Cardinality(Founders(as))
           place(o) == PlaceOf(family, as, o)
<1>1. n \in Nat /\ \A o \in Founders(as) : Rank(as, o) \in 1..n
  BY Ranks
<1>2. Len(family) \in Nat /\ DOMAIN family = 1..Len(family)
  BY DEF FamiliesOK, FamilyShape
<1> HIDE DEF n
<1>3. FamilyShape(family)' /\ Active(family)' = Active(family) \cup (Len(family) + 1..Len(family) + n)
  BY <1>1, FoundedOK, RepresentedOK DEF FamiliesOK, ApplyDecisions, n
<1>4. Active(family)' \subseteq Nat
  BY <1>1, <1>2, <1>3 DEF Active
<1>5. ASSUME NEW o \in cs
      PROVE  /\ place(o) \in Rows /\ place(o).option = o
             /\ place(o).state = "accepted" => place(o).family \in Active(family)'
  <2> SUFFICES \E f \in Nat :
        place(o) = Row(o, f, "unresolved") \/ (place(o) = Row(o, f, "accepted") /\ f \in Active(family)')
    <3> HIDE DEF place
    <3>1. \A f \in Nat, state \in {"accepted", "unresolved"} :
            /\ Row(o, f, state) \in Rows /\ Row(o, f, state).option = o
            /\ Row(o, f, state).family = f /\ Row(o, f, state).state = state
      BY RowIs
    <3> QED BY <3>1
  <2>1. CASE as[o] = Unsure
    <3>1. place(o) = Row(o, 0, "unresolved")
      BY <2>1 DEF PlaceOf, Own, Unsure
    <3>2. 0 \in Nat
      OBVIOUS
    <3> HIDE DEF place
    <3> QED BY <3>1, <3>2
  <2>2. CASE as[o] = Own
    <3>1. Rank(as, o) \in 1..n
      BY <1>1, <2>2 DEF Founders
    <3>2. \A l, m \in Nat : \A k \in 1..m : l + k \in l + 1..l + m
      OBVIOUS
    <3>3. Len(family) + Rank(as, o) \in Active(family)'
      <4>1. Len(family) + Rank(as, o) \in Len(family) + 1..Len(family) + n
        BY <1>1, <1>2, <3>1, <3>2
      <4> QED BY <1>3, <4>1
    <3>4. place(o) = Row(o, Len(family) + Rank(as, o), "accepted")
      BY <2>2 DEF PlaceOf, Own, Unsure
    <3> HIDE DEF place
    <3> QED BY <1>4, <3>3, <3>4
  <2>3. ASSUME NEW f \in Active(family)', as[o] = Joins(f)
        PROVE  place(o) = Row(o, f, "accepted") /\ f \in Nat
    BY <1>4, <2>3 DEF PlaceOf, Joins, Own, Unsure
  <2>4. as[o] = Unsure \/ as[o] = Own \/ \E f \in Active(family)' : as[o] = Joins(f)
    BY <1>3 DEF n
  <2> HIDE DEF place
  <2> QED BY <1>4, <2>1, <2>2, <2>3, <2>4
<1>6. decision' = decision \cup {place(o) : o \in cs}
  BY DEF ApplyDecisions
<1> HIDE DEF place
<1>7. decision' \subseteq Rows
  BY <1>5, <1>6 DEF FamiliesOK
<1>8. DecidedOnce'
  <2>1. \A d \in decision, o \in cs : d.option # place(o).option
    BY <1>5 DEF Decided
  <2>2. \A d, e \in decision : d.option = e.option => d = e
    BY DEF FamiliesOK, DecidedOnce
  <2>3. \A o, x \in cs : place(o).option = place(x).option => place(o) = place(x)
    BY <1>5
  <2> QED BY <1>6, <2>1, <2>2, <2>3 DEF DecidedOnce
<1>9. MergedStaysEmpty'
  BY <1>3, <1>5, <1>6 DEF FamiliesOK, MergedStaysEmpty
<1>10. Decided(decision)' = Decided(decision) \cup cs
  BY <1>5, <1>6 DEF Decided
<1> QED BY <1>3, <1>7, <1>8, <1>9, <1>10 DEF FamiliesOK

\* A row takes the place of another of the same idea, and no family goes away.
LEMMA PlacedAnew ==
  ASSUME FamiliesOK, NEW d \in decision, NEW to \in Rows, to.option = d.option,
         decision' = (decision \ {d}) \cup {to},
         FamilyShape(family)', Active(family) \subseteq Active(family)',
         to.state = "accepted" => to.family \in Active(family)'
  PROVE  FamiliesOK' /\ Decided(decision)' = Decided(decision)
<1>1. decision' \subseteq Rows
  BY DEF FamiliesOK
<1>2. DecidedOnce'
  BY DEF FamiliesOK, DecidedOnce
<1>3. MergedStaysEmpty'
  BY DEF FamiliesOK, MergedStaysEmpty
<1>4. Decided(decision)' = Decided(decision)
  BY DEF Decided
<1> QED BY <1>1, <1>2, <1>3, <1>4 DEF FamiliesOK

\* The owner's edits: whatever is merged, moved, split or marked, each idea keeps one place.
LEMMA EditOK ==
  ASSUME FamiliesOK, EditMembership
  PROVE  FamiliesOK' /\ Decided(decision)' = Decided(decision)
<1>1. ASSUME NEW f \in Active(family), NEW g \in Active(family), Merge(f, g)
      PROVE  FamiliesOK' /\ Decided(decision)' = Decided(decision)
  <2> DEFINE moved == Members(decision, f)
             after(d) == IF d.option \in moved THEN [d EXCEPT !.family = g] ELSE d
  <2>1. decision' = {after(d) : d \in decision} /\ f # g
    BY <1>1 DEF Merge
  <2>2. PICK o : family' = [(IF o = 0 THEN family ELSE Preferred(family, g, o)) EXCEPT ![f].active = FALSE]
    BY <1>1 DEF Merge
  <2>3. FamilyShape(family)' /\ Active(family)' = Active(family) \ {f}
    <3> DEFINE fs == IF o = 0 THEN family ELSE Preferred(family, g, o)
    <3>1. FamilyShape(fs) /\ Active(fs) = Active(family)
      BY PrefersAndInherits DEF FamiliesOK
    <3> HIDE DEF fs
    <3>2. FamilyShape([fs EXCEPT ![f].active = FALSE]) /\ Active([fs EXCEPT ![f].active = FALSE]) = Active(fs) \ {f}
      BY <3>1, Closes
    <3> QED BY <2>2, <3>1, <3>2 DEF fs
  <2>4. Active(family) \subseteq Nat
    BY DEF FamiliesOK, FamilyShape, Active
  <2>5. ASSUME NEW d \in decision
        PROVE  /\ after(d) \in Rows /\ after(d).option = d.option
               /\ after(d).state = "accepted" => after(d).family \in Active(family)'
    <3>1. d \in Rows
      BY DEF FamiliesOK
    <3>2. CASE d.option \in moved
      BY <2>1, <2>3, <2>4, <3>1, <3>2 DEF Rows
    <3>3. CASE d.option \notin moved
      <4>1. d.state = "accepted" => d.family \in Active(family) /\ d.family # f
        BY <3>3 DEF FamiliesOK, MergedStaysEmpty, Members
      <4> QED BY <2>3, <3>1, <3>3, <4>1
    <3> QED BY <3>2, <3>3
  <2> HIDE DEF after
  <2>6. decision' \subseteq Rows
    BY <2>1, <2>5
  <2>7. DecidedOnce'
    <3>1. \A d, e \in decision : d.option = e.option => d = e
      BY DEF FamiliesOK, DecidedOnce
    <3>2. \A d, e \in decision : after(d).option = after(e).option => after(d) = after(e)
      BY <2>5, <3>1
    <3> QED BY <2>1, <3>2 DEF DecidedOnce
  <2>8. MergedStaysEmpty'
    BY <2>1, <2>5 DEF MergedStaysEmpty
  <2>9. Decided(decision)' = Decided(decision)
    BY <2>1, <2>5 DEF Decided
  <2> QED BY <2>3, <2>6, <2>7, <2>8, <2>9 DEF FamiliesOK
<1>2. ASSUME NEW d \in decision, MarkUncertain(d)
      PROVE  FamiliesOK' /\ Decided(decision)' = Decided(decision)
  <2>1. d \in Rows /\ FamilyShape(family)
    BY DEF FamiliesOK
  <2> DEFINE to == Row(d.option, d.family, "unresolved")
  <2>2. PICK heir \in HeirsOf(d) : decision' = (decision \ {d}) \cup {to} /\ family' = Inherit(family, d.family, heir)
    BY <1>2 DEF MarkUncertain, Leave
  <2>3. to \in Rows /\ to.option = d.option /\ to.state # "accepted"
    BY <2>1, RowIs DEF Rows
  <2>4. FamilyShape(family)' /\ Active(family)' = Active(family)
    BY <2>1, <2>2, PrefersAndInherits
  <2> HIDE DEF to
  <2> QED BY <2>2, <2>3, <2>4, PlacedAnew
<1>3. ASSUME NEW d \in decision, Split(d)
      PROVE  FamiliesOK' /\ Decided(decision)' = Decided(decision)
  <2>1. d \in Rows /\ FamilyShape(family) /\ Len(family) \in Nat
    BY DEF FamiliesOK, FamilyShape
  <2> DEFINE to == Row(d.option, Len(family) + 1, "accepted")
  <2>2. PICK heir \in HeirsOf(d) : /\ decision' = (decision \ {d}) \cup {to}
                                   /\ family' = NewFamily(Inherit(family, d.family, heir), d.option)
    BY <1>3 DEF Split, Leave
  <2>3. to \in Rows /\ to.option = d.option /\ to.family = Len(family) + 1
    BY <2>1, RowIs DEF Rows
  <2>4. FamilyShape(family)' /\ Active(family)' = Active(family) \cup {Len(family) + 1}
    BY <2>1, <2>2, PrefersAndInherits, Opens
  <2> HIDE DEF to
  <2> QED BY <2>2, <2>3, <2>4, PlacedAnew
<1>4. ASSUME NEW d \in decision, NEW g \in Active(family), Move(d, g)
      PROVE  FamiliesOK' /\ Decided(decision)' = Decided(decision)
  <2>1. d \in Rows /\ FamilyShape(family) /\ g \in Nat
    BY DEF FamiliesOK, FamilyShape, Active
  <2> DEFINE to == Row(d.option, g, "accepted")
  <2>2. to \in Rows /\ to.option = d.option /\ to.family = g
    BY <2>1, RowIs DEF Rows
  <2>3. /\ decision' = (decision \ {d}) \cup {to}
        /\ FamilyShape(family)' /\ Active(family)' = Active(family)
    <3>1. CASE d.family = g
      BY <1>4, <2>1, <3>1, PrefersAndInherits DEF Move
    <3>2. CASE d.family # g
      <4>1. PICK heir \in HeirsOf(d) : /\ decision' = (decision \ {d}) \cup {to}
                                       /\ family' = Preferred(Inherit(family, d.family, heir), g, d.option)
        BY <1>4, <3>2 DEF Move, Leave
      <4> QED BY <2>1, <4>1, PrefersAndInherits
    <3> QED BY <3>1, <3>2
  <2> HIDE DEF to
  <2> QED BY <2>2, <2>3, PlacedAnew
<1> QED BY <1>1, <1>2, <1>3, <1>4 DEF EditMembership

-----------------------------------------------------------------------------
(* The exploration.                                                        *)

Statuses == Terminal \cup {"none", "mapping-coverage", "generating-batch", "reviewing-batch"}
\* Fields that do not matter here are of any value.
ExplShape ==
  expl \in [status : Statuses, calls : {expl.calls}, searches : {expl.searches}, raw : {expl.raw},
            rounds : {expl.rounds}, maxCalls : {expl.maxCalls}, maxSearches : {expl.maxSearches}]
WorldShape ==
  world \in [late : {world.late}, launches : {world.launches}, events : {world.events}, session : SUBSET option]
TaskShape ==
  task \in [kind : {"none", "review", "experiment", "exploration"}, stop : {task.stop}, at : {task.at},
            ack : {task.ack}, key : {task.key}, then : {task.then}, todo : Seq(SUBSET option),
            view : {task.view}, chunk : Nat, fix : {task.fix}, call : {task.call}, error : {task.error}]

\* A batch under review is of saved ideas, and the families it is compared with are still
\* there: nothing but the review and the sessions, which only add families, works beside it.
ViewLives == task.chunk # 0 => \A v \in task.view.shown : v[1] \in Active(family)
\* Where a task is tells what it is about: a batch it compares, a call of a stage, or none.
Sound(t) ==
  /\ t.at \in {"identity", "apply"} \/ t.call # 0 => t.chunk # 0 /\ t.todo # <<>>
  /\ t.at \in {"next", "identity", "apply"} \/ t.call # 0 => t.then[1] \in {"saved", "open", "batch"}
  /\ t.at \in {"begin", "next", "identity", "apply", "plan"} \/ t.call # 0 => t.key = NoKey
  /\ t.at \in {"begin", "next", "identity", "apply", "plan", "answered"} => t.call = 0
TaskInv ==
  /\ TaskShape /\ ViewLives /\ Sound(task)
  /\ task.kind = "none" => task = NoTask

ExplorationInv == TypeOK /\ FamiliesOK /\ ExplShape /\ WorldShape /\ TaskInv

LEMMA InitInv == Init => ExplorationInv
<1> SUFFICES ASSUME Init PROVE ExplorationInv
  OBVIOUS
<1>1. option \subseteq Option /\ origin \subseteq option /\ discarded = {} /\ decision = {} /\ family = <<>>
  BY ExplorationAssumption DEF Init, FamiliesInit
<1>2. expl.status = "none" /\ ExplShape
  BY DEF Init, ExplShape, Statuses
<1>3. WorldShape
  BY DEF Init, WorldShape
<1>4. task = NoTask /\ TaskShape
  BY DEF Init, TaskShape, NoTask
<1>5. TaskInv
  BY <1>4 DEF TaskInv, ViewLives, Sound, NoTask
<1>6. FamiliesOK
  <2>1. FamilyShape(family)
    BY <1>1 DEF FamilyShape
  <2> QED BY <1>1, <2>1 DEF FamiliesOK, DecidedOnce, MergedStaysEmpty
<1>7. TypeOK
  BY <1>1, <1>2, <1>4 DEF TypeOK, Decided, Statuses, NoTask
<1> QED BY <1>2, <1>3, <1>5, <1>6, <1>7 DEF ExplorationInv

\* What a review has still to compare are batches of saved ideas.
LEMMA BatchesOK ==
  ASSUME TypeOK
  PROVE  Batches(Unreviewed) \in Seq(SUBSET option)
<1>1. IsFiniteSet(Unreviewed) /\ Unreviewed \subseteq option
  BY FS_Subset, OptionAssumption DEF TypeOK, Unreviewed
<1>2. Cardinality(Unreviewed) \in Nat
  BY <1>1, FS_CardinalityType
<1> DEFINE n == (Cardinality(Unreviewed) + PerReview - 1) \div PerReview
           batch_(i) == {o \in Unreviewed : Place(o, Unreviewed) \in (i - 1) * PerReview + 1..i * PerReview}
<1>3. n \in Nat
  <2>1. \A c \in Nat, p \in Nat \ {0} : (c + p - 1) \div p \in Nat
    OBVIOUS
  <2> QED BY <1>2, <2>1, ExplorationAssumption
<1>4. \A i \in 1..n : batch_(i) \in SUBSET option
  BY <1>1
<1>5. Batches(Unreviewed) = [i \in 1..n |-> batch_(i)]
  BY DEF Batches
<1> HIDE DEF n, batch_
<1> QED BY <1>3, <1>4, <1>5

\* A task that is left alone, one that is over, and one that is launched.
LEMMA TaskRests ==
  ASSUME ExplorationInv, option \subseteq option',
         \/ task' = task /\ (Active(family) \subseteq Active(family)' \/ task.kind = "none")
         \/ task' = NoTask
         \/ \E kind \in {"review", "experiment", "exploration"}, ack \in BOOLEAN : task' = Launched(kind, ack)
  PROVE  TaskInv'
<1>1. CASE task' = task /\ (Active(family) \subseteq Active(family)' \/ task.kind = "none")
  <2>1. TaskShape'
    BY <1>1 DEF ExplorationInv, TaskInv, TaskShape
  <2>2. ViewLives'
    BY <1>1 DEF ExplorationInv, TaskInv, ViewLives, NoTask
  <2>3. Sound(task)' /\ (task'.kind = "none" => task' = NoTask)
    BY <1>1 DEF ExplorationInv, TaskInv, Sound
  <2> QED BY <2>1, <2>2, <2>3 DEF TaskInv, NoTask
<1>2. CASE task' = NoTask
  BY <1>2 DEF TaskInv, TaskShape, ViewLives, Sound, NoTask
<1>3. ASSUME NEW kind \in {"review", "experiment", "exploration"}, NEW ack \in BOOLEAN, task' = Launched(kind, ack)
      PROVE  TaskInv'
  <2>1. PICK at_ \in {"begin", "away"} : task' = [NoTask EXCEPT !.kind = kind, !.ack = ack, !.at = at_]
    BY <1>3 DEF Launched
  <2>2. /\ task' = [kind |-> kind, stop |-> "no", at |-> at_, ack |-> ack, key |-> <<"none", 0>>, then |-> <<"none", 0>>,
                    todo |-> <<>>, view |-> <<>>, chunk |-> 0, fix |-> 0, call |-> 0, error |-> "none"]
    BY <2>1 DEF NoTask
  <2>3. TaskShape'
    <3>1. <<>> \in Seq(SUBSET option')
      OBVIOUS
    <3> QED BY <2>2, <3>1 DEF TaskShape
  <2>4. Sound(task)' /\ task'.kind # "none" /\ task'.chunk = 0
    BY <2>2 DEF Sound, NoKey, NoTask
  <2> QED BY <2>3, <2>4 DEF TaskInv, ViewLives
<1> QED BY <1>1, <1>2, <1>3

\* A task that goes on with the batch it compares, or with none.
LEMMA TaskGoesOn ==
  ASSUME ExplorationInv, task.kind # "none", option \subseteq option', Active(family) \subseteq Active(family)',
         NEW t, task' = t, t = [x \in DOMAIN NoTask |-> t[x]], t.kind = task.kind, t.view = task.view,
         t.todo \in Seq(SUBSET option), t.chunk \in Nat, task.chunk # 0 <=> t.chunk # 0, Sound(t)
  PROVE  TaskInv'
<1>1. TaskShape'
  <2>1. t.todo \in Seq(SUBSET option')
    OBVIOUS
  <2>2. DOMAIN NoTask = {"kind", "stop", "at", "ack", "key", "then", "todo", "view", "chunk", "fix", "call", "error"}
    BY DEF NoTask
  <2>3. t.kind \in {"none", "review", "experiment", "exploration"}
    BY DEF ExplorationInv, TaskInv, TaskShape
  <2> QED BY <2>1, <2>2, <2>3 DEF TaskShape
<1>2. ViewLives'
  BY DEF ExplorationInv, TaskInv, ViewLives
<1> QED BY <1>1, <1>2 DEF TaskInv

LEMMA TaskFields ==
  ASSUME ExplorationInv
  PROVE  /\ DOMAIN task = DOMAIN NoTask
         /\ task.kind = "none" => task.at = "idle" /\ task.chunk = 0 /\ task.call = 0
         /\ task.todo \in Seq(SUBSET option) /\ task.chunk \in Nat /\ Sound(task)
BY DEF ExplorationInv, TaskInv, TaskShape, NoTask

\* The steps of a task: every one leaves it where it belongs.
LEMMA OpenReviewKeepsTask ==
  ASSUME ExplorationInv, option \subseteq option', Active(family) \subseteq Active(family)',
         NEW then, then[1] \in {"saved", "open", "batch"}, OpenReview(then), task.at \in {"begin", "plan"}
  PROVE  TaskInv'
<1>1. /\ DOMAIN task = DOMAIN NoTask /\ task.todo \in Seq(SUBSET option) /\ task.chunk \in Nat /\ Sound(task)
      /\ task.kind = "none" => task.at = "idle" /\ task.call = 0
      /\ DOMAIN NoTask = {"kind", "stop", "at", "ack", "key", "then", "todo", "view", "chunk", "fix", "call", "error"}
  BY TaskFields DEF NoTask
<1>2. Batches(Unreviewed) \in Seq(SUBSET option)
  BY BatchesOK DEF ExplorationInv
<1>3. CASE task' = [Throw("other") EXCEPT !.then = then]
  <2> DEFINE t == [Throw("other") EXCEPT !.then = then]
  <2>1. t = [x \in DOMAIN NoTask |-> t[x]]
    BY <1>1 DEF Throw
  <2>2. /\ t.kind = task.kind /\ t.view = task.view /\ t.todo = task.todo /\ t.chunk = task.chunk
        /\ t.at = "throw" /\ t.call = task.call /\ t.key = task.key /\ t.then = then
    BY <1>1 DEF Throw
  <2>3. Sound(t)
    BY <1>1, <2>2 DEF Sound
  <2>4. task' = t
    BY <1>3
  <2> HIDE DEF t
  <2> QED BY <1>1, <2>1, <2>2, <2>3, <2>4, TaskGoesOn
<1>4. CASE task' = [At("next") EXCEPT !.then = then, !.todo = Batches(Unreviewed)]
  <2> DEFINE t == [At("next") EXCEPT !.then = then, !.todo = Batches(Unreviewed)]
  <2>1. t = [x \in DOMAIN NoTask |-> t[x]]
    BY <1>1 DEF At
  <2>2. /\ t.kind = task.kind /\ t.view = task.view /\ t.todo = Batches(Unreviewed) /\ t.chunk = task.chunk
        /\ t.at = "next" /\ t.call = task.call /\ t.key = task.key /\ t.then = then
    BY <1>1 DEF At
  <2>3. Sound(t)
    BY <1>1, <1>2, <2>2 DEF Sound
  <2>4. task' = t
    BY <1>4
  <2> HIDE DEF t
  <2> QED BY <1>1, <1>2, <2>1, <2>2, <2>3, <2>4, TaskGoesOn
<1> QED BY <1>3, <1>4 DEF OpenReview

LEMMA ThrowKeepsTask ==
  ASSUME ExplorationInv, option \subseteq option', Active(family) \subseteq Active(family)',
         task.at # "idle", NEW error, task' = Throw(error)
  PROVE  TaskInv'
<1>1. /\ DOMAIN task = DOMAIN NoTask /\ task.todo \in Seq(SUBSET option) /\ task.chunk \in Nat /\ Sound(task)
      /\ task.kind = "none" => task.at = "idle" /\ task.call = 0
      /\ DOMAIN NoTask = {"kind", "stop", "at", "ack", "key", "then", "todo", "view", "chunk", "fix", "call", "error"}
  BY TaskFields DEF NoTask
<1>2. CASE task' = Throw(error)
  <2> DEFINE t == Throw(error)
  <2>1. t = [x \in DOMAIN NoTask |-> t[x]]
    BY <1>1 DEF Throw
  <2>2. /\ t.kind = task.kind /\ t.view = task.view /\ t.todo = task.todo /\ t.chunk = task.chunk
        /\ t.at = "throw" /\ t.call = task.call /\ t.key = task.key /\ t.then = task.then
    BY <1>1 DEF Throw
  <2>3. Sound(t)
    BY <1>1, <2>2 DEF Sound
  <2>4. task' = t
    BY <1>2
  <2> HIDE DEF t
  <2> QED BY <1>1, <2>1, <2>2, <2>3, <2>4, TaskGoesOn
<1> QED BY <1>2

LEMMA AskReviewKeepsTask ==
  ASSUME ExplorationInv, option \subseteq option', Active(family) \subseteq Active(family)',
         AskReview
  PROVE  TaskInv'
<1>1. /\ DOMAIN task = DOMAIN NoTask /\ task.todo \in Seq(SUBSET option) /\ task.chunk \in Nat /\ Sound(task)
      /\ task.kind = "none" => task.at = "idle" /\ task.call = 0
      /\ DOMAIN NoTask = {"kind", "stop", "at", "ack", "key", "then", "todo", "view", "chunk", "fix", "call", "error"}
  BY TaskFields DEF NoTask
<1>2. task.at = "identity" /\ task.chunk # 0 /\ task.todo # <<>> /\ task.chunk + 1 \in Nat /\ task.chunk + 1 # 0
  BY <1>1 DEF Sound, AskReview
<1>3. CASE task' = [At("identity") EXCEPT !.chunk = @ + 1, !.fix = 0]
  <2> DEFINE t == [At("identity") EXCEPT !.chunk = @ + 1, !.fix = 0]
  <2>1. t = [x \in DOMAIN NoTask |-> t[x]]
    BY <1>1 DEF At
  <2>2. /\ t.kind = task.kind /\ t.view = task.view /\ t.todo = task.todo /\ t.chunk = task.chunk + 1
        /\ t.at = "identity" /\ t.call = task.call /\ t.key = task.key /\ t.then = task.then
    BY <1>1 DEF At
  <2>3. Sound(t)
    BY <1>1, <1>2, <2>2 DEF Sound
  <2>4. task' = t
    BY <1>3
  <2> HIDE DEF t
  <2> QED BY <1>1, <1>2, <2>1, <2>2, <2>3, <2>4, TaskGoesOn
<1>4. CASE task' = At("apply")
  <2> DEFINE t == At("apply")
  <2>1. t = [x \in DOMAIN NoTask |-> t[x]]
    BY <1>1 DEF At
  <2>2. /\ t.kind = task.kind /\ t.view = task.view /\ t.todo = task.todo /\ t.chunk = task.chunk
        /\ t.at = "apply" /\ t.call = task.call /\ t.key = task.key /\ t.then = task.then
    BY <1>1 DEF At
  <2>3. Sound(t)
    BY <1>1, <1>2, <2>2 DEF Sound
  <2>4. task' = t
    BY <1>4
  <2> HIDE DEF t
  <2> QED BY <1>1, <1>2, <2>1, <2>2, <2>3, <2>4, TaskGoesOn
<1>5. CASE task' = [At("asking") EXCEPT !.call = Len(review) + 1]
  <2> DEFINE t == [At("asking") EXCEPT !.call = Len(review) + 1]
  <2>1. t = [x \in DOMAIN NoTask |-> t[x]]
    BY <1>1 DEF At
  <2>2. /\ t.kind = task.kind /\ t.view = task.view /\ t.todo = task.todo /\ t.chunk = task.chunk
        /\ t.at = "asking" /\ t.call = Len(review) + 1 /\ t.key = task.key /\ t.then = task.then
    BY <1>1 DEF At
  <2>3. Sound(t)
    BY <1>1, <1>2, <2>2 DEF Sound
  <2>4. task' = t
    BY <1>5
  <2> HIDE DEF t
  <2> QED BY <1>1, <1>2, <2>1, <2>2, <2>3, <2>4, TaskGoesOn
<1>6. ASSUME NEW error, task' = Throw(error)
      PROVE  TaskInv'
  BY <1>2, <1>6, ThrowKeepsTask
<1> QED BY <1>3, <1>4, <1>5, <1>6 DEF AskReview, ChunkDone

LEMMA AnswerReviewKeepsTask ==
  ASSUME ExplorationInv, option \subseteq option', Active(family) \subseteq Active(family)',
         NEW valid \in BOOLEAN, AnswerReview(valid)
  PROVE  TaskInv'
<1>1. /\ DOMAIN task = DOMAIN NoTask /\ task.todo \in Seq(SUBSET option) /\ task.chunk \in Nat /\ Sound(task)
      /\ task.kind = "none" => task.at = "idle" /\ task.call = 0
      /\ DOMAIN NoTask = {"kind", "stop", "at", "ack", "key", "then", "todo", "view", "chunk", "fix", "call", "error"}
  BY TaskFields DEF NoTask
<1>2. task.at = "answering" /\ task.call # 0 /\ task.chunk # 0 /\ task.todo # <<>> /\ task.chunk + 1 \in Nat /\ task.chunk + 1 # 0
  BY <1>1 DEF Sound, AnswerReview
<1>3. CASE task' = [[At("identity") EXCEPT !.chunk = @ + 1, !.fix = 0] EXCEPT !.call = 0]
  <2> DEFINE t == [[At("identity") EXCEPT !.chunk = @ + 1, !.fix = 0] EXCEPT !.call = 0]
  <2>1. t = [x \in DOMAIN NoTask |-> t[x]]
    BY <1>1 DEF At
  <2>2. /\ t.kind = task.kind /\ t.view = task.view /\ t.todo = task.todo /\ t.chunk = task.chunk + 1
        /\ t.at = "identity" /\ t.call = 0 /\ t.key = task.key /\ t.then = task.then
    BY <1>1 DEF At
  <2>3. Sound(t)
    BY <1>1, <1>2, <2>2 DEF Sound
  <2>4. task' = t
    BY <1>3
  <2> HIDE DEF t
  <2> QED BY <1>1, <1>2, <2>1, <2>2, <2>3, <2>4, TaskGoesOn
<1>4. CASE task' = [At("apply") EXCEPT !.call = 0]
  <2> DEFINE t == [At("apply") EXCEPT !.call = 0]
  <2>1. t = [x \in DOMAIN NoTask |-> t[x]]
    BY <1>1 DEF At
  <2>2. /\ t.kind = task.kind /\ t.view = task.view /\ t.todo = task.todo /\ t.chunk = task.chunk
        /\ t.at = "apply" /\ t.call = 0 /\ t.key = task.key /\ t.then = task.then
    BY <1>1 DEF At
  <2>3. Sound(t)
    BY <1>1, <1>2, <2>2 DEF Sound
  <2>4. task' = t
    BY <1>4
  <2> HIDE DEF t
  <2> QED BY <1>1, <1>2, <2>1, <2>2, <2>3, <2>4, TaskGoesOn
<1>5. CASE task' = [[At("identity") EXCEPT !.fix = task.call] EXCEPT !.call = 0]
  <2> DEFINE t == [[At("identity") EXCEPT !.fix = task.call] EXCEPT !.call = 0]
  <2>1. t = [x \in DOMAIN NoTask |-> t[x]]
    BY <1>1 DEF At
  <2>2. /\ t.kind = task.kind /\ t.view = task.view /\ t.todo = task.todo /\ t.chunk = task.chunk
        /\ t.at = "identity" /\ t.call = 0 /\ t.key = task.key /\ t.then = task.then
    BY <1>1 DEF At
  <2>3. Sound(t)
    BY <1>1, <1>2, <2>2 DEF Sound
  <2>4. task' = t
    BY <1>5
  <2> HIDE DEF t
  <2> QED BY <1>1, <1>2, <2>1, <2>2, <2>3, <2>4, TaskGoesOn
<1>6. CASE task' = [Throw("other") EXCEPT !.call = 0]
  <2> DEFINE t == [Throw("other") EXCEPT !.call = 0]
  <2>1. t = [x \in DOMAIN NoTask |-> t[x]]
    BY <1>1 DEF Throw
  <2>2. /\ t.kind = task.kind /\ t.view = task.view /\ t.todo = task.todo /\ t.chunk = task.chunk
        /\ t.at = "throw" /\ t.call = 0 /\ t.key = task.key /\ t.then = task.then
    BY <1>1 DEF Throw
  <2>3. Sound(t)
    BY <1>1, <1>2, <2>2 DEF Sound
  <2>4. task' = t
    BY <1>6
  <2> HIDE DEF t
  <2> QED BY <1>1, <1>2, <2>1, <2>2, <2>3, <2>4, TaskGoesOn
<1> QED BY <1>3, <1>4, <1>5, <1>6 DEF AnswerReview, ChunkDone

LEMMA ApplyKeepsTask ==
  ASSUME ExplorationInv, option \subseteq option', Active(family) \subseteq Active(family)',
         Apply \/ ApplyFails
  PROVE  TaskInv'
<1>1. /\ DOMAIN task = DOMAIN NoTask /\ task.todo \in Seq(SUBSET option) /\ task.chunk \in Nat /\ Sound(task)
      /\ task.kind = "none" => task.at = "idle" /\ task.call = 0
      /\ DOMAIN NoTask = {"kind", "stop", "at", "ack", "key", "then", "todo", "view", "chunk", "fix", "call", "error"}
  BY TaskFields DEF NoTask
<1>2. task.at = "apply" /\ task.todo # <<>> /\ Tail(task.todo) \in Seq(SUBSET option) /\ task.call = 0
  BY <1>1 DEF Sound, Apply, ApplyFails
<1>3. CASE task' = [At("next") EXCEPT !.todo = Tail(@)]
  <2> DEFINE t == [At("next") EXCEPT !.todo = Tail(@)]
  <2>1. t = [x \in DOMAIN NoTask |-> t[x]]
    BY <1>1 DEF At
  <2>2. /\ t.kind = task.kind /\ t.view = task.view /\ t.todo = Tail(task.todo) /\ t.chunk = task.chunk
        /\ t.at = "next" /\ t.call = task.call /\ t.key = task.key /\ t.then = task.then
    BY <1>1 DEF At
  <2>3. Sound(t)
    BY <1>1, <1>2, <2>2 DEF Sound
  <2>4. task' = t
    BY <1>3
  <2> HIDE DEF t
  <2> QED BY <1>1, <1>2, <2>1, <2>2, <2>3, <2>4, TaskGoesOn
<1>4. ASSUME NEW error, task' = Throw(error)
      PROVE  TaskInv'
  BY <1>2, <1>4, ThrowKeepsTask
<1> QED BY <1>3, <1>4 DEF Apply, ApplyFails

LEMMA ReviewDoneKeepsTask ==
  ASSUME ExplorationInv, option \subseteq option', Active(family) \subseteq Active(family)',
         ReviewDone
  PROVE  TaskInv'
<1>1. /\ DOMAIN task = DOMAIN NoTask /\ task.todo \in Seq(SUBSET option) /\ task.chunk \in Nat /\ Sound(task)
      /\ task.kind = "none" => task.at = "idle" /\ task.call = 0
      /\ DOMAIN NoTask = {"kind", "stop", "at", "ack", "key", "then", "todo", "view", "chunk", "fix", "call", "error"}
  BY TaskFields DEF NoTask
<1>2. task.at = "next" /\ task.then[1] \in {"saved", "open", "batch"} /\ task.call = 0
  BY <1>1 DEF Sound, ReviewDone
<1>3. CASE task' = [At("plan") EXCEPT !.then = NoKey]
  <2> DEFINE t == [At("plan") EXCEPT !.then = NoKey]
  <2>1. t = [x \in DOMAIN NoTask |-> t[x]]
    BY <1>1 DEF At
  <2>2. /\ t.kind = task.kind /\ t.view = task.view /\ t.todo = task.todo /\ t.chunk = task.chunk
        /\ t.at = "plan" /\ t.call = task.call /\ t.key = task.key /\ t.then = NoKey
    BY <1>1 DEF At
  <2>3. Sound(t)
    BY <1>1, <1>2, <2>2 DEF Sound
  <2>4. task' = t
    BY <1>3
  <2> HIDE DEF t
  <2> QED BY <1>1, <1>2, <2>1, <2>2, <2>3, <2>4, TaskGoesOn
<1>4. CASE task' = Throw("other")
  <2> DEFINE t == Throw("other")
  <2>1. t = [x \in DOMAIN NoTask |-> t[x]]
    BY <1>1 DEF Throw
  <2>2. /\ t.kind = task.kind /\ t.view = task.view /\ t.todo = task.todo /\ t.chunk = task.chunk
        /\ t.at = "throw" /\ t.call = task.call /\ t.key = task.key /\ t.then = task.then
    BY <1>1 DEF Throw
  <2>3. Sound(t)
    BY <1>1, <1>2, <2>2 DEF Sound
  <2>4. task' = t
    BY <1>4
  <2> HIDE DEF t
  <2> QED BY <1>1, <1>2, <2>1, <2>2, <2>3, <2>4, TaskGoesOn
<1>5. ASSUME task' = NoTask
      PROVE  TaskInv'
  BY <1>5, TaskRests
<1>6. CASE task.then[1] = "saved"
  BY <1>5, <1>6 DEF ReviewDone
<1>7. CASE task.then[1] = "open"
  BY <1>3, <1>4, <1>7 DEF ReviewDone
<1>8. CASE task.then[1] = "batch"
  BY <1>3, <1>8 DEF ReviewDone
<1> QED BY <1>2, <1>6, <1>7, <1>8

LEMMA RequestKeepsTask ==
  ASSUME ExplorationInv, option \subseteq option', Active(family) \subseteq Active(family)',
         Count \/ Send
  PROVE  TaskInv'
<1>1. /\ DOMAIN task = DOMAIN NoTask /\ task.todo \in Seq(SUBSET option) /\ task.chunk \in Nat /\ Sound(task)
      /\ task.kind = "none" => task.at = "idle" /\ task.call = 0
      /\ DOMAIN NoTask = {"kind", "stop", "at", "ack", "key", "then", "todo", "view", "chunk", "fix", "call", "error"}
  BY TaskFields DEF NoTask
<1>2. task.at \in {"asking", "counted", "search"}
  BY <1>1 DEF Count, Send
<1>3. CASE task' = At("counted")
  <2> DEFINE t == At("counted")
  <2>1. t = [x \in DOMAIN NoTask |-> t[x]]
    BY <1>1 DEF At
  <2>2. /\ t.kind = task.kind /\ t.view = task.view /\ t.todo = task.todo /\ t.chunk = task.chunk
        /\ t.at = "counted" /\ t.call = task.call /\ t.key = task.key /\ t.then = task.then
    BY <1>1 DEF At
  <2>3. Sound(t)
    BY <1>1, <1>2, <2>2 DEF Sound
  <2>4. task' = t
    BY <1>3
  <2> HIDE DEF t
  <2> QED BY <1>1, <1>2, <2>1, <2>2, <2>3, <2>4, TaskGoesOn
<1>4. CASE task' = At("answering")
  <2> DEFINE t == At("answering")
  <2>1. t = [x \in DOMAIN NoTask |-> t[x]]
    BY <1>1 DEF At
  <2>2. /\ t.kind = task.kind /\ t.view = task.view /\ t.todo = task.todo /\ t.chunk = task.chunk
        /\ t.at = "answering" /\ t.call = task.call /\ t.key = task.key /\ t.then = task.then
    BY <1>1 DEF At
  <2>3. Sound(t)
    BY <1>1, <1>2, <2>2 DEF Sound
  <2>4. task' = t
    BY <1>4
  <2> HIDE DEF t
  <2> QED BY <1>1, <1>2, <2>1, <2>2, <2>3, <2>4, TaskGoesOn
<1> QED BY <1>3, <1>4 DEF Count, Send

LEMMA AnswerKeepsTask ==
  ASSUME ExplorationInv, option \subseteq option', Active(family) \subseteq Active(family)',
         NEW kind \in {"map", "search", "generate"}, NEW result, Answer(kind, result)
  PROVE  TaskInv'
<1>1. /\ DOMAIN task = DOMAIN NoTask /\ task.todo \in Seq(SUBSET option) /\ task.chunk \in Nat /\ Sound(task)
      /\ task.kind = "none" => task.at = "idle" /\ task.call = 0
      /\ DOMAIN NoTask = {"kind", "stop", "at", "ack", "key", "then", "todo", "view", "chunk", "fix", "call", "error"}
  BY TaskFields DEF NoTask
<1>2. task.at = "answering" /\ task.call = 0
  BY <1>1 DEF Sound, Answer, NoKey, NoTask
<1>3. CASE task' = At("answered")
  <2> DEFINE t == At("answered")
  <2>1. t = [x \in DOMAIN NoTask |-> t[x]]
    BY <1>1 DEF At
  <2>2. /\ t.kind = task.kind /\ t.view = task.view /\ t.todo = task.todo /\ t.chunk = task.chunk
        /\ t.at = "answered" /\ t.call = task.call /\ t.key = task.key /\ t.then = task.then
    BY <1>1 DEF At
  <2>3. Sound(t)
    BY <1>1, <1>2, <2>2 DEF Sound
  <2>4. task' = t
    BY <1>3
  <2> HIDE DEF t
  <2> QED BY <1>1, <1>2, <2>1, <2>2, <2>3, <2>4, TaskGoesOn
<1> QED BY <1>3 DEF Answer

LEMMA SaveKeepsTask ==
  ASSUME ExplorationInv, option \subseteq option', Active(family) \subseteq Active(family)',
         SaveMap \/ SaveSearch \/ Persist
  PROVE  TaskInv'
<1>1. /\ DOMAIN task = DOMAIN NoTask /\ task.todo \in Seq(SUBSET option) /\ task.chunk \in Nat /\ Sound(task)
      /\ task.kind = "none" => task.at = "idle" /\ task.call = 0
      /\ DOMAIN NoTask = {"kind", "stop", "at", "ack", "key", "then", "todo", "view", "chunk", "fix", "call", "error"}
  BY TaskFields DEF NoTask
<1>2. task.at = "answered" /\ task.call = 0
  BY <1>1 DEF Sound, SaveMap, SaveSearch, Persist
<1>3. CASE task' = Planning
  <2> DEFINE t == Planning
  <2>1. t = [x \in DOMAIN NoTask |-> t[x]]
    BY <1>1 DEF At, Planning
  <2>2. /\ t.kind = task.kind /\ t.view = task.view /\ t.todo = task.todo /\ t.chunk = task.chunk
        /\ t.at = "plan" /\ t.call = task.call /\ t.key = NoKey /\ t.then = task.then
    BY <1>1 DEF At, Planning
  <2>3. Sound(t)
    BY <1>1, <1>2, <2>2 DEF Sound
  <2>4. task' = t
    BY <1>3
  <2> HIDE DEF t
  <2> QED BY <1>1, <1>2, <2>1, <2>2, <2>3, <2>4, TaskGoesOn
<1>4. CASE task' = Throw("other")
  <2> DEFINE t == Throw("other")
  <2>1. t = [x \in DOMAIN NoTask |-> t[x]]
    BY <1>1 DEF Throw
  <2>2. /\ t.kind = task.kind /\ t.view = task.view /\ t.todo = task.todo /\ t.chunk = task.chunk
        /\ t.at = "throw" /\ t.call = task.call /\ t.key = task.key /\ t.then = task.then
    BY <1>1 DEF Throw
  <2>3. Sound(t)
    BY <1>1, <1>2, <2>2 DEF Sound
  <2>4. task' = t
    BY <1>4
  <2> HIDE DEF t
  <2> QED BY <1>1, <1>2, <2>1, <2>2, <2>3, <2>4, TaskGoesOn
<1>5. ASSUME task' = NoTask
      PROVE  TaskInv'
  BY <1>5, TaskRests
<1> QED BY <1>3, <1>4, <1>5 DEF SaveMap, SaveSearch, Persist

LEMMA StageKeepsTask ==
  ASSUME ExplorationInv, option \subseteq option', Active(family) \subseteq Active(family)',
         NEW key, NEW next \in {"asking", "search"}, Stage(key, next), task.at = "plan"
  PROVE  TaskInv'
<1>1. /\ DOMAIN task = DOMAIN NoTask /\ task.todo \in Seq(SUBSET option) /\ task.chunk \in Nat /\ Sound(task)
      /\ task.kind = "none" => task.at = "idle" /\ task.call = 0
      /\ DOMAIN NoTask = {"kind", "stop", "at", "ack", "key", "then", "todo", "view", "chunk", "fix", "call", "error"}
  BY TaskFields DEF NoTask
<1>2. task.at = "plan" /\ task.call = 0
  BY <1>1 DEF Sound
<1>3. CASE task' = [[task EXCEPT !.key = key] EXCEPT !.at = "answered"]
  <2> DEFINE t == [[task EXCEPT !.key = key] EXCEPT !.at = "answered"]
  <2>1. t = [x \in DOMAIN NoTask |-> t[x]]
    BY <1>1 DEF NoTask
  <2>2. /\ t.kind = task.kind /\ t.view = task.view /\ t.todo = task.todo /\ t.chunk = task.chunk
        /\ t.at = "answered" /\ t.call = task.call /\ t.key = key /\ t.then = task.then
    BY <1>1 DEF NoTask
  <2>3. Sound(t)
    BY <1>1, <1>2, <2>2 DEF Sound
  <2>4. task' = t
    BY <1>3
  <2> HIDE DEF t
  <2> QED BY <1>1, <1>2, <2>1, <2>2, <2>3, <2>4, TaskGoesOn
<1>4. CASE task' = [[task EXCEPT !.key = key] EXCEPT !.at = next]
  <2> DEFINE t == [[task EXCEPT !.key = key] EXCEPT !.at = next]
  <2>1. t = [x \in DOMAIN NoTask |-> t[x]]
    BY <1>1 DEF NoTask
  <2>2. /\ t.kind = task.kind /\ t.view = task.view /\ t.todo = task.todo /\ t.chunk = task.chunk
        /\ t.at = next /\ t.call = task.call /\ t.key = key /\ t.then = task.then
    BY <1>1 DEF NoTask
  <2>3. Sound(t)
    BY <1>1, <1>2, <2>2 DEF Sound
  <2>4. task' = t
    BY <1>4
  <2> HIDE DEF t
  <2> QED BY <1>1, <1>2, <2>1, <2>2, <2>3, <2>4, TaskGoesOn
<1>5. CASE task' = [[task EXCEPT !.key = key] EXCEPT !.at = "throw", !.error = "other"]
  <2> DEFINE t == [[task EXCEPT !.key = key] EXCEPT !.at = "throw", !.error = "other"]
  <2>1. t = [x \in DOMAIN NoTask |-> t[x]]
    BY <1>1 DEF NoTask
  <2>2. /\ t.kind = task.kind /\ t.view = task.view /\ t.todo = task.todo /\ t.chunk = task.chunk
        /\ t.at = "throw" /\ t.call = task.call /\ t.key = key /\ t.then = task.then
    BY <1>1 DEF NoTask
  <2>3. Sound(t)
    BY <1>1, <1>2, <2>2 DEF Sound
  <2>4. task' = t
    BY <1>5
  <2> HIDE DEF t
  <2> QED BY <1>1, <1>2, <2>1, <2>2, <2>3, <2>4, TaskGoesOn
<1> QED BY <1>3, <1>4, <1>5 DEF Stage

\* A batch is compared with the families that are there when it starts.
LEMMA StartBatchKeepsTask ==
  ASSUME ExplorationInv, StartBatch
  PROVE  TaskInv'
<1>1. /\ DOMAIN task = DOMAIN NoTask /\ task.todo \in Seq(SUBSET option) /\ task.chunk \in Nat /\ Sound(task)
      /\ task.kind = "none" => task.at = "idle" /\ task.call = 0
      /\ DOMAIN NoTask = {"kind", "stop", "at", "ack", "key", "then", "todo", "view", "chunk", "fix", "call", "error"}
  BY TaskFields DEF NoTask
<1>2. option' = option /\ family' = family /\ task.at = "next" /\ task.todo # <<>>
  BY DEF StartBatch, ideas, fvars
<1>3. CASE task' = Throw("other")
  BY <1>2, <1>3, ThrowKeepsTask
<1>4. CASE task' = [At("identity") EXCEPT !.view = View, !.chunk = 1, !.fix = 0]
  <2> DEFINE t == [At("identity") EXCEPT !.view = View, !.chunk = 1, !.fix = 0]
  <2>1. t = [x \in DOMAIN NoTask |-> t[x]]
    BY <1>1 DEF At
  <2>2. /\ t.kind = task.kind /\ t.view = View /\ t.todo = task.todo /\ t.chunk = 1
        /\ t.at = "identity" /\ t.call = task.call /\ t.key = task.key /\ t.then = task.then
    BY <1>1 DEF At
  <2>3. Sound(t) /\ t.kind # "none"
    BY <1>1, <1>2, <2>2 DEF Sound
  <2>4. task' = t
    BY <1>4
  <2> HIDE DEF t
  <2>5. TaskShape'
    <3>1. t.kind \in {"none", "review", "experiment", "exploration"} /\ t.todo \in Seq(SUBSET option') /\ t.chunk \in Nat
      BY <1>1, <1>2, <2>2 DEF ExplorationInv, TaskInv, TaskShape
    <3> QED BY <1>1, <2>1, <2>4, <3>1 DEF TaskShape
  <2>6. ViewLives'
    BY <1>2, <2>2, <2>4 DEF ViewLives, View, Shown, Active
  <2> QED BY <2>3, <2>4, <2>5, <2>6 DEF TaskInv
<1> QED BY <1>3, <1>4 DEF StartBatch

LEMMA StopKeepsTask ==
  ASSUME ExplorationInv, option \subseteq option', Active(family) \subseteq Active(family)',
         NEW stop, task.kind # "none", task' = [task EXCEPT !.stop = stop]
  PROVE  TaskInv'
<1>1. /\ DOMAIN task = DOMAIN NoTask /\ task.todo \in Seq(SUBSET option) /\ task.chunk \in Nat /\ Sound(task)
      /\ task.kind = "none" => task.at = "idle" /\ task.call = 0
      /\ DOMAIN NoTask = {"kind", "stop", "at", "ack", "key", "then", "todo", "view", "chunk", "fix", "call", "error"}
  BY TaskFields DEF NoTask
<1>2. task.kind # "none"
  BY <1>1 DEF NoTask
<1>3. CASE task' = [task EXCEPT !.stop = stop]
  <2> DEFINE t == [task EXCEPT !.stop = stop]
  <2>1. t = [x \in DOMAIN NoTask |-> t[x]]
    BY <1>1 DEF NoTask
  <2>2. /\ t.kind = task.kind /\ t.view = task.view /\ t.todo = task.todo /\ t.chunk = task.chunk
        /\ t.at = task.at /\ t.call = task.call /\ t.key = task.key /\ t.then = task.then
    BY <1>1 DEF NoTask
  <2>3. Sound(t)
    BY <1>1, <1>2, <2>2 DEF Sound
  <2>4. task' = t
    BY <1>3
  <2> HIDE DEF t
  <2> QED BY <1>1, <1>2, <2>1, <2>2, <2>3, <2>4, TaskGoesOn
<1> QED BY <1>3 DEF NoTask

LEMMA TaskKeeps ==
  ASSUME ExplorationInv, option \subseteq option', Active(family) \subseteq Active(family)', TaskStep
  PROVE  TaskInv'
<1>1. CASE Begin
  <2>1. PICK then : OpenReview(then) /\ then[1] \in {"saved", "open", "batch"}
    BY <1>1 DEF Begin
  <2> QED BY <1>1, <2>1, OpenReviewKeepsTask DEF Begin
<1>2. CASE PlanReview
  BY <1>2, OpenReviewKeepsTask DEF PlanReview, Deciding
<1>3. CASE StartBatch
  BY <1>3, StartBatchKeepsTask
<1>4. CASE AskReview
  BY <1>4, AskReviewKeepsTask
<1>5. CASE Apply \/ ApplyFails
  BY <1>5, ApplyKeepsTask
<1>6. CASE ReviewDone
  BY <1>6, ReviewDoneKeepsTask
<1>7. CASE Count \/ Send
  BY <1>7, RequestKeepsTask
<1>8. CASE CallFails
  BY <1>8, ThrowKeepsTask DEF CallFails
<1>9. CASE \E valid \in BOOLEAN : AnswerReview(valid)
  BY <1>9, AnswerReviewKeepsTask
<1>10. CASE AnswerMap \/ AnswerSearch \/ AnswerGenerate
  BY <1>10, AnswerKeepsTask DEF AnswerMap, AnswerSearch, AnswerGenerate
<1>11. CASE SaveMap \/ SaveSearch \/ Persist
  BY <1>11, SaveKeepsTask
<1>12. CASE Regenerate
  BY <1>12, StageKeepsTask DEF Regenerate
<1>13. CASE PlanMap
  BY <1>13, StageKeepsTask DEF PlanMap, Deciding
<1>14. CASE PlanSearch
  BY <1>14, StageKeepsTask DEF PlanSearch, Deciding
<1>15. CASE PlanBatch
  BY <1>15, TaskRests DEF PlanBatch
<1>16. CASE PlanStop \/ Catch \/ ExperimentEnds
  BY <1>16, TaskRests DEF PlanStop, Catch, ExperimentEnds
<1> QED
  BY <1>1, <1>2, <1>3, <1>4, <1>5, <1>6, <1>7, <1>8, <1>9, <1>10, <1>11, <1>12, <1>13, <1>14, <1>15, <1>16
  DEF TaskStep

-----------------------------------------------------------------------------
(* What a step makes of the families.                                      *)

\* The review gives its candidates places that are there, though it was shown them earlier.
LEMMA ReviewApplies ==
  ASSUME ExplorationInv, task.at = "apply", NEW as \in Choices, MayApply(as), ApplyDecisions(as)
  PROVE  FamiliesOK' /\ Active(family) \subseteq Active(family)' /\ Decided(decision)' \subseteq option
<1> DEFINE cs == Head(task.todo)
<1>1. /\ task.todo \in Seq(SUBSET option) /\ task.todo # <<>> /\ task.chunk # 0
      /\ ViewLives /\ FamiliesOK /\ TypeOK
  BY TaskFields DEF ExplorationInv, TaskInv, Sound
<1>2. cs \in SUBSET option /\ cs \in SUBSET Option
  BY <1>1 DEF TypeOK
<1> HIDE DEF cs
<1>3. DOMAIN as = cs /\ cs \cap Decided(decision) = {}
  BY DEF Choices, MayApply, cs
<1>4. ASSUME NEW o \in cs
      PROVE  \/ as[o] = Unsure \/ as[o] = Own
             \/ \E f \in Active(family) \cup (Len(family) + 1..Len(family) + Cardinality(Founders(as))) :
                  as[o] = Joins(f)
  <2>1. CASE \E f \in Active(family) : as[o] = Joins(f)
    BY <2>1
  <2>2. ASSUME NEW x \in Founders(as), as[o] = Joins(Len(family) + Rank(as, x))
        PROVE  \E f \in Len(family) + 1..Len(family) + Cardinality(Founders(as)) : as[o] = Joins(f)
    <3>1. Cardinality(Founders(as)) \in Nat /\ Rank(as, x) \in 1..Cardinality(Founders(as))
      BY <1>2, <1>3, Ranks
    <3>2. Len(family) \in Nat
      BY <1>1 DEF FamiliesOK, FamilyShape
    <3>3. \A l, m \in Nat : \A k \in 1..m : l + k \in l + 1..l + m
      OBVIOUS
    <3> QED BY <2>2, <3>1, <3>2, <3>3
  <2>3. \/ as[o] = Unsure \/ as[o] = Own \/ \E f \in Active(family) : as[o] = Joins(f)
        \/ \E x \in Founders(as) : as[o] = Joins(Len(family) + Rank(as, x))
    <3>1. ASSUME NEW f, as[o] = Joins(f), f \in {g \in DOMAIN family : \E v \in task.view.shown : v[1] = g}
          PROVE  \E g \in Active(family) : as[o] = Joins(g)
      BY <1>1, <3>1 DEF ViewLives
    <3> DEFINE places == 1..(Len(family) + Cardinality(cs))
               shown == {g \in DOMAIN family : \E v \in task.view.shown : v[1] = g}
    <3>2. /\ as \in [cs -> {Unsure, Own} \cup {Joins(f) : f \in places}]
          /\ \A x \in cs, f \in places : as[x] = Joins(f) =>
               f \in shown \/ \E y \in Founders(as) : y < x /\ f = Len(family) + Rank(as, y)
      BY DEF Choices, cs
    <3> HIDE DEF places, shown
    <3>3. as[o] \in {Unsure, Own} \cup {Joins(f) : f \in places}
      BY <3>2
    <3>4. ASSUME NEW f \in places, as[o] = Joins(f)
          PROVE  \/ \E g \in Active(family) : as[o] = Joins(g)
                 \/ \E x \in Founders(as) : as[o] = Joins(Len(family) + Rank(as, x))
      BY <3>1, <3>2, <3>4, ZenonT(60) DEF shown
    <3> QED BY <3>3, <3>4
  <2> QED BY <2>1, <2>2, <2>3
<1>5. FamiliesOK' /\ Active(family) \subseteq Active(family)' /\ Decided(decision)' = Decided(decision) \cup cs
  BY <1>1, <1>2, <1>3, <1>4, ApplyOK
<1> QED BY <1>1, <1>2, <1>5 DEF TypeOK

\* A session's review gives its idea a family that shows.
LEMMA SessionApplies ==
  ASSUME ExplorationInv, Materialize
  PROVE  FamiliesOK' /\ Active(family) \subseteq Active(family)' /\ Decided(decision)' \subseteq option
<1>1. PICK o \in world.session \ Decided(decision), place \in {Unsure, Own} \cup {Joins(f) : f \in Shown(decision, family)} :
        ApplyDecisions([x \in {o} |-> place])
  BY DEF Materialize
<1> DEFINE as == [x \in {o} |-> place]
<1>2. DOMAIN as = {o} /\ as[o] = place
  OBVIOUS
<1> HIDE DEF as
<1>3. FamiliesOK /\ TypeOK /\ {o} \in SUBSET option /\ {o} \in SUBSET Option
  BY <1>1 DEF ExplorationInv, WorldShape, TypeOK
<1>4. place = Unsure \/ place = Own \/ \E f \in Active(family) : place = Joins(f)
  BY <1>1 DEF Shown
<1>5. FamiliesOK' /\ Active(family) \subseteq Active(family)' /\ Decided(decision)' = Decided(decision) \cup {o}
  <2>1. {o} \cap Decided(decision) = {} /\ ApplyDecisions(as)
    BY <1>1 DEF as
  <2>2. \A x \in {o} :
           \/ as[x] = Unsure \/ as[x] = Own
           \/ \E f \in Active(family) \cup (Len(family) + 1..Len(family) + Cardinality(Founders(as))) :
                as[x] = Joins(f)
    BY <1>2, <1>4
  <2> QED BY <1>2, <1>3, <2>1, <2>2, ApplyOK
<1> QED BY <1>3, <1>5 DEF TypeOK

LEMMA FamiliesStep ==
  ASSUME ExplorationInv, Next
  PROVE  /\ FamiliesOK' /\ Decided(decision)' \subseteq option /\ discarded' \subseteq option
         /\ Active(family) \subseteq Active(family)' \/ (task.kind = "none" /\ task' = task)
<1>1. FamiliesOK /\ Decided(decision) \subseteq option /\ discarded \subseteq option
  BY DEF ExplorationInv, TypeOK
<1>2. CASE UNCHANGED fvars
  BY <1>1, <1>2 DEF fvars, FamiliesOK, DecidedOnce, MergedStaysEmpty
<1>3. CASE Apply
  <2>1. PICK as \in Choices : MayApply(as) /\ ApplyDecisions(as)
    BY <1>3 DEF Apply
  <2>2. task.at = "apply" /\ discarded' = discarded
    BY <1>3, <2>1 DEF Apply, ApplyDecisions
  <2> QED BY <1>1, <2>1, <2>2, ReviewApplies
<1>4. CASE Materialize
  <2>1. discarded' = discarded
    BY <1>4 DEF Materialize, ApplyDecisions
  <2> QED BY <1>1, <1>4, <2>1, SessionApplies
<1>5. CASE Edit
  <2>1. task.kind = "none" /\ task' = task
    BY <1>5 DEF Edit, EditingAllowed
  <2>2. CASE EditMembership
    <3>1. discarded' = discarded
      BY <2>2 DEF EditMembership, Merge, MarkUncertain, Move, Split
    <3> QED BY <1>1, <2>1, <2>2, <3>1, EditOK
  <2>3. CASE \E o \in option : Discard(o)
    BY <1>1, <2>1, <2>3 DEF Discard, FamiliesOK, DecidedOnce, MergedStaysEmpty
  <2> QED BY <1>5, <2>2, <2>3 DEF Edit
<1>6. TaskStep => UNCHANGED fvars \/ Apply
  BY DEF TaskStep, Begin, StartBatch, AskReview, ApplyFails, ReviewDone, Count, Send, CallFails,
     AnswerReview, AnswerMap, AnswerSearch, AnswerGenerate, Answer, SaveMap, SaveSearch, Persist,
     Regenerate, PlanBatch, PlanStop, PlanMap, PlanSearch, PlanReview, Catch, ExperimentEnds
<1>7. Next => TaskStep \/ UNCHANGED fvars \/ Materialize \/ Edit
  BY DEF Next, ReviewSaved, Experiment, Start, Resume, Extend, Pause, SessionSaves, TimeRunsOut, Quit, Restart
<1> QED BY <1>2, <1>3, <1>4, <1>5, <1>6, <1>7

-----------------------------------------------------------------------------
(* What a step makes of the ideas, the exploration and the rest.           *)

LEMMA LowestIn ==
  ASSUME NEW set \in SUBSET Nat, set # {}
  PROVE  Lowest(set) \in set
<1> DEFINE R == {ss \in Nat \X Nat : ss[1] < ss[2]}
<1>1. IsWellFoundedOn(R, Nat)
  BY NatLessThanWellFounded DEF OpToRel
<1>2. PICK i \in set : \A j \in set : <<j, i>> \notin R
  <2> HIDE DEF R
  <2> QED BY <1>1, WFMin
<1>3. \A j \in set : ~(j < i)
  BY <1>2
<1>4. \A j \in set : i <= j
  <2>1. \A m, n \in Nat : ~(n < m) => m <= n
    OBVIOUS
  <2> QED BY <1>3, <2>1
<1> QED BY <1>4 DEF Lowest

LEMMA IdeasStep ==
  ASSUME ExplorationInv, Next
  PROVE  option \subseteq option' /\ option' \subseteq Option /\ origin' \subseteq option' /\ WorldShape'
<1>1. option \subseteq Option /\ origin \subseteq option /\ WorldShape
  BY DEF ExplorationInv, TypeOK
<1>2. CASE UNCHANGED <<ideas, world>>
  BY <1>1, <1>2 DEF ideas, WorldShape
\* Owner and Event count what they are bounded by, and nothing else.
<1>3. ASSUME option' = option, origin' \in {origin, option}, Owner \/ Event \/ world' = world
      PROVE  option \subseteq option' /\ option' \subseteq Option /\ origin' \subseteq option' /\ WorldShape'
  <2>1. CASE world' = world
    BY <1>1, <1>3, <2>1 DEF WorldShape
  <2>2. ASSUME world' = [world EXCEPT !.launches = @ + 1]
        PROVE  WorldShape'
    BY <1>1, <1>3, <2>2 DEF WorldShape
  <2>3. ASSUME world' = [world EXCEPT !.events = @ + 1]
        PROVE  WorldShape'
    BY <1>1, <1>3, <2>3 DEF WorldShape
  <2>4. WorldShape'
    <3>1. CASE Owner
      BY <2>2, <3>1 DEF Owner
    <3>2. CASE Event
      BY <2>3, <3>2 DEF Event
    <3> QED BY <1>3, <2>1, <3>1, <3>2
  <2> QED BY <1>1, <1>3, <2>4
<1>4. CASE ReviewDone \/ Catch
  <2>1. ReviewDone => task.then[1] \in {"saved", "open", "batch"}
    BY TaskFields DEF ReviewDone, Sound
  <2>2. CASE ReviewDone /\ task.then[1] = "saved"
    BY <1>3, <2>2 DEF ReviewDone
  <2>3. CASE ReviewDone /\ task.then[1] = "open"
    BY <1>3, <2>3 DEF ReviewDone
  <2>4. CASE ReviewDone /\ task.then[1] = "batch"
    BY <1>3, <2>4 DEF ReviewDone
  <2>5. CASE Catch
    BY <1>3, <2>5 DEF Catch
  <2> QED BY <1>4, <2>1, <2>2, <2>3, <2>4, <2>5
<1>5. CASE Persist
  BY <1>1, <1>5 DEF Persist, WorldShape
<1>6. CASE SessionSaves
  <2> DEFINE new == Lowest(Option \ option)
  <2>1. new \in Option
    BY <1>1, <1>6, LowestIn, OptionAssumption DEF SessionSaves
  <2>2. /\ option' = option \cup {new} /\ origin' = origin
        /\ world' = [world EXCEPT !.session = {new}, !.events = @ + 1]
    BY <1>6 DEF SessionSaves
  <2> HIDE DEF new
  <2> QED BY <1>1, <2>1, <2>2 DEF WorldShape
<1>7. CASE TimeRunsOut
  BY <1>1, <1>7 DEF TimeRunsOut, ideas, WorldShape
<1>8. CASE ReviewSaved(TRUE) \/ ReviewSaved(FALSE) \/ Experiment \/ Resume \/ Extend \/ Edit \/ Quit \/ Restart
  BY <1>3, <1>8 DEF ReviewSaved, Experiment, Resume, Extend, Edit, Quit, Restart, ideas
<1>9. CASE Start
  BY <1>3, <1>9 DEF Start
<1>10. TaskStep => UNCHANGED <<ideas, world>> \/ ReviewDone \/ Catch \/ Persist
  BY DEF TaskStep, Begin, StartBatch, AskReview, Apply, ApplyFails, Count, Send, CallFails,
     AnswerReview, AnswerMap, AnswerSearch, AnswerGenerate, Answer, SaveMap, SaveSearch,
     Regenerate, PlanBatch, PlanStop, PlanMap, PlanSearch, PlanReview, ExperimentEnds, stages
<1>11. Pause \/ Materialize => UNCHANGED <<ideas, world>>
  BY DEF Pause, Materialize
<1> QED BY <1>2, <1>4, <1>5, <1>6, <1>7, <1>8, <1>9, <1>10, <1>11 DEF Next

LEMMA ExplKeeps ==
  ASSUME ExplShape, NEW e, e = [x \in DOMAIN expl |-> e[x]], e.status \in Statuses, expl' = e
  PROVE  ExplShape'
<1>1. DOMAIN expl = {"status", "calls", "searches", "raw", "rounds", "maxCalls", "maxSearches"}
  BY DEF ExplShape
<1> QED BY <1>1 DEF ExplShape

LEMMA ExplStep ==
  ASSUME ExplorationInv, Next
  PROVE  ExplShape'
<1>1. ExplShape /\ expl.status \in Statuses /\ "status" \in DOMAIN expl
  BY DEF ExplorationInv, ExplShape
<1>2. CASE expl' = expl
  BY <1>1, <1>2 DEF ExplShape
<1>3. ASSUME NEW s \in Statuses, expl' = [expl EXCEPT !.status = s]
      PROVE  ExplShape'
  <2> DEFINE e == [expl EXCEPT !.status = s]
  <2>1. e = [x \in DOMAIN expl |-> e[x]] /\ e.status = s
    BY <1>1
  <2> HIDE DEF e
  <2> QED BY <1>1, <1>3, <2>1, ExplKeeps DEF e
<1>4. /\ {"none", "mapping-coverage", "generating-batch", "reviewing-batch"} \subseteq Statuses
      /\ Terminal \subseteq Statuses /\ {"useful-partial", "failed", "budget-exhausted", "paused"} \subseteq Terminal
  BY DEF Statuses, Terminal
<1>5. CASE ReviewDone
  <2>1. task.then[1] \in {"saved", "open", "batch"}
    BY <1>5, TaskFields DEF ReviewDone, Sound
  <2>2. CASE task.then[1] = "saved"
    BY <1>2, <1>5, <2>2 DEF ReviewDone
  <2>3. CASE task.then[1] = "open"
    <3>1. expl' = Synced(expl)
      BY <1>5, <2>3 DEF ReviewDone
    <3> QED BY <1>1, <3>1, ExplKeeps DEF Synced
  <2>4. CASE task.then[1] = "batch"
    <3> DEFINE e == [Synced(expl) EXCEPT !.status = "mapping-coverage"]
    <3>1. expl' = e
      BY <1>5, <2>4 DEF ReviewDone
    <3>2. e = [x \in DOMAIN expl |-> e[x]] /\ e.status \in Statuses
      BY <1>1, <1>4 DEF Synced, ExplShape
    <3> HIDE DEF e
    <3> QED BY <1>1, <3>1, <3>2, ExplKeeps
  <2> QED BY <2>1, <2>2, <2>3, <2>4
<1>6. CASE Count
  BY <1>1, <1>2, <1>6, ExplKeeps DEF Count
<1>7. CASE Send
  BY <1>1, <1>2, <1>7, ExplKeeps DEF Send
<1>8. CASE SaveMap
  BY <1>1, <1>2, <1>4, <1>8, ExplKeeps DEF SaveMap
<1>9. CASE Persist
  <2> DEFINE e == [expl EXCEPT !.raw = expl'.raw, !.status = "reviewing-batch"]
  <2>1. expl' = e
    BY <1>1, <1>9 DEF Persist, ExplShape
  <2>2. e = [x \in DOMAIN expl |-> e[x]] /\ e.status \in Statuses
    BY <1>1, <1>4 DEF ExplShape
  <2> HIDE DEF e
  <2> QED BY <1>1, <2>1, <2>2, ExplKeeps
<1>10. CASE PlanStop
  <2>1. Decision[1] = "stop" => Decision[2] \in Terminal
    BY DEF Decision, Terminal
  <2> QED BY <1>3, <1>4, <1>10, <2>1 DEF PlanStop, Deciding
<1>11. CASE Catch
  <2> DEFINE e == IF task.then[1] \in {"open", "batch"} THEN Synced(expl) ELSE expl
             failed == IF task.error = "budget" THEN "budget-exhausted" ELSE "failed"
  <2>1. expl' = IF ~Budgeted \/ (task.stop # "no" /\ e.status = "paused") THEN e ELSE [e EXCEPT !.status = failed]
    BY <1>11 DEF Catch
  <2>2. e = [x \in DOMAIN expl |-> e[x]] /\ e.status = expl.status /\ DOMAIN e = DOMAIN expl
    BY <1>1 DEF Synced, ExplShape
  <2>3. failed \in Statuses
    BY <1>4
  <2> HIDE DEF e, failed
  <2>4. [e EXCEPT !.status = failed] = [x \in DOMAIN expl |-> [e EXCEPT !.status = failed][x]] /\ [e EXCEPT !.status = failed].status = failed
    BY <1>1, <2>2
  <2>5. CASE expl' = e
    BY <1>1, <2>2, <2>5, ExplKeeps
  <2>6. CASE expl' = [e EXCEPT !.status = failed]
    <3> DEFINE x == [e EXCEPT !.status = failed]
    <3> HIDE DEF x
    <3> QED BY <1>1, <2>3, <2>4, <2>6, ExplKeeps DEF x
  <2> QED BY <2>1, <2>5, <2>6
<1>12. CASE Start
  <2> DEFINE e == Synced([expl EXCEPT !.status = IF @ = "none" THEN "mapping-coverage" ELSE @])
  <2>1. expl' = e
    BY <1>12 DEF Start
  <2>2. e = [x \in DOMAIN expl |-> e[x]] /\ e.status \in Statuses
    BY <1>1, <1>4 DEF Synced, ExplShape
  <2> HIDE DEF e
  <2> QED BY <1>1, <2>1, <2>2, ExplKeeps
<1>13. CASE Extend
  <2> DEFINE e == [expl EXCEPT !.maxCalls = @ + 1, !.maxSearches = @ + 1, !.status = "mapping-coverage"]
  <2>1. expl' = e
    BY <1>13 DEF Extend
  <2>2. e = [x \in DOMAIN expl |-> e[x]] /\ e.status \in Statuses
    BY <1>1, <1>4
  <2> HIDE DEF e
  <2> QED BY <1>1, <2>1, <2>2, ExplKeeps
<1>14. CASE Regenerate \/ Resume \/ Pause \/ Restart
  BY <1>2, <1>3, <1>4, <1>14 DEF Regenerate, Resume, Pause, Restart
<1>15. TaskStep => \/ expl' = expl \/ ReviewDone \/ Count \/ Send \/ SaveMap \/ Persist \/ PlanStop \/ Catch \/ Regenerate
  BY DEF TaskStep, Begin, StartBatch, AskReview, Apply, ApplyFails, CallFails,
     AnswerReview, AnswerMap, AnswerSearch, AnswerGenerate, Answer, SaveSearch,
     PlanBatch, PlanMap, PlanSearch, PlanReview, ExperimentEnds
<1>16. Next => TaskStep \/ expl' = expl \/ Start \/ Resume \/ Extend \/ Pause \/ Restart
  BY DEF Next, ReviewSaved, Experiment, Edit, SessionSaves, Materialize, TimeRunsOut, Quit
<1> QED
  BY <1>2, <1>5, <1>6, <1>7, <1>8, <1>9, <1>10, <1>11, <1>12, <1>13, <1>14, <1>15, <1>16

LEMMA TaskOfStep ==
  ASSUME ExplorationInv, Next
  PROVE  TaskInv'
<1>1. /\ option \subseteq option'
      /\ Active(family) \subseteq Active(family)' \/ (task.kind = "none" /\ task' = task)
  BY FamiliesStep, IdeasStep
<1>2. CASE TaskStep
  <2>1. CASE Active(family) \subseteq Active(family)'
    BY <1>1, <1>2, <2>1, TaskKeeps
  <2>2. CASE task.kind = "none" /\ task' = task
    BY <1>1, <2>2, TaskRests
  <2> QED BY <1>1, <2>1, <2>2
<1>3. CASE task' = task
  BY <1>1, <1>3, TaskRests
<1>4. ASSUME NEW kind \in {"review", "experiment", "exploration"}, NEW ack \in BOOLEAN, NEW allowed, LaunchIf(allowed, kind, ack)
      PROVE  task' = task \/ TaskInv'
  BY <1>1, <1>4, TaskRests DEF LaunchIf
<1>5. CASE (\E ack \in BOOLEAN : ReviewSaved(ack)) \/ Experiment \/ Start \/ Resume \/ Extend
  BY <1>3, <1>4, <1>5 DEF ReviewSaved, Experiment, Start, Resume, Extend
<1>6. ASSUME NEW stop, task.kind # "none", task' = [task EXCEPT !.stop = stop], UNCHANGED fvars
      PROVE  TaskInv'
  BY <1>1, <1>6, StopKeepsTask DEF fvars, Active
<1>7. CASE Pause
  BY <1>3, <1>6, <1>7 DEF Pause, Budgeted
<1>8. CASE Quit
  BY <1>6, <1>8 DEF Quit
<1>9. CASE Restart
  BY <1>1, <1>9, TaskRests DEF Restart
<1>10. Edit \/ SessionSaves \/ Materialize \/ TimeRunsOut => task' = task
  BY DEF Edit, SessionSaves, Materialize, TimeRunsOut
<1> QED BY <1>2, <1>3, <1>5, <1>7, <1>8, <1>9, <1>10 DEF Next

LEMMA NextInv == ExplorationInv /\ [Next]_vars => ExplorationInv'
<1> SUFFICES ASSUME ExplorationInv, [Next]_vars PROVE ExplorationInv'
  OBVIOUS
<1>1. CASE Next
  <2>1. FamiliesOK' /\ Decided(decision)' \subseteq option /\ discarded' \subseteq option
    BY <1>1, FamiliesStep
  <2>2. option \subseteq option' /\ option' \subseteq Option /\ origin' \subseteq option' /\ WorldShape'
    BY <1>1, IdeasStep
  <2>3. ExplShape' /\ TaskInv'
    BY <1>1, ExplStep, TaskOfStep
  <2>4. TypeOK'
    BY <2>1, <2>2, <2>3 DEF TypeOK, ExplShape, Statuses, TaskInv, TaskShape
  <2> QED BY <2>1, <2>2, <2>3, <2>4 DEF ExplorationInv
<1>2. CASE UNCHANGED vars
  BY <1>2 DEF vars, fvars, ideas, stages, ExplorationInv, TypeOK, FamiliesOK, DecidedOnce, MergedStaysEmpty,
     ExplShape, WorldShape, TaskInv, TaskShape, ViewLives
<1> QED BY <1>1, <1>2

(***************************************************************************)
(* Each saved idea has at most one current decision, and an accepted one   *)
(* is in a family that was not merged away, for any number of ideas,       *)
(* launches, edits, crashes and sessions (applyResolvedDecisions and the   *)
(* edits of db/repositories/opportunities.ts, under the review and the     *)
(* exploration of core).                                                   *)
(***************************************************************************)
THEOREM IdeasStayGrouped == Spec => []Grouped
<1>1. ExplorationInv => Grouped
  BY DEF ExplorationInv, FamiliesOK, Grouped
<1> QED BY <1>1, InitInv, NextInv, PTL DEF Spec

-----------------------------------------------------------------------------
(* What is paid for.                                                       *)

ReviewStatus == {"prepared", "sent", "unknown", "never", "failed", "acknowledged", "completed", "invalid"}
Settled == {"never", "failed", "acknowledged", "completed", "invalid"}
WasSent == {"sent", "unknown", "acknowledged", "completed", "invalid"}
AttemptStatus == {"prepared", "sent", "unknown", "completed"}
BatchStatus == {"planned", "generating", "awaiting-review", "reviewing", "unknown-dispatch", "reviewed"}
GapStatus == {"search-needed", "ready", "covered", "exhausted"}
StageKind == {"map", "search", "generate"}
CompareKind == {"review", "compare"}
Fix(i) == review[i].request.fix

\* A sequence, whatever its elements are.
Listed(s) == s \in Seq({s[i] : i \in DOMAIN s})

CountsOK ==
  /\ expl.calls \in Nat /\ expl.searches \in Nat /\ expl.raw \in Nat /\ expl.rounds \in Nat
  /\ expl.maxCalls \in Nat /\ expl.maxSearches \in Nat
CallsShaped ==
  /\ Listed(review)
  /\ \A i \in DOMAIN review : /\ {"request", "status"} \subseteq DOMAIN review[i]
                              /\ review[i].status \in ReviewStatus /\ Fix(i) \in Nat
BatchesShaped ==
  /\ Listed(batch) /\ Listed(gap)
  /\ \A b \in DOMAIN batch : /\ {"gap", "status", "saved", "after"} \subseteq DOMAIN batch[b]
                             /\ batch[b].status \in BatchStatus
                             /\ batch[b].gap \in DOMAIN gap /\ batch[b].saved \subseteq option
  /\ \A g \in DOMAIN gap : "status" \in DOMAIN gap[g] /\ gap[g].status \in GapStatus
AttemptsShaped ==
  /\ DOMAIN attempt \subseteq StageKind \X Nat /\ attempt = [k \in DOMAIN attempt |-> attempt[k]]
  /\ \A k \in DOMAIN attempt :
       /\ {"status", "result"} \subseteq DOMAIN attempt[k] /\ attempt[k].status \in AttemptStatus
       /\ attempt[k].result.gaps \in Seq([early : BOOLEAN, search : BOOLEAN])
AskedShaped == asked \in Seq((StageKind \cup CompareKind) \X Nat)

\* Where a task stands, and what it is there for.
PlacesOK ==
  /\ task.key \in {NoKey} \cup (StageKind \X Nat)
  /\ task.then \in {"none", "saved", "open", "batch"} \X Nat
  /\ task.call \in Nat /\ task.fix \in Nat
  /\ task.at \in {"asking", "counted", "answering"} /\ task.call = 0 => task.key # NoKey
  /\ task.at \in {"search", "answered"} => task.key # NoKey
  /\ task.key # NoKey => /\ Budgeted
                         /\ task.at \in {"asking", "counted", "search", "answering", "answered", "throw"}
  /\ task.at = "plan" \/ task.then[1] \in {"open", "batch"} => Budgeted
  /\ task.at = "begin" => task.kind \in {"review", "exploration"}
  /\ task.key[1] = "search" => task.at \notin {"asking", "counted"}
  /\ task.at = "search" => task.key[1] = "search"

\* A comparison is settled before the next one is asked; only a first answer is corrected, and
\* whatever was asked again was of no use.
SettledBefore == \A i \in DOMAIN review : i < Len(review) => review[i].status \in Settled
Corrections ==
  \A i \in DOMAIN review : Fix(i) # 0 => Fix(i) \in DOMAIN review /\ Fix(i) < i /\ Fix(Fix(i)) = 0
Useless(first, again) ==
  \/ review[first].status = "acknowledged"
  \/ /\ review[first].status = "invalid"
     /\ \A c \in DOMAIN review : c < again /\ Fix(c) = first => review[c].status # "completed"
Retried ==
  \A first, again \in DOMAIN review :
    first < again /\ review[first].request = review[again].request /\ review[first].status \in WasSent
      => Useless(first, again)
ReviewTask ==
  /\ task.fix # 0 => task.fix \in DOMAIN review /\ Fix(task.fix) = 0
  /\ task.call # 0 =>
       /\ task.call = Len(review) /\ task.call \in DOMAIN review /\ Fix(task.call) = task.fix
       /\ task.at \in {"asking", "counted", "answering", "throw"}
       /\ task.at \in {"asking", "counted"} => review[task.call].status = "prepared"
       /\ task.at = "answering" => review[task.call].status = "sent"
  /\ task.at \in {"next", "identity", "apply"} => \A i \in DOMAIN review : review[i].status \in Settled
ReviewsInv == CallsShaped /\ SettledBefore /\ Corrections /\ Retried /\ ReviewTask

\* A stage is sent only while its attempt is prepared, and never prepared again.
StageTask ==
  /\ task.key # NoKey => task.key \in DOMAIN attempt
  /\ task.key # NoKey /\ task.at \in {"asking", "counted", "search"} => attempt[task.key].status = "prepared"
  /\ task.key # NoKey /\ task.at = "answering" => attempt[task.key].status # "prepared"
StagesInv == AttemptsShaped /\ StageTask

AskedStages ==
  \A i \in Sent(StageKind) :
    /\ asked[i] \in DOMAIN attempt /\ attempt[asked[i]].status # "prepared"
    /\ \A j \in Sent(StageKind) : asked[i] = asked[j] => i = j
AskedReviews ==
  \A i \in Sent(CompareKind) :
    /\ asked[i][2] \in DOMAIN review /\ review[asked[i][2]].status \in WasSent
    /\ \A j \in Sent(CompareKind) : i < j => asked[i][2] < asked[j][2]

\* What is counted is sent next.
Counting == IF task.at = "counted" /\ Budgeted THEN 1 ELSE 0
BudgetOK ==
  /\ Cardinality(Sent({"map", "generate", "compare"})) + Counting <= expl.calls /\ expl.calls <= expl.maxCalls
  /\ Cardinality(Sent({"search"})) = expl.searches /\ expl.searches <= expl.maxSearches
  /\ task.at = "search" => expl.searches < expl.maxSearches

\* A task generates or reviews a batch that is under way, and a review decides on all of it.
BatchTask ==
  /\ task.key[1] = "generate" => task.key[2] \in DOMAIN batch /\ batch[task.key[2]].status = "generating"
  /\ task.key[1] = "search" => task.key[2] \in DOMAIN gap /\ gap[task.key[2]].status = "search-needed"
  /\ task.then[1] = "batch" => task.then[2] \in DOMAIN batch /\ batch[task.then[2]].status = "reviewing"
  /\ task.then[1] = "batch" /\ task.at # "throw" =>
       \A o \in batch[task.then[2]].saved :
         o \in Decided(decision) \/ \E i \in DOMAIN task.todo : o \in task.todo[i]
BatchesInv == BatchesShaped /\ ReviewedInTurn /\ BatchTask

PaidInv ==
  /\ CountsOK /\ AskedShaped /\ PlacesOK /\ ReviewsInv /\ StagesInv
  /\ AskedStages /\ AskedReviews /\ BudgetOK /\ BatchesInv

-----------------------------------------------------------------------------
LEMMA ListIs ==
  ASSUME NEW s, Listed(s)
  PROVE  Len(s) \in Nat /\ DOMAIN s = 1..Len(s) /\ s = [i \in DOMAIN s |-> s[i]]
BY DEF Listed

LEMMA ListOf ==
  ASSUME NEW n \in Nat, NEW s, s = [i \in 1..n |-> s[i]]
  PROVE  Listed(s) /\ Len(s) = n /\ DOMAIN s = 1..n
<1> DEFINE S == {s[i] : i \in DOMAIN s}
<1>1. DOMAIN s = 1..n
  OBVIOUS
<1>2. \A i \in 1..n : s[i] \in S
  BY <1>1
<1> HIDE DEF S
<1>3. s \in [1..n -> S]
  BY <1>1, <1>2
<1>4. s \in Seq(S) /\ Len(s) = n
  BY <1>3
<1> QED BY <1>1, <1>4 DEF Listed, S

LEMMA SeqListed ==
  ASSUME NEW S, NEW s \in Seq(S)
  PROVE  Listed(s)
<1> DEFINE T == {s[i] : i \in DOMAIN s}
<1>1. \A i \in DOMAIN s : s[i] \in T
  OBVIOUS
<1> HIDE DEF T
<1>2. s \in Seq(T)
  BY <1>1, SeqOf
<1> QED BY <1>2 DEF Listed, T

LEMMA ListAppends ==
  ASSUME NEW s, Listed(s), NEW x
  PROVE  /\ Listed(Append(s, x)) /\ Len(Append(s, x)) = Len(s) + 1 /\ DOMAIN Append(s, x) = 1..(Len(s) + 1)
         /\ Append(s, x)[Len(s) + 1] = x /\ \A i \in DOMAIN s : Append(s, x)[i] = s[i]
<1> DEFINE S == {s[i] : i \in DOMAIN s} \cup {x}
<1>1. s \in Seq(S)
  <2>1. s \in Seq({s[i] : i \in DOMAIN s})
    BY DEF Listed
  <2> QED BY <2>1
<1>2. x \in S
  OBVIOUS
<1> HIDE DEF S
<1>3. Append(s, x) \in Seq(S) /\ Len(Append(s, x)) = Len(s) + 1 /\ Len(s) \in Nat /\ DOMAIN s = 1..Len(s)
  BY <1>1, <1>2
<1>4. Append(s, x)[Len(s) + 1] = x /\ \A i \in DOMAIN s : Append(s, x)[i] = s[i]
  BY <1>1, <1>2
<1>5. Listed(Append(s, x))
  BY <1>3, SeqListed
<1>6. DOMAIN Append(s, x) = 1..(Len(s) + 1)
  BY <1>3
<1> QED BY <1>3, <1>4, <1>5, <1>6

LEMMA ListJoins ==
  ASSUME NEW s, NEW t, Listed(s), Listed(t)
  PROVE  /\ Listed(s \o t) /\ DOMAIN (s \o t) = 1..(Len(s) + Len(t))
         /\ \A i \in DOMAIN s : (s \o t)[i] = s[i]
         /\ \A i \in DOMAIN (s \o t) : i \notin DOMAIN s => i - Len(s) \in DOMAIN t /\ (s \o t)[i] = t[i - Len(s)]
<1> DEFINE S == {s[i] : i \in DOMAIN s} \cup {t[i] : i \in DOMAIN t}
<1>1. s \in Seq(S) /\ t \in Seq(S)
  <2>1. s \in Seq({s[i] : i \in DOMAIN s}) /\ t \in Seq({t[i] : i \in DOMAIN t})
    BY DEF Listed
  <2>2. s \in Seq(S)
    BY <2>1
  <2>3. t \in Seq(S)
    BY <2>1
  <2> QED BY <2>2, <2>3
<1> HIDE DEF S
<1>2. /\ s \o t \in Seq(S) /\ Len(s \o t) = Len(s) + Len(t) /\ Len(s) \in Nat /\ Len(t) \in Nat
      /\ DOMAIN s = 1..Len(s) /\ DOMAIN t = 1..Len(t) /\ DOMAIN (s \o t) = 1..(Len(s) + Len(t))
  BY <1>1
<1>3. \A i \in DOMAIN (s \o t) : (s \o t)[i] = IF i <= Len(s) THEN s[i] ELSE t[i - Len(s)]
  BY <1>1, <1>2
<1>5. Listed(s \o t)
  BY <1>2, SeqListed
<1>6. \A i \in DOMAIN s : i \in DOMAIN (s \o t) /\ i <= Len(s)
  BY <1>2
<1>7. \A i \in DOMAIN (s \o t) : i \notin DOMAIN s => i - Len(s) \in DOMAIN t /\ ~(i <= Len(s))
  BY <1>2
<1> QED BY <1>2, <1>3, <1>5, <1>6, <1>7

-----------------------------------------------------------------------------
(* Where each step leaves the task.                                        *)
Moves(at, key, then, call, fix, todo) ==
  /\ task'.at = at /\ task'.key = key /\ task'.then = then /\ task'.call = call
  /\ task'.fix = fix /\ task'.todo = todo /\ task'.kind = task.kind
Turns(at) == Moves(at, task.key, task.then, task.call, task.fix, task.todo)
\* The task is over, or a new one begins, or the owner only spoke to it.
Rests ==
  \/ task'.kind = "none" /\ task' = NoTask
  \/ /\ task'.kind \in {"review", "experiment", "exploration"}
     /\ task'.at = IF task'.kind = "experiment" THEN "away" ELSE "begin"
     /\ task'.key = NoKey /\ task'.then = NoKey /\ task'.call = 0 /\ task'.fix = 0 /\ task'.todo = <<>>
  \/ Turns(task.at)

LEMMA Fields ==
  ASSUME ExplorationInv
  PROVE  DOMAIN task = {"kind", "stop", "at", "ack", "key", "then", "todo", "view", "chunk", "fix", "call", "error"}
BY DEF ExplorationInv, TaskInv, TaskShape

LEMMA AtTurns ==
  ASSUME ExplorationInv, NEW place, task' = At(place)
  PROVE  Turns(place)
BY Fields DEF At, Turns, Moves

LEMMA ThrowTurns ==
  ASSUME ExplorationInv, NEW error, task' = Throw(error)
  PROVE  Turns("throw")
BY Fields DEF Throw, Turns, Moves

LEMMA OpenReviewMoves ==
  ASSUME ExplorationInv, NEW then, OpenReview(then)
  PROVE  /\ review' \in {Recovered(review), Acknowledged(Recovered(review))}
         /\ \/ Moves("throw", task.key, then, task.call, task.fix, task.todo)
            \/ /\ Moves("next", task.key, then, task.call, task.fix, Batches(Unreviewed))
               /\ \A i \in DOMAIN review' : review'[i].status # "unknown"
<1> DEFINE calls == IF task.ack THEN Acknowledged(Recovered(review)) ELSE Recovered(review)
           b == Batches(Unreviewed)
<1>1. calls \in {Recovered(review), Acknowledged(Recovered(review))}
  OBVIOUS
<1>2. /\ review' = calls
      /\ task' = IF \E i \in DOMAIN calls : calls[i].status = "unknown"
                 THEN [Throw("other") EXCEPT !.then = then]
                 ELSE [At("next") EXCEPT !.then = then, !.todo = b]
  BY DEF OpenReview
<1> HIDE DEF calls, b
<1>3. CASE task' = [Throw("other") EXCEPT !.then = then]
  BY <1>1, <1>2, <1>3, Fields DEF Throw, Moves
<1>4. CASE task' = [At("next") EXCEPT !.then = then, !.todo = b] /\ \A i \in DOMAIN calls : calls[i].status # "unknown"
  <2>1. Moves("next", task.key, then, task.call, task.fix, b)
    BY <1>4, Fields DEF At, Moves
  <2> QED BY <1>1, <1>2, <1>4, <2>1 DEF b
<1> QED BY <1>2, <1>3, <1>4

LEMMA StartBatchMoves ==
  ASSUME ExplorationInv, StartBatch
  PROVE  /\ task.at = "next"
         /\ \/ Turns("throw")
            \/ Moves("identity", task.key, task.then, task.call, 0, task.todo)
<1> DEFINE v == View
<1>1. task' = Throw("other") \/ task' = [At("identity") EXCEPT !.view = v, !.chunk = 1, !.fix = 0]
  BY DEF StartBatch
<1> HIDE DEF v
<1>2. CASE task' = [At("identity") EXCEPT !.view = v, !.chunk = 1, !.fix = 0]
  BY <1>2, Fields DEF StartBatch, At, Moves
<1> QED BY <1>1, <1>2, ThrowTurns DEF StartBatch

LEMMA ChunkDoneMoves ==
  ASSUME ExplorationInv, task' = ChunkDone
  PROVE  Turns("apply") \/ Moves("identity", task.key, task.then, task.call, 0, task.todo)
<1>1. CASE task' = At("apply")
  BY <1>1, AtTurns
<1>2. CASE task' = [At("identity") EXCEPT !.chunk = @ + 1, !.fix = 0]
  BY <1>2, Fields DEF At, Moves
<1> QED BY <1>1, <1>2 DEF ChunkDone

\* A comparison is reused, or refused as it is recorded, or goes out.
LEMMA AskReviewMoves ==
  ASSUME ExplorationInv, AskReview
  PROVE  /\ task.at = "identity"
         /\ \/ /\ review' = review
               /\ Turns("apply") \/ Moves("identity", task.key, task.then, task.call, 0, task.todo)
            \/ Reusable = {} /\ review' = NewCall("failed") /\ Turns("throw")
            \/ /\ Reusable = {} /\ review' = NewCall("prepared")
               /\ Moves("asking", task.key, task.then, Len(review) + 1, task.fix, task.todo)
<1>1. task.at = "identity"
  BY DEF AskReview
<1>2. CASE Reusable # {}
  BY <1>1, <1>2, ChunkDoneMoves DEF AskReview
<1>3. CASE Reusable = {} /\ Budgeted /\ (task.stop # "no" \/ NoBudget)
  <2>1. review' = NewCall("failed") /\ (task' = Throw("other") \/ task' = Throw("budget"))
    BY <1>3 DEF AskReview
  <2> QED BY <1>1, <1>3, <2>1, ThrowTurns
<1>4. CASE Reusable = {} /\ ~(Budgeted /\ (task.stop # "no" \/ NoBudget))
  <2>1. review' = NewCall("prepared") /\ task' = [At("asking") EXCEPT !.call = Len(review) + 1]
    BY <1>4 DEF AskReview
  <2>2. Moves("asking", task.key, task.then, Len(review) + 1, task.fix, task.todo)
    BY <2>1, Fields DEF At, Moves
  <2> QED BY <1>1, <1>4, <2>1, <2>2
<1> QED BY <1>2, <1>3, <1>4

LEMMA AnswerReviewMoves ==
  ASSUME ExplorationInv, NEW valid \in BOOLEAN, AnswerReview(valid)
  PROVE  /\ task.at = "answering" /\ task.call # 0
         /\ \/ /\ review' = CallIs("completed")
               /\ \/ Moves("apply", task.key, task.then, 0, task.fix, task.todo)
                  \/ Moves("identity", task.key, task.then, 0, 0, task.todo)
            \/ /\ review' = CallIs("invalid")
               /\ \/ task.fix = 0 /\ Moves("identity", task.key, task.then, 0, task.call, task.todo)
                  \/ Moves("throw", task.key, task.then, 0, task.fix, task.todo)
<1>1. task.at = "answering" /\ task.call # 0
  BY DEF AnswerReview
<1>2. ASSUME NEW t, task' = [t EXCEPT !.call = 0], DOMAIN t = DOMAIN task, t.kind = task.kind
      PROVE  Moves(t.at, t.key, t.then, 0, t.fix, t.todo)
  BY <1>2, Fields DEF Moves
<1>3. CASE valid
  <2>1. review' = CallIs("completed") /\ task' = [ChunkDone EXCEPT !.call = 0]
    BY <1>3 DEF AnswerReview
  <2>2. CASE task' = [At("apply") EXCEPT !.call = 0]
    <3> DEFINE t == At("apply")
    <3>1. /\ DOMAIN t = DOMAIN task /\ t.kind = task.kind /\ t.at = "apply" /\ t.key = task.key
          /\ t.then = task.then /\ t.fix = task.fix /\ t.todo = task.todo
      BY Fields DEF At
    <3>2. task' = [t EXCEPT !.call = 0]
      BY <2>2
    <3> HIDE DEF t
    <3> QED BY <1>1, <1>2, <2>1, <3>1, <3>2
  <2>3. CASE task' = [[At("identity") EXCEPT !.chunk = @ + 1, !.fix = 0] EXCEPT !.call = 0]
    <3> DEFINE t == [At("identity") EXCEPT !.chunk = @ + 1, !.fix = 0]
    <3>1. /\ DOMAIN t = DOMAIN task /\ t.kind = task.kind /\ t.at = "identity" /\ t.key = task.key
          /\ t.then = task.then /\ t.fix = 0 /\ t.todo = task.todo
      BY Fields DEF At
    <3>2. task' = [t EXCEPT !.call = 0]
      BY <2>3
    <3> HIDE DEF t
    <3> QED BY <1>1, <1>2, <2>1, <3>1, <3>2, ZenonT(60)
  <2> QED BY <2>1, <2>2, <2>3 DEF ChunkDone
<1>4. CASE ~valid
  <2>1. review' = CallIs("invalid")
    BY <1>4 DEF AnswerReview
  <2>2. CASE task.fix = 0
    <3> DEFINE t == [At("identity") EXCEPT !.fix = task.call]
    <3>1. task' = [t EXCEPT !.call = 0]
      BY <1>4, <2>2 DEF AnswerReview
    <3>2. /\ DOMAIN t = DOMAIN task /\ t.kind = task.kind /\ t.at = "identity" /\ t.key = task.key
          /\ t.then = task.then /\ t.fix = task.call /\ t.todo = task.todo
      BY Fields DEF At
    <3> HIDE DEF t
    <3> QED BY <1>1, <1>2, <2>1, <2>2, <3>1, <3>2
  <2>3. CASE task.fix # 0
    <3> DEFINE t == Throw("other")
    <3>1. task' = [t EXCEPT !.call = 0]
      BY <1>4, <2>3 DEF AnswerReview
    <3>2. /\ DOMAIN t = DOMAIN task /\ t.kind = task.kind /\ t.at = "throw" /\ t.key = task.key
          /\ t.then = task.then /\ t.fix = task.fix /\ t.todo = task.todo
      BY Fields DEF Throw
    <3> HIDE DEF t
    <3> QED BY <1>1, <1>2, <2>1, <3>1, <3>2
  <2> QED BY <2>2, <2>3
<1> QED BY <1>3, <1>4

LEMMA ApplyMoves ==
  ASSUME ExplorationInv, Apply
  PROVE  task.at = "apply" /\ Moves("next", task.key, task.then, task.call, task.fix, Tail(task.todo))
<1>1. task.at = "apply" /\ task' = [At("next") EXCEPT !.todo = Tail(@)]
  BY DEF Apply
<1> QED BY <1>1, Fields DEF At, Moves

LEMMA ReviewDoneMoves ==
  ASSUME ExplorationInv, ReviewDone
  PROVE  /\ task.at = "next" /\ task.todo = <<>> /\ task.then[1] \in {"saved", "open", "batch"}
         /\ task.then[1] = "saved" => task' = NoTask
         /\ task.then[1] = "open" => \/ Turns("throw")
                                     \/ Moves("plan", task.key, NoKey, task.call, task.fix, task.todo)
         /\ task.then[1] = "batch" => Moves("plan", task.key, NoKey, task.call, task.fix, task.todo)
<1>1. task.at = "next" /\ task.todo = <<>> /\ task.then[1] \in {"saved", "open", "batch"}
  BY TaskFields DEF ReviewDone, Sound
<1>2. ASSUME task' = [At("plan") EXCEPT !.then = NoKey]
      PROVE  Moves("plan", task.key, NoKey, task.call, task.fix, task.todo)
  BY <1>2, Fields DEF At, Moves
<1>3. CASE task.then[1] = "saved"
  BY <1>1, <1>3 DEF ReviewDone
<1>4. CASE task.then[1] = "open"
  BY <1>1, <1>2, <1>4, ThrowTurns DEF ReviewDone
<1>5. CASE task.then[1] = "batch"
  BY <1>1, <1>2, <1>5 DEF ReviewDone
<1> QED BY <1>1, <1>3, <1>4, <1>5

LEMMA StageMoves ==
  ASSUME ExplorationInv, NEW key, NEW next, Stage(key, next)
  PROVE  \/ /\ key \notin DOMAIN attempt /\ Moves(next, key, task.then, task.call, task.fix, task.todo)
            /\ attempt' = [k \in DOMAIN attempt \cup {key} |->
                            IF k = key THEN [status |-> "prepared", input |-> Input(key), result |-> NoResult]
                                       ELSE attempt[k]]
         \/ /\ key \in DOMAIN attempt /\ attempt' = attempt
            /\ \/ Moves("throw", key, task.then, task.call, task.fix, task.todo)
               \/ attempt[key].status = "prepared" /\ Moves(next, key, task.then, task.call, task.fix, task.todo)
               \/ /\ attempt[key].status = "completed"
                  /\ Moves("answered", key, task.then, task.call, task.fix, task.todo)
<1>1. ASSUME NEW at, task' = [[task EXCEPT !.key = key] EXCEPT !.at = at]
      PROVE  Moves(at, key, task.then, task.call, task.fix, task.todo)
  BY <1>1, Fields DEF Moves
<1>2. ASSUME task' = [[task EXCEPT !.key = key] EXCEPT !.at = "throw", !.error = "other"]
      PROVE  Moves("throw", key, task.then, task.call, task.fix, task.todo)
  BY <1>2, Fields DEF Moves
<1>3. CASE key \notin DOMAIN attempt
  <2>1. /\ attempt' = [k \in DOMAIN attempt \cup {key} |->
                         IF k = key THEN [status |-> "prepared", input |-> Input(key), result |-> NoResult]
                                    ELSE attempt[k]]
        /\ task' = [[task EXCEPT !.key = key] EXCEPT !.at = next]
    BY <1>3 DEF Stage
  <2> QED BY <1>1, <1>3, <2>1
<1>4. CASE key \in DOMAIN attempt
  <2>1. /\ attempt' = attempt
        /\ \/ attempt[key].status = "completed" /\ task' = [[task EXCEPT !.key = key] EXCEPT !.at = "answered"]
           \/ attempt[key].status = "prepared" /\ task' = [[task EXCEPT !.key = key] EXCEPT !.at = next]
           \/ task' = [[task EXCEPT !.key = key] EXCEPT !.at = "throw", !.error = "other"]
    BY <1>4 DEF Stage
  <2> QED BY <1>1, <1>2, <1>4, <2>1
<1> QED BY <1>3, <1>4

LEMMA PlanningMoves ==
  ASSUME ExplorationInv, task' = Planning
  PROVE  Moves("plan", NoKey, task.then, task.call, task.fix, task.todo)
<1>1. task' = [At("plan") EXCEPT !.key = NoKey]
  BY DEF Planning
<1> QED BY <1>1, Fields DEF At, Moves

LEMMA LaunchRests ==
  ASSUME NEW allowed, NEW kind \in {"review", "experiment", "exploration"}, NEW ack, LaunchIf(allowed, kind, ack)
  PROVE  Rests
<1>1. CASE task' = task
  BY <1>1 DEF Rests, Turns, Moves
<1>2. CASE task' = Launched(kind, ack)
  <2>1. PICK at \in {"away", "begin"} : /\ at = IF kind = "experiment" THEN "away" ELSE "begin"
                                        /\ task' = [NoTask EXCEPT !.kind = kind, !.ack = ack, !.at = at]
    BY <1>2 DEF Launched
  <2>2. task' = [kind |-> kind, stop |-> "no", at |-> at, ack |-> ack, key |-> NoKey, then |-> NoKey,
                 todo |-> <<>>, view |-> <<>>, chunk |-> 0, fix |-> 0, call |-> 0, error |-> "none"]
    BY <2>1 DEF NoTask, NoKey
  <2>3. /\ task'.kind = kind /\ task'.at = at /\ task'.key = NoKey /\ task'.then = NoKey
        /\ task'.call = 0 /\ task'.fix = 0 /\ task'.todo = <<>>
    BY <2>2
  <2>4. task'.at = IF task'.kind = "experiment" THEN "away" ELSE "begin"
    BY <2>1, <2>3
  <2> QED BY <2>3, <2>4 DEF Rests
<1> QED BY <1>1, <1>2 DEF LaunchIf

\* What the owner, a session, time and the process do besides.
LEMMA OtherRests ==
  ASSUME ExplorationInv, Next, ~TaskStep
  PROVE  Rests
<1>1. ASSUME task' = task
      PROVE  Rests
  BY <1>1 DEF Rests, Turns, Moves
<1>2. ASSUME NEW stop, task' = [task EXCEPT !.stop = stop]
      PROVE  Rests
  BY <1>2, Fields DEF Rests, Turns, Moves
<1>3. CASE (\E ack \in BOOLEAN : ReviewSaved(ack)) \/ Experiment \/ Start \/ Resume \/ Extend
  BY <1>3, LaunchRests DEF ReviewSaved, Experiment, Start, Resume, Extend
<1>4. CASE Pause \/ Quit
  BY <1>1, <1>2, <1>4 DEF Pause, Quit
<1>5. CASE Edit \/ SessionSaves \/ Materialize \/ TimeRunsOut
  BY <1>1, <1>5 DEF Edit, SessionSaves, Materialize, TimeRunsOut
<1>6. CASE Restart
  BY <1>6 DEF Restart, Rests, NoTask
<1> QED BY <1>3, <1>4, <1>5, <1>6 DEF Next

LEMMA NoTaskIs ==
  ASSUME task' = NoTask
  PROVE  /\ task'.kind = "none" /\ task'.at = "idle" /\ task'.key = NoKey /\ task'.then = NoKey
         /\ task'.call = 0 /\ task'.fix = 0 /\ task'.todo = <<>>
BY DEF NoTask, NoKey

LEMMA DecisionIs ==
  ASSUME BatchesShaped, CountsOK
  PROVE  /\ Decision[1] = "review" => /\ Decision[2] \in DOMAIN batch /\ Decision[2] \in Nat
                                      /\ batch[Decision[2]].status \in {"awaiting-review", "reviewing"}
         /\ Decision[1] = "map" => Decision[2] = expl.rounds + 1
         /\ Decision[1] = "search" => /\ Decision[2] \in DOMAIN gap /\ Decision[2] \in Nat
                                      /\ gap[Decision[2]].status = "search-needed" /\ expl.searches < expl.maxSearches
         /\ Decision[1] = "generate" => /\ Decision[2] \in DOMAIN gap /\ Decision[2] \in Nat
                                        /\ gap[Decision[2]].status = "ready"
                                        /\ InState({"awaiting-review", "reviewing"}) = {}
                                        /\ InState({"unknown-dispatch"}) = {}
<1> DEFINE R == InState({"awaiting-review", "reviewing"})
           r == Lowest(R)
           g == Lowest(Available)
<1>1. DOMAIN batch \subseteq Nat /\ DOMAIN gap \subseteq Nat
  BY ListIs DEF BatchesShaped
<1>2. R # {} => r \in R /\ r \in Nat
  <2>1. R \in SUBSET Nat
    BY <1>1 DEF InState
  <2> HIDE DEF R
  <2> QED BY <2>1, LowestIn
<1>3. Available # {} => g \in Available /\ g \in Nat
  <2>1. Available \in SUBSET Nat
    BY <1>1 DEF Available
  <2> QED BY <2>1, LowestIn
<1>4. \/ Decision[1] = "stop"
      \/ R # {} /\ Decision = <<"review", r>>
      \/ /\ R = {} /\ InState({"unknown-dispatch"}) = {}
         /\ \/ Decision = <<"map", expl.rounds + 1>>
            \/ /\ Available # {}
               /\ \/ gap[g].status = "ready" /\ Decision = <<"generate", g>>
                  \/ /\ gap[g].status # "ready" /\ ~(expl.searches >= expl.maxSearches)
                     /\ Decision = <<"search", g>>
  BY DEF Decision
<1> HIDE DEF R, r, g
<1>5. CASE Decision[1] = "stop"
  BY <1>5
<1>6. CASE R # {} /\ Decision = <<"review", r>>
  <2>1. Decision[1] = "review" /\ Decision[2] = r
    BY <1>6
  <2>2. r \in DOMAIN batch /\ batch[r].status \in {"awaiting-review", "reviewing"} /\ r \in Nat
    BY <1>2, <1>6 DEF R, InState
  <2> QED BY <2>1, <2>2
<1>7. CASE Decision = <<"map", expl.rounds + 1>>
  BY <1>7
<1>8. CASE R = {} /\ InState({"unknown-dispatch"}) = {} /\ Available # {} /\ gap[g].status = "ready" /\ Decision = <<"generate", g>>
  <2>1. Decision[1] = "generate" /\ Decision[2] = g /\ g \in DOMAIN gap /\ g \in Nat
    BY <1>3, <1>8 DEF Available
  <2> QED BY <1>8, <2>1 DEF R
<1>9. CASE /\ Available # {} /\ gap[g].status # "ready" /\ ~(expl.searches >= expl.maxSearches)
           /\ Decision = <<"search", g>>
  <2>1. Decision[1] = "search" /\ Decision[2] = g
    BY <1>9
  <2>2. g \in DOMAIN gap /\ g \in Nat /\ gap[g].status = "search-needed"
    BY <1>3, <1>9 DEF Available
  <2>3. expl.searches < expl.maxSearches
    BY <1>9 DEF CountsOK
  <2> QED BY <2>1, <2>2, <2>3
<1> QED BY <1>4, <1>5, <1>6, <1>7, <1>8, <1>9

LEMMA UnfinishedIs ==
  ASSUME BatchesShaped, Unfinished # {}
  PROVE  Lowest(Unfinished) \in DOMAIN batch /\ Lowest(Unfinished) \in Nat /\ batch[Lowest(Unfinished)].status \in {"planned", "generating"}
<1>1. DOMAIN batch \subseteq Nat
  BY ListIs DEF BatchesShaped
<1>2. Unfinished \in SUBSET Nat
  BY <1>1 DEF Unfinished, InState
<1>3. Lowest(Unfinished) \in Unfinished
  BY <1>2, LowestIn
<1> QED BY <1>1, <1>3 DEF Unfinished, InState

\* What a task does next, and what it is there for.
LEMMA PlacesStep ==
  ASSUME ExplorationInv, CallsShaped, BatchesShaped, CountsOK, PlacesOK, Next
  PROVE  PlacesOK'
<1>0. /\ NoKey = <<"none", 0>> /\ NoKey[1] = "none" /\ NoKey \notin StageKind \X Nat
      /\ \A k \in StageKind \X Nat : k[1] \in StageKind
      /\ NoKey \in {"none", "saved", "open", "batch"} \X Nat /\ 0 \in Nat
  BY DEF NoKey, NoTask, StageKind
<1>1. Sound(task)
  BY TaskFields
<1>2. CASE Rests
  <2>1. CASE task' = NoTask
    BY <1>0, <2>1, NoTaskIs DEF PlacesOK, Budgeted
  <2>2. CASE Turns(task.at)
    BY <2>2 DEF PlacesOK, Turns, Moves, Budgeted
  <2>3. CASE /\ task'.kind \in {"review", "experiment", "exploration"}
             /\ task'.at = IF task'.kind = "experiment" THEN "away" ELSE "begin"
             /\ task'.key = NoKey /\ task'.then = NoKey /\ task'.call = 0 /\ task'.fix = 0 /\ task'.todo = <<>>
    BY <1>0, <2>3 DEF PlacesOK, Budgeted
  <2> QED BY <1>2, <2>1, <2>2, <2>3 DEF Rests
\* Steps that stay with a comparison, or go on without one.
<1>3. ASSUME NEW at, Turns(at), at \in {"throw", "apply", "next"}, task.at = "search" => FALSE, at # "throw" => task.key = NoKey
      PROVE  PlacesOK'
  BY <1>0, <1>3 DEF PlacesOK, Turns, Moves, Budgeted
<1>4. ASSUME Turns("throw")
      PROVE  PlacesOK'
  BY <1>0, <1>4 DEF PlacesOK, Turns, Moves, Budgeted
<1>5. ASSUME NEW at \in {"throw", "next", "identity", "apply", "asking"}, NEW then \in {"none", "saved", "open", "batch"} \X Nat,
             NEW call \in Nat, NEW fix \in Nat, NEW todo, task.key = NoKey, Moves(at, task.key, then, call, fix, todo),
             then[1] \in {"open", "batch"} => Budgeted, at = "asking" => call # 0
      PROVE  PlacesOK'
  BY <1>0, <1>5 DEF PlacesOK, Moves, Budgeted
<1>6. CASE Begin
  <2>1. task.key = NoKey /\ task.call = 0 /\ task.at = "begin"
    BY <1>1, <1>6 DEF Sound, Begin
  <2>2. PICK then \in {<<"saved", 0>>, <<"open", 0>>} :
          OpenReview(then) /\ (then[1] = "open" => task.kind # "review")
    BY <1>6 DEF Begin
  <2>3. then \in {"none", "saved", "open", "batch"} \X Nat /\ (then[1] \in {"open", "batch"} => Budgeted)
    BY <2>1, <2>2 DEF PlacesOK, Budgeted
  <2> QED BY <1>5, <2>1, <2>2, <2>3, OpenReviewMoves DEF PlacesOK
<1>7. CASE PlanReview
  <2>1. task.key = NoKey /\ task.call = 0 /\ task.at = "plan" /\ Budgeted
    BY <1>1, <1>7 DEF Sound, PlanReview, Deciding, PlacesOK
  <2>2. OpenReview(<<"batch", Decision[2]>>) /\ Decision[2] \in Nat
    BY <1>7, DecisionIs DEF PlanReview, Deciding
  <2>3. <<"batch", Decision[2]>> \in {"none", "saved", "open", "batch"} \X Nat
    BY <2>2
  <2> QED BY <1>5, <2>1, <2>2, <2>3, OpenReviewMoves DEF PlacesOK
<1>8. CASE StartBatch
  <2>1. task.key = NoKey
    BY <1>1, <1>8 DEF Sound, StartBatch
  <2> QED BY <1>0, <1>4, <1>5, <1>8, <2>1, StartBatchMoves DEF PlacesOK
<1>9. CASE AskReview
  <2>1. task.key = NoKey /\ task.call = 0
    BY <1>1, <1>9 DEF Sound, AskReview
  <2>2. CASE Turns("throw")
    BY <1>4, <2>2
  <2>3. CASE Turns("apply")
    BY <1>5, <2>1, <2>3 DEF PlacesOK, Turns
  <2>4. CASE Moves("identity", task.key, task.then, task.call, 0, task.todo)
    BY <1>0, <1>5, <2>1, <2>4 DEF PlacesOK
  <2>5. CASE Moves("asking", task.key, task.then, Len(review) + 1, task.fix, task.todo) /\ review' = NewCall("prepared")
    <3>1. task'.call = Len(review) + 1
      BY <2>5 DEF Moves
    <3>2. Len(review) \in Nat
      BY ListIs DEF CallsShaped
    <3>3. Len(review) + 1 \in Nat /\ Len(review) + 1 # 0
      BY <3>2
    <3> QED BY <1>5, <2>1, <2>5, <3>3 DEF PlacesOK
  <2> QED BY <1>9, <2>2, <2>3, <2>4, <2>5, AskReviewMoves
<1>10. CASE \E valid \in BOOLEAN : AnswerReview(valid)
  <2>1. task.key = NoKey
    BY <1>1, <1>10 DEF Sound, AnswerReview
  <2> QED BY <1>0, <1>5, <1>10, <2>1, AnswerReviewMoves DEF PlacesOK
<1>11. CASE Apply
  <2>1. task.key = NoKey /\ task.call = 0
    BY <1>1, <1>11 DEF Sound, Apply
  <2> QED BY <1>5, <1>11, <2>1, ApplyMoves DEF PlacesOK
<1>12. CASE ApplyFails \/ CallFails
  BY <1>4, <1>12, ThrowTurns DEF ApplyFails, CallFails
<1>13. CASE ReviewDone
  <2>1. task.key = NoKey /\ task.call = 0
    BY <1>1, <1>13 DEF Sound, ReviewDone
  <2>2. CASE Moves("plan", task.key, NoKey, task.call, task.fix, task.todo) /\ task.then[1] \in {"open", "batch"}
    BY <1>0, <2>1, <2>2 DEF PlacesOK, Moves, Budgeted
  <2>3. CASE task' = NoTask
    BY <1>2, <2>3 DEF Rests, NoTask
  <2> QED BY <1>4, <1>13, <2>2, <2>3, ReviewDoneMoves
<1>14. CASE Count
  <2>1. Turns("counted") /\ task.at = "asking"
    BY <1>14, AtTurns DEF Count
  <2> QED BY <1>0, <2>1 DEF PlacesOK, Turns, Moves, Budgeted
<1>15. CASE Send
  <2>1. Turns("answering") /\ task.at \in {"counted", "search"}
    BY <1>15, AtTurns DEF Send
  <2> QED BY <1>0, <2>1 DEF PlacesOK, Turns, Moves, Budgeted
<1>16. CASE AnswerMap \/ AnswerSearch \/ AnswerGenerate
  <2>1. Turns("answered") /\ task.at = "answering" /\ task.key # NoKey
    BY <1>0, <1>16, AtTurns DEF AnswerMap, AnswerSearch, AnswerGenerate, Answer
  <2> QED BY <1>0, <2>1 DEF PlacesOK, Turns, Moves, Budgeted
<1>17. CASE SaveMap \/ SaveSearch \/ Persist
  <2>1. task.at = "answered" /\ (task' = NoTask \/ task' = Throw("other") \/ task' = Planning)
    BY <1>17 DEF SaveMap, SaveSearch, Persist
  <2>2. CASE task' = NoTask
    BY <1>2, <2>2 DEF Rests, NoTask
  <2>3. CASE task' = Planning
    <3>1. Moves("plan", NoKey, task.then, task.call, task.fix, task.todo)
      BY <2>3, PlanningMoves
    <3> QED BY <1>0, <2>1, <3>1 DEF PlacesOK, Moves, Budgeted
  <2> QED BY <1>4, <2>1, <2>2, <2>3, ThrowTurns
<1>18. ASSUME NEW key \in StageKind \X Nat, NEW next \in {"asking", "search"}, Stage(key, next), task.at = "plan",
              key[1] = "search" <=> next = "search"
       PROVE  PlacesOK'
  <2>1. PICK at \in {next, "throw", "answered"} : Moves(at, key, task.then, task.call, task.fix, task.todo)
    BY <1>18, StageMoves
  <2>2. task.call = 0 /\ Budgeted
    BY <1>1, <1>18 DEF Sound, PlacesOK
  <2>3. key # NoKey /\ key[1] \in StageKind
    BY <1>0, <1>18
  <2> QED BY <1>0, <1>18, <2>1, <2>2, <2>3 DEF PlacesOK, Moves, Budgeted
<1>19. CASE Regenerate
  <2> DEFINE b == Lowest(Unfinished)
  <2>1. Stage(<<"generate", b>>, "asking") /\ task.at = "plan" /\ b \in Nat
    BY <1>19, UnfinishedIs DEF Regenerate
  <2> HIDE DEF b
  <2> QED BY <1>18, <2>1 DEF StageKind
<1>20. CASE PlanMap
  <2>1. Stage(<<"map", Decision[2]>>, "asking") /\ task.at = "plan" /\ Decision[2] \in Nat
    BY <1>20, DecisionIs DEF PlanMap, Deciding, CountsOK
  <2> QED BY <1>18, <2>1 DEF StageKind
<1>21. CASE PlanSearch
  <2>1. Stage(<<"search", Decision[2]>>, "search") /\ task.at = "plan" /\ Decision[2] \in Nat
    BY <1>21, DecisionIs DEF PlanSearch, Deciding
  <2> QED BY <1>18, <2>1 DEF StageKind
<1>22. CASE PlanBatch
  BY <1>2, <1>22 DEF PlanBatch, Rests, Turns, Moves
<1>23. CASE PlanStop \/ Catch \/ ExperimentEnds
  BY <1>2, <1>23 DEF PlanStop, Catch, ExperimentEnds, Rests, NoTask
<1>24. CASE ~TaskStep
  BY <1>2, <1>24, OtherRests
<1> QED
  BY <1>6, <1>7, <1>8, <1>9, <1>10, <1>11, <1>12, <1>13, <1>14, <1>15, <1>16, <1>17, <1>19, <1>20, <1>21, <1>22, <1>23, <1>24
  DEF TaskStep

-----------------------------------------------------------------------------
(* Comparisons.                                                            *)

\* The calls stay, with their requests; what is settled or was sent stays so.
CallsMove(rs) ==
  /\ Listed(rs) /\ DOMAIN rs = DOMAIN review /\ Len(rs) = Len(review)
  /\ \A i \in DOMAIN review :
       /\ {"request", "status"} \subseteq DOMAIN rs[i] /\ rs[i].request = review[i].request
       /\ rs[i].status \in ReviewStatus
       /\ review[i].status \in Settled => rs[i].status = review[i].status
       /\ review[i].status \in WasSent => rs[i].status \in WasSent

LEMMA CallsStay ==
  ASSUME CallsShaped
  PROVE  CallsMove(review)
BY ListIs DEF CallsShaped, CallsMove

\* Recovery and acknowledgement settle what is left over.
LEMMA CallsRecovered ==
  ASSUME CallsShaped, NEW rs \in {Recovered(review), Acknowledged(Recovered(review))}
  PROVE  CallsMove(rs) /\ \A i \in DOMAIN review : rs[i].status \in Settled \cup {"unknown"}
<1> DEFINE rec == Recovered(review)
           ack == Acknowledged(rec)
<1>1. /\ Len(review) \in Nat /\ DOMAIN review = 1..Len(review)
      /\ \A i \in DOMAIN review : {"request", "status"} \subseteq DOMAIN review[i] /\ review[i].status \in ReviewStatus
  BY ListIs DEF CallsShaped
<1>2. rec = [i \in DOMAIN review |-> rec[i]] /\ DOMAIN rec = DOMAIN review
  BY DEF Recovered
<1>3. ASSUME NEW i \in DOMAIN review
      PROVE  /\ DOMAIN rec[i] = DOMAIN review[i] /\ rec[i].request = review[i].request
             /\ rec[i].status = CASE review[i].status = "prepared" -> "never"
                                  [] review[i].status = "sent" -> "unknown"
                                  [] OTHER -> review[i].status
  BY <1>1, <1>3 DEF Recovered
<1>4. ack = [i \in DOMAIN review |-> ack[i]] /\ DOMAIN ack = DOMAIN review
  BY <1>2 DEF Acknowledged
<1>5. ASSUME NEW i \in DOMAIN review
      PROVE  /\ DOMAIN ack[i] = DOMAIN review[i] /\ ack[i].request = review[i].request
             /\ ack[i].status = IF rec[i].status = "unknown" THEN "acknowledged" ELSE rec[i].status
  <2>1. i \in DOMAIN rec /\ {"request", "status"} \subseteq DOMAIN rec[i]
    BY <1>1, <1>2, <1>3, <1>5
  <2> HIDE DEF rec
  <2>2. ack[i] = [rec[i] EXCEPT !.status = IF rec[i].status = "unknown" THEN "acknowledged" ELSE rec[i].status]
    BY <2>1 DEF Acknowledged
  <2> QED BY <1>3, <2>1, <2>2
<1> HIDE DEF rec, ack
<1>6. Listed(rec) /\ Len(rec) = Len(review)
  BY <1>1, <1>2, ListOf
<1>7. Listed(ack) /\ Len(ack) = Len(review)
  BY <1>1, <1>4, ListOf
<1>8. ASSUME NEW i \in DOMAIN review
      PROVE  /\ rec[i].status \in ReviewStatus /\ rec[i].status \in Settled \cup {"unknown"}
             /\ review[i].status \in Settled => rec[i].status = review[i].status
             /\ review[i].status \in WasSent => rec[i].status \in WasSent
  BY <1>1, <1>3, <1>8 DEF ReviewStatus, Settled, WasSent
<1>9. ASSUME NEW i \in DOMAIN review
      PROVE  /\ ack[i].status \in ReviewStatus /\ ack[i].status \in Settled \cup {"unknown"}
             /\ review[i].status \in Settled => ack[i].status = review[i].status
             /\ review[i].status \in WasSent => ack[i].status \in WasSent
  BY <1>5, <1>8, <1>9 DEF ReviewStatus, Settled, WasSent
<1>10. CallsMove(rec)
  BY <1>1, <1>2, <1>3, <1>6, <1>8 DEF CallsMove
<1>11. CallsMove(ack)
  BY <1>1, <1>4, <1>5, <1>7, <1>9 DEF CallsMove
<1> QED BY <1>8, <1>9, <1>10, <1>11 DEF rec, ack

LEMMA CallsSet ==
  ASSUME CallsShaped, task.call \in DOMAIN review, NEW status \in ReviewStatus,
         review[task.call].status \notin Settled,
         review[task.call].status \in WasSent => status \in WasSent
  PROVE  CallsMove(CallIs(status)) /\ CallIs(status)[task.call].status = status
         /\ \A i \in DOMAIN review : i # task.call => CallIs(status)[i] = review[i]
<1> DEFINE rs == CallIs(status)
<1>1. /\ Len(review) \in Nat /\ DOMAIN review = 1..Len(review) /\ review = [i \in DOMAIN review |-> review[i]]
      /\ \A i \in DOMAIN review : {"request", "status"} \subseteq DOMAIN review[i] /\ review[i].status \in ReviewStatus
  BY ListIs DEF CallsShaped
<1>2. rs = [i \in DOMAIN review |-> rs[i]] /\ DOMAIN rs = DOMAIN review
  BY DEF CallIs
<1>3. \A i \in DOMAIN review : i # task.call => rs[i] = review[i]
  BY DEF CallIs
<1>4. rs[task.call] = [review[task.call] EXCEPT !.status = status]
  BY DEF CallIs
<1> HIDE DEF rs
<1>5. DOMAIN rs[task.call] = DOMAIN review[task.call] /\ rs[task.call].status = status /\ rs[task.call].request = review[task.call].request
  BY <1>1, <1>4
<1>6. Listed(rs) /\ Len(rs) = Len(review)
  BY <1>1, <1>2, ListOf
<1>7. CallsMove(rs)
  BY <1>1, <1>2, <1>3, <1>5, <1>6 DEF CallsMove
<1> QED BY <1>3, <1>5, <1>7 DEF rs

\* What the reviews did so far stays right when a call moves.
LEMMA CallsMoveKeeps ==
  ASSUME CallsShaped, SettledBefore, Corrections, Retried, CallsMove(review')
  PROVE  CallsShaped' /\ SettledBefore' /\ Corrections' /\ Retried'
<1>1. /\ Len(review) \in Nat /\ DOMAIN review = 1..Len(review)
      /\ DOMAIN review' = DOMAIN review /\ Len(review') = Len(review)
      /\ \A i \in DOMAIN review : review'[i].request = review[i].request
  BY ListIs DEF CallsShaped, CallsMove
<1>2. \A i \in DOMAIN review : Fix(i)' = Fix(i)
  BY <1>1 DEF Fix
<1>3. CallsShaped'
  BY <1>1, <1>2 DEF CallsShaped, CallsMove
<1>4. SettledBefore'
  BY <1>1 DEF SettledBefore, CallsMove
<1>5. Corrections'
  BY <1>1, <1>2 DEF Corrections
<1>6. ASSUME NEW first \in DOMAIN review, NEW again \in DOMAIN review, first < again,
             review[first].request = review[again].request, review'[first].status \in WasSent
      PROVE  Useless(first, again)'
  <2>1. \A c \in DOMAIN review : c < again => review'[c].status = review[c].status
    <3>1. \A c \in DOMAIN review : c < again => c < Len(review)
      BY <1>1
    <3> QED BY <3>1 DEF SettledBefore, CallsMove
  <2>2. Useless(first, again)
    BY <1>6, <2>1 DEF Retried
  <2> QED BY <1>1, <1>2, <1>6, <2>1, <2>2 DEF Useless
<1>7. Retried'
  BY <1>1, <1>6 DEF Retried
<1> QED BY <1>3, <1>4, <1>5, <1>7

\* A new call is made only when no earlier answer to its request can be used.
LEMMA NewCallKeeps ==
  ASSUME CallsShaped, Corrections, Retried, NEW status \in ReviewStatus, review' = NewCall(status),
         \A i \in DOMAIN review : review[i].status \in Settled, Reusable = {},
         task.fix \in Nat, task.fix # 0 => task.fix \in DOMAIN review /\ Fix(task.fix) = 0
  PROVE  /\ CallsShaped' /\ SettledBefore' /\ Corrections' /\ Retried'
         /\ Len(review') = Len(review) + 1 /\ Len(review') \in DOMAIN review'
         /\ review'[Len(review')].status = status
         /\ review'[Len(review')].request = Request
         /\ \A i \in DOMAIN review : i \in DOMAIN review' /\ review'[i] = review[i]
<1> PICK n, f : n = Len(review) + 1 /\ f = task.fix
  OBVIOUS
<1> DEFINE x == [request |-> Request, status |-> status]
<1>1. /\ Len(review) \in Nat /\ DOMAIN review = 1..Len(review)
      /\ \A i \in DOMAIN review : {"request", "status"} \subseteq DOMAIN review[i] /\ review[i].status \in ReviewStatus /\ Fix(i) \in Nat
  BY ListIs DEF CallsShaped
<1>2. x.request = Request /\ x.status = status /\ DOMAIN x = {"request", "status"} /\ Request.fix = f
  BY DEF Request
<1>3. /\ Listed(review') /\ Len(review') = n /\ DOMAIN review' = 1..n /\ review'[n] = x
      /\ \A i \in DOMAIN review : review'[i] = review[i]
  BY ListAppends DEF NewCall, CallsShaped
<1>4. n \in Nat /\ n \in 1..n /\ DOMAIN review' = DOMAIN review \cup {n} /\ n \notin DOMAIN review /\ (\A i \in DOMAIN review : i < n)
  BY <1>1, <1>3
<1> HIDE DEF x
<1>5. Fix(n)' = f /\ (\A i \in DOMAIN review : Fix(i)' = Fix(i))
  BY <1>2, <1>3 DEF Fix
<1>6. CallsShaped'
  BY <1>1, <1>2, <1>3, <1>4, <1>5 DEF CallsShaped
<1>7. SettledBefore'
  BY <1>3, <1>4, SMTT(60) DEF SettledBefore
<1>8. Corrections'
  <2>1. ASSUME NEW i \in DOMAIN review, Fix(i) # 0
        PROVE  Fix(i) \in DOMAIN review' /\ Fix(i) < i /\ Fix(Fix(i))' = 0
    BY <1>4, <1>5, <2>1 DEF Corrections
  <2>2. f # 0 => f \in DOMAIN review' /\ f < n /\ Fix(f)' = 0
    BY <1>4, <1>5
  <2> QED BY <1>4, <1>5, <2>1, <2>2 DEF Corrections
<1>9. ASSUME NEW first \in DOMAIN review, review[first].request = Request, review[first].status \in WasSent
      PROVE  Useless(first, n)'
  <2>1. review[first].status \in {"acknowledged", "invalid"}
    <3>1. review[first].status # "completed"
      BY <1>9 DEF Reusable
    <3> QED BY <1>9, <3>1 DEF Settled, WasSent
  <2>2. ASSUME NEW c \in DOMAIN review, Fix(c) = first, review[first].status = "invalid"
        PROVE  review[c].status # "completed"
    <3>1. Fix(first) = f
      BY <1>2, <1>9 DEF Fix
    <3>2. first # 0
      BY <1>1
    <3>3. Fix(first) = 0
      BY <2>2, <3>2 DEF Corrections
    <3> QED BY <1>9, <2>2, <3>1, <3>2, <3>3 DEF Reusable, Fix
  <2>3. \A c \in DOMAIN review' : c < n => c \in DOMAIN review
    BY <1>4
  <2> QED BY <1>3, <1>5, <1>9, <2>1, <2>2, <2>3 DEF Useless
<1>10. ASSUME NEW first \in DOMAIN review, NEW again \in DOMAIN review, first < again,
              review[first].request = review[again].request, review[first].status \in WasSent
       PROVE  Useless(first, again)'
  <2>1. Useless(first, again)
    BY <1>10 DEF Retried
  <2>2. \A c \in DOMAIN review' : c < again => c \in DOMAIN review
    BY <1>1, <1>4, <1>10
  <2> QED BY <1>3, <1>5, <2>1, <2>2 DEF Useless
<1>11. Retried'
  <2> SUFFICES ASSUME NEW first \in DOMAIN review', NEW again \in DOMAIN review', first < again,
                      review'[first].request = review'[again].request, review'[first].status \in WasSent
               PROVE  Useless(first, again)'
    BY DEF Retried
  <2>1. first \in DOMAIN review
    BY <1>1, <1>4
  <2> QED BY <1>2, <1>3, <1>4, <1>9, <1>10, <2>1
<1> QED BY <1>2, <1>3, <1>4, <1>6, <1>7, <1>8, <1>11

\* What was sent stays sent.
SentStays == \A i \in DOMAIN review : i \in DOMAIN review' /\ (review[i].status \in WasSent => review'[i].status \in WasSent)

\* A task goes on with its comparison, or leaves it.
LEMMA ReviewGoesOn ==
  ASSUME ReviewsInv, CallsMove(review'), task'.fix \in {0, task.fix},
         task'.call # 0 => /\ task'.call = task.call /\ task'.fix = task.fix
                           /\ task'.at \in {"asking", "counted", "answering", "throw"}
                           /\ task'.at \in {"asking", "counted"} => review'[task.call].status = "prepared"
                           /\ task'.at = "answering" => review'[task.call].status = "sent",
         task'.at \in {"next", "identity", "apply"} => \A i \in DOMAIN review' : review'[i].status \in Settled
  PROVE  ReviewsInv' /\ SentStays
<1>1. CallsShaped' /\ SettledBefore' /\ Corrections' /\ Retried'
  BY CallsMoveKeeps DEF ReviewsInv
<1>2. DOMAIN review' = DOMAIN review /\ Len(review') = Len(review) /\ \A i \in DOMAIN review : Fix(i)' = Fix(i)
  BY DEF CallsMove, Fix
<1>3. PICK f, c, a : f = task'.fix /\ c = task'.call /\ a = task'.at
  OBVIOUS
<1>4. f # 0 => f \in DOMAIN review' /\ Fix(f)' = 0
  BY <1>2, <1>3 DEF ReviewsInv, ReviewTask
<1>5. c # 0 => c = Len(review') /\ c \in DOMAIN review' /\ Fix(c)' = f
  BY <1>2, <1>3 DEF ReviewsInv, ReviewTask
<1>6. ReviewTask'
  BY <1>3, <1>4, <1>5 DEF ReviewTask
<1>7. SentStays
  BY DEF CallsMove, SentStays
<1> QED BY <1>1, <1>6, <1>7 DEF ReviewsInv

LEMMA ReviewsRest ==
  ASSUME ReviewsInv, review' = review, task'.call = 0, task'.fix \in {0, task.fix},
         task'.at \notin {"next", "identity", "apply"}
  PROVE  ReviewsInv' /\ SentStays
BY ReviewGoesOn, CallsStay DEF ReviewsInv

LEMMA ReviewsStep ==
  ASSUME ExplorationInv, BatchesShaped, CountsOK, PlacesOK, ReviewsInv, Next
  PROVE  ReviewsInv' /\ SentStays
<1>1. Sound(task)
  BY TaskFields
<1>2. CallsShaped /\ Listed(review) /\ SettledBefore /\ ReviewTask /\ CallsMove(review)
  BY CallsStay DEF ReviewsInv, CallsShaped
<1>3. Len(review) \in Nat /\ DOMAIN review = 1..Len(review)
  BY <1>2, ListIs
<1>4. ASSUME NEW at, Turns(at), review' = review,
             task.call = 0 \/ at = "throw" \/ (at = task.at /\ at \in {"asking", "counted", "answering"}) \/ (task.at = "asking" /\ at = "counted"),
             at \in {"next", "identity", "apply"} => task.at \in {"next", "identity", "apply"}
      PROVE  ReviewsInv' /\ SentStays
  BY <1>2, <1>4, ReviewGoesOn DEF ReviewTask, Turns, Moves
<1>5. ASSUME NEW at, NEW key, NEW then, NEW todo, NEW fix \in {0, task.fix}, task.call = 0, review' = review,
             Moves(at, key, then, task.call, fix, todo),
             at \in {"next", "identity", "apply"} => task.at \in {"next", "identity", "apply"}
      PROVE  ReviewsInv' /\ SentStays
  BY <1>2, <1>5, ReviewGoesOn DEF ReviewTask, Moves
<1>6. CASE Begin \/ PlanReview
  <2>1. PICK then : OpenReview(then)
    BY <1>6 DEF Begin, PlanReview
  <2>2. task.call = 0
    BY <1>1, <1>6 DEF Sound, Begin, PlanReview, Deciding
  <2>3. CallsMove(review') /\ \A i \in DOMAIN review : review'[i].status \in Settled \cup {"unknown"}
    BY <1>2, <2>1, OpenReviewMoves, CallsRecovered
  <2>4. CASE Moves("throw", task.key, then, task.call, task.fix, task.todo)
    BY <2>2, <2>3, <2>4, ReviewGoesOn DEF Moves
  <2>5. CASE /\ Moves("next", task.key, then, task.call, task.fix, Batches(Unreviewed))
             /\ \A i \in DOMAIN review' : review'[i].status # "unknown"
    <3>1. \A i \in DOMAIN review' : review'[i].status \in Settled
      BY <2>3, <2>5 DEF CallsMove
    <3> QED BY <2>2, <2>3, <2>5, <3>1, ReviewGoesOn DEF Moves
  <2> QED BY <2>1, <2>4, <2>5, OpenReviewMoves
<1>7. CASE StartBatch
  <2>1. task.call = 0 /\ review' = review
    BY <1>1, <1>7 DEF Sound, StartBatch
  <2> QED BY <1>4, <1>5, <1>7, <2>1, StartBatchMoves
<1>8. CASE AskReview
  <2>1. task.call = 0 /\ task.at = "identity"
    BY <1>1, <1>8 DEF Sound, AskReview
  <2>2. CASE review' = review /\ (Turns("apply") \/ Moves("identity", task.key, task.then, task.call, 0, task.todo))
    BY <1>4, <1>5, <2>1, <2>2
  <2>3. ASSUME NEW status \in {"failed", "prepared"}, Reusable = {}, review' = NewCall(status)
        PROVE  /\ CallsShaped' /\ SettledBefore' /\ Corrections' /\ Retried'
               /\ Len(review') = Len(review) + 1 /\ Len(review') \in DOMAIN review'
               /\ review'[Len(review')].status = status
               /\ review'[Len(review')].request = Request
               /\ \A i \in DOMAIN review : i \in DOMAIN review' /\ review'[i] = review[i]
    BY <1>2, <2>1, <2>3, NewCallKeeps DEF ReviewsInv, ReviewTask, ReviewStatus, PlacesOK
  <2>4. CASE Reusable = {} /\ review' = NewCall("failed") /\ Turns("throw")
    <3>1. PICK f : f = task.fix
      OBVIOUS
    <3>2. task'.fix = f /\ task'.call = 0 /\ task'.at = "throw"
      BY <2>1, <2>4, <3>1 DEF Turns, Moves
    <3>3. f # 0 => f \in DOMAIN review' /\ Fix(f)' = 0
      BY <1>2, <2>3, <2>4, <3>1 DEF ReviewTask, Fix
    <3>4. ReviewTask'
      BY <3>2, <3>3 DEF ReviewTask
    <3> QED BY <2>3, <2>4, <3>4 DEF ReviewsInv, SentStays
  <2>5. CASE /\ Reusable = {} /\ review' = NewCall("prepared")
             /\ Moves("asking", task.key, task.then, Len(review) + 1, task.fix, task.todo)
    <3>1. PICK f, c : f = task.fix /\ c = Len(review) + 1
      OBVIOUS
    <3>2. task'.fix = f /\ task'.call = c /\ task'.at = "asking"
      BY <2>5, <3>1 DEF Moves
    <3>3. f # 0 => f \in DOMAIN review' /\ Fix(f)' = 0
      BY <1>2, <2>3, <2>5, <3>1 DEF ReviewTask, Fix
    <3>4. c = Len(review') /\ c \in DOMAIN review' /\ review'[c].status = "prepared" /\ review'[c].request = Request
      BY <2>3, <2>5, <3>1
    <3>5. Fix(c)' = f
      BY <3>1, <3>4 DEF Fix, Request
    <3>6. ReviewTask'
      BY <3>2, <3>3, <3>4, <3>5 DEF ReviewTask
    <3> QED BY <2>3, <2>5, <3>6 DEF ReviewsInv, SentStays
  <2> QED BY <1>8, <2>2, <2>4, <2>5, AskReviewMoves
<1>9. CASE \E valid \in BOOLEAN : AnswerReview(valid)
  <2>1. PICK valid \in BOOLEAN : AnswerReview(valid)
    BY <1>9
  <2>2. task.at = "answering" /\ task.call # 0 /\ task.call = Len(review) /\ task.call \in DOMAIN review
        /\ review[task.call].status = "sent" /\ Fix(task.call) = task.fix
    BY <1>2, <2>1 DEF AnswerReview, ReviewTask
  <2>3. ASSUME NEW status \in {"completed", "invalid"}, review' = CallIs(status)
        PROVE  CallsMove(review') /\ \A i \in DOMAIN review' : review'[i].status \in Settled
    <3>1. status \in ReviewStatus /\ status \in Settled /\ status \in WasSent /\ review[task.call].status \notin Settled
      BY <2>2 DEF ReviewStatus, Settled, WasSent
    <3>2. /\ CallsMove(review') /\ review'[task.call].status = status
          /\ \A i \in DOMAIN review : i # task.call => review'[i] = review[i]
      BY <1>2, <2>2, <2>3, <3>1, CallsSet
    <3>3. \A i \in DOMAIN review : i = task.call \/ i < Len(review)
      BY <1>3, <2>2
    <3> QED BY <1>2, <3>1, <3>2, <3>3 DEF SettledBefore, CallsMove
  <2>4. CASE review' = CallIs("completed") /\ \E at, fix, then, todo : fix \in {0, task.fix} /\ Moves(at, task.key, then, 0, fix, todo)
    <3>1. task'.call = 0 /\ task'.fix \in {0, task.fix}
      BY <2>4 DEF Moves
    <3> QED BY <2>3, <2>4, <3>1, ReviewGoesOn
  <2>5. CASE review' = CallIs("invalid") /\ Moves("throw", task.key, task.then, 0, task.fix, task.todo)
    BY <2>3, <2>5, ReviewGoesOn DEF Moves
  <2>6. CASE review' = CallIs("invalid") /\ task.fix = 0 /\ Moves("identity", task.key, task.then, 0, task.call, task.todo)
    <3>1. PICK f : f = task.call
      OBVIOUS
    <3>2. CallsMove(review') /\ \A i \in DOMAIN review' : review'[i].status \in Settled
      BY <2>3, <2>6
    <3>3. f \in DOMAIN review' /\ Fix(f)' = 0
      BY <2>2, <2>6, <3>1, <3>2 DEF CallsMove, Fix
    <3>4. task'.fix = f /\ task'.call = 0 /\ task'.at = "identity"
      BY <2>6, <3>1 DEF Moves
    <3>5. ReviewTask'
      BY <3>2, <3>3, <3>4 DEF ReviewTask
    <3> QED BY <3>2, <3>5, CallsMoveKeeps DEF ReviewsInv, CallsMove, SentStays
  <2> QED BY <2>1, <2>4, <2>5, <2>6, AnswerReviewMoves
<1>10. CASE Apply
  <2>1. task.call = 0 /\ task.at = "apply" /\ review' = review
    BY <1>1, <1>10 DEF Sound, Apply
  <2> QED BY <1>5, <1>10, <2>1, ApplyMoves
<1>11. CASE ApplyFails
  BY <1>4, <1>11, ThrowTurns DEF ApplyFails
<1>12. CASE ReviewDone
  <2>1. task.call = 0 /\ review' = review
    BY <1>1, <1>12 DEF Sound, ReviewDone
  <2>2. CASE task' = NoTask
    BY <2>1, <2>2, NoTaskIs, ReviewsRest
  <2>3. CASE Turns("throw")
    BY <1>4, <2>1, <2>3
  <2>4. CASE Moves("plan", task.key, NoKey, task.call, task.fix, task.todo)
    BY <1>5, <2>1, <2>4
  <2> QED BY <1>12, <2>2, <2>3, <2>4, ReviewDoneMoves
<1>13. CASE Count
  <2>1. Turns("counted") /\ review' = review /\ task.at = "asking"
    BY <1>13, AtTurns DEF Count
  <2> QED BY <1>4, <2>1
<1>14. CASE Send
  <2>1. Turns("answering") /\ task.at \in {"counted", "search"}
    BY <1>14, AtTurns DEF Send
  <2>2. CASE task.call = 0
    <3>1. review' = review
      BY <1>14, <2>2 DEF Send
    <3> QED BY <1>4, <2>1, <2>2, <3>1
  <2>3. CASE task.call # 0
    <3>1. review' = CallIs("sent") /\ task.at = "counted"
      BY <1>1, <1>14, <2>1, <2>3 DEF Send, Sound, PlacesOK
    <3>2. task.call \in DOMAIN review /\ review[task.call].status = "prepared"
      BY <1>2, <2>3, <3>1 DEF ReviewTask
    <3>3. "sent" \in ReviewStatus /\ "sent" \in WasSent /\ review[task.call].status \notin Settled
      BY <3>2 DEF ReviewStatus, WasSent, Settled
    <3>4. CallsMove(review') /\ review'[task.call].status = "sent"
      BY <1>2, <3>1, <3>2, <3>3, CallsSet
    <3> QED BY <2>1, <3>4, ReviewGoesOn DEF Turns, Moves
  <2> QED BY <2>2, <2>3
<1>15. CASE CallFails
  <2>1. Turns("throw") /\ task.at \in {"asking", "answering"}
    BY <1>15, ThrowTurns DEF CallFails
  <2>2. CASE task.call = 0
    <3>1. review' = review
      BY <1>15, <2>2 DEF CallFails
    <3> QED BY <1>4, <2>1, <2>2, <3>1
  <2>3. CASE task.call # 0
    <3>1. PICK status : review' = CallIs(status) /\ status = IF review[task.call].status = "sent" THEN "unknown" ELSE "failed"
      BY <1>15, <2>3 DEF CallFails
    <3>2. task.call \in DOMAIN review /\ review[task.call].status \in {"prepared", "sent"}
      BY <1>2, <2>1, <2>3 DEF ReviewTask
    <3>3. status \in ReviewStatus /\ (review[task.call].status \in WasSent => status \in WasSent) /\ review[task.call].status \notin Settled
      BY <3>1, <3>2 DEF ReviewStatus, WasSent, Settled
    <3>4. CallsMove(review')
      BY <1>2, <3>1, <3>2, <3>3, CallsSet
    <3> QED BY <2>1, <3>4, ReviewGoesOn DEF Turns, Moves
  <2> QED BY <2>2, <2>3
<1>16. CASE AnswerMap \/ AnswerSearch \/ AnswerGenerate
  <2>1. Turns("answered") /\ review' = review /\ task.key[1] \in {"map", "search", "generate"}
    BY <1>16, AtTurns DEF AnswerMap, AnswerSearch, AnswerGenerate, Answer
  <2>2. task.call = 0
    BY <1>1, <2>1 DEF Sound, NoKey, NoTask
  <2> QED BY <1>4, <2>1, <2>2
<1>17. CASE SaveMap \/ SaveSearch \/ Persist
  <2>1. /\ review' = review /\ task.at = "answered"
        /\ task' = NoTask \/ task' = Throw("other") \/ task' = Planning
    BY <1>17 DEF SaveMap, SaveSearch, Persist
  <2>2. task.call = 0
    BY <1>1, <2>1 DEF Sound
  <2>3. CASE task' = NoTask
    BY <2>1, <2>3, NoTaskIs, ReviewsRest
  <2>4. CASE task' = Throw("other")
    BY <1>4, <2>1, <2>4, ThrowTurns
  <2>5. CASE task' = Planning
    BY <1>5, <2>1, <2>2, <2>5, PlanningMoves
  <2> QED BY <2>1, <2>3, <2>4, <2>5
<1>18. CASE Regenerate \/ PlanMap \/ PlanSearch
  <2>1. PICK key, next : Stage(key, next) /\ next \in {"asking", "search"}
    <3>1. \/ \E b : Stage(<<"generate", b>>, "asking")
          \/ Stage(<<"map", Decision[2]>>, "asking") \/ Stage(<<"search", Decision[2]>>, "search")
      BY <1>18 DEF Regenerate, PlanMap, PlanSearch
    <3> QED BY <3>1
  <2>2. review' = review /\ task.call = 0
    BY <1>1, <1>18 DEF Regenerate, PlanMap, PlanSearch, Deciding, Sound
  <2>3. PICK at : /\ at \in {"asking", "search", "throw", "answered"}
                  /\ Moves(at, key, task.then, task.call, task.fix, task.todo)
    BY <2>1, StageMoves
  <2>4. at \notin {"next", "identity", "apply"} /\ task.fix \in {0, task.fix}
    BY <2>3
  <2> QED BY <1>5, <2>2, <2>3, <2>4
<1>19. CASE PlanBatch
  BY <1>1, <1>4, <1>19 DEF PlanBatch, Deciding, Sound, Turns, Moves
<1>20. CASE PlanStop \/ Catch \/ ExperimentEnds
  <2>1. task' = NoTask /\ review' = review
    BY <1>20 DEF PlanStop, Catch, ExperimentEnds, stages
  <2> QED BY <2>1, NoTaskIs, ReviewsRest
<1>21. CASE Restart
  <2>1. review' = Recovered(review) /\ task' = NoTask
    BY <1>21 DEF Restart
  <2>2. CallsMove(review')
    BY <1>2, <2>1, CallsRecovered
  <2> QED BY <2>1, <2>2, NoTaskIs, ReviewGoesOn
<1>22. CASE ~TaskStep /\ ~Restart
  <2>1. review' = review
    BY <1>22 DEF Next, ReviewSaved, Experiment, Start, Resume, Extend, Pause, Edit, SessionSaves, Materialize, TimeRunsOut, Quit
  <2>2. Rests
    BY <1>22, OtherRests
  <2>3. CASE task' = NoTask
    BY <2>1, <2>3, NoTaskIs, ReviewsRest
  <2>4. CASE Turns(task.at)
    <3>1. CASE task.call = 0
      BY <1>4, <2>1, <2>4, <3>1
    <3>2. CASE task.call # 0
      BY <1>2, <1>4, <2>1, <2>4, <3>2 DEF ReviewTask
    <3> QED BY <3>1, <3>2
  <2>5. CASE task'.at \in {"away", "begin"} /\ task'.call = 0 /\ task'.fix = 0
    BY <2>1, <2>5, ReviewsRest
  <2> QED BY <2>2, <2>3, <2>4, <2>5 DEF Rests
<1> QED
  BY <1>6, <1>7, <1>8, <1>9, <1>10, <1>11, <1>12, <1>13, <1>14, <1>15, <1>16, <1>17, <1>18, <1>19, <1>20, <1>21, <1>22
  DEF TaskStep

-----------------------------------------------------------------------------
(* What is asked.                                                          *)
LEMMA AskedBy ==
  ASSUME Next
  PROVE  asked' = asked \/ Send
BY DEF Next, TaskStep, Begin, StartBatch, AskReview, Apply, ApplyFails, ReviewDone, Count, CallFails,
   AnswerReview, AnswerMap, AnswerSearch, AnswerGenerate, Answer, SaveMap, SaveSearch, Persist,
   Regenerate, PlanBatch, PlanStop, PlanMap, PlanSearch, PlanReview, Catch, ExperimentEnds,
   ReviewSaved, Experiment, Start, Resume, Extend, Pause, Edit, SessionSaves, Materialize, TimeRunsOut, Quit, Restart

LEMMA SendIs ==
  ASSUME ExplorationInv, PlacesOK, Send
  PROVE  /\ Turns("answering")
         /\ \/ /\ task.call # 0 /\ task.at = "counted" /\ review' = CallIs("sent") /\ attempt' = attempt /\ expl' = expl
               /\ asked' = Append(asked, <<IF Budgeted THEN "compare" ELSE "review", task.call>>)
            \/ /\ task.call = 0 /\ task.key # NoKey /\ task.key \in StageKind \X Nat /\ Budgeted
               /\ attempt' = [attempt EXCEPT ![task.key].status = "sent"]
               /\ asked' = Append(asked, task.key)
               /\ \/ task.at = "counted" /\ task.key[1] \in {"map", "generate"} /\ expl' = expl
                  \/ task.at = "search" /\ task.key[1] = "search" /\ expl' = [expl EXCEPT !.searches = @ + 1]
<1>1. Turns("answering") /\ task.at \in {"counted", "search"}
  BY AtTurns DEF Send
<1>2. Sound(task)
  BY TaskFields
<1>3. CASE task.call # 0
  BY <1>1, <1>2, <1>3 DEF Send, Sound, PlacesOK
<1>4. CASE task.call = 0
  <2>1. task.key # NoKey /\ task.key \in StageKind \X Nat /\ Budgeted
    BY <1>1, <1>4 DEF PlacesOK
  <2>2. task.key[1] \in StageKind
    BY <2>1
  <2>3. /\ task.key[1] = "search" <=> task.at = "search"
        /\ task.at = "counted" => task.key[1] \in {"map", "generate"}
    BY <1>1, <2>2 DEF PlacesOK, StageKind
  <2> QED BY <1>1, <1>4, <2>1, <2>3 DEF Send
<1> QED BY <1>3, <1>4

LEMMA SentGrows ==
  ASSUME AskedShaped, NEW x \in (StageKind \cup CompareKind) \X Nat, asked' = Append(asked, x)
  PROVE  /\ AskedShaped' /\ Len(asked) \in Nat /\ DOMAIN asked = 1..Len(asked)
         /\ DOMAIN asked' = DOMAIN asked \cup {Len(asked) + 1} /\ Len(asked) + 1 \notin DOMAIN asked
         /\ asked'[Len(asked) + 1] = x /\ \A i \in DOMAIN asked : asked'[i] = asked[i] /\ i < Len(asked) + 1
<1> DEFINE S == (StageKind \cup CompareKind) \X Nat
<1>1. asked \in Seq(S) /\ x \in S
  BY DEF AskedShaped
<1> HIDE DEF S
<1>2. /\ asked' \in Seq(S) /\ Len(asked) \in Nat /\ DOMAIN asked = 1..Len(asked)
      /\ Len(asked') = Len(asked) + 1 /\ DOMAIN asked' = 1..(Len(asked) + 1)
      /\ asked'[Len(asked) + 1] = x /\ \A i \in DOMAIN asked : asked'[i] = asked[i]
  BY <1>1
<1> QED BY <1>2 DEF AskedShaped, S

LEMMA SentIs ==
  ASSUME ExplorationInv, AskedShaped, PlacesOK, Send
  PROVE  \E x \in (StageKind \cup CompareKind) \X Nat :
           /\ asked' = Append(asked, x)
           /\ task.call # 0 => x[1] \in CompareKind /\ x[2] = task.call /\ x[1] = IF Budgeted THEN "compare" ELSE "review"
           /\ task.call = 0 => x = task.key /\ x[1] \in StageKind
<1>1. CASE task.call # 0
  <2> DEFINE x == <<IF Budgeted THEN "compare" ELSE "review", task.call>>
  <2>1. /\ asked' = Append(asked, x) /\ x[2] = task.call /\ x[1] = IF Budgeted THEN "compare" ELSE "review"
        /\ x \in (StageKind \cup CompareKind) \X Nat /\ x[1] \in CompareKind
    BY <1>1, SendIs DEF CompareKind, PlacesOK
  <2> HIDE DEF x
  <2> QED BY <1>1, <2>1
<1>2. CASE task.call = 0
  <2>1. asked' = Append(asked, task.key) /\ task.key \in StageKind \X Nat
    BY <1>2, SendIs
  <2>2. task.key \in (StageKind \cup CompareKind) \X Nat /\ task.key[1] \in StageKind
    BY <2>1
  <2> QED BY <1>2, <2>1, <2>2
<1> QED BY <1>1, <1>2

LEMMA AskedStep ==
  ASSUME ExplorationInv, BatchesShaped, CountsOK, PlacesOK, ReviewsInv, AskedShaped, AskedReviews, Next
  PROVE  AskedShaped' /\ AskedReviews'
<1>1. SentStays
  BY ReviewsStep
<1>2. ASSUME NEW i \in DOMAIN asked, asked[i][1] \in CompareKind
      PROVE  /\ asked[i][2] \in DOMAIN review /\ asked[i][2] \in DOMAIN review' /\ review[asked[i][2]].status \in WasSent
             /\ review'[asked[i][2]].status \in WasSent
             /\ \A j \in DOMAIN asked : asked[j][1] \in CompareKind /\ i < j => asked[i][2] < asked[j][2]
  BY <1>1, <1>2 DEF AskedReviews, Sent, SentStays
<1>3. CASE asked' = asked
  BY <1>2, <1>3 DEF AskedShaped, AskedReviews, Sent
<1>4. CASE Send
  <2>1. PICK x \in (StageKind \cup CompareKind) \X Nat :
           /\ asked' = Append(asked, x)
           /\ task.call # 0 => x[1] \in CompareKind /\ x[2] = task.call
           /\ task.call = 0 => x[1] \in StageKind
    BY <1>4, SentIs
  <2> DEFINE n == Len(asked) + 1
  <2>2. /\ AskedShaped' /\ n \in Nat /\ DOMAIN asked \subseteq Nat /\ DOMAIN asked' = DOMAIN asked \cup {n} /\ n \notin DOMAIN asked
        /\ asked'[n] = x /\ \A i \in DOMAIN asked : asked'[i] = asked[i] /\ i < n
    BY <2>1, SentGrows
  <2> HIDE DEF n
  <2>3. CASE task.call = 0
    <3>1. x[1] \notin CompareKind
      BY <2>1, <2>3 DEF StageKind, CompareKind
    <3> QED BY <1>2, <2>2, <3>1 DEF AskedReviews, Sent
  <2>4. CASE task.call # 0
    <3>1. task.at = "counted" /\ review' = CallIs("sent")
      BY <1>4, <2>4, SendIs
    <3>2. /\ task.call = Len(review) /\ task.call \in DOMAIN review /\ review[task.call].status = "prepared"
          /\ Len(review) \in Nat /\ DOMAIN review = 1..Len(review) /\ "status" \in DOMAIN review[task.call]
      BY <2>4, <3>1, ListIs DEF ReviewsInv, ReviewTask, CallsShaped
    <3>3. task.call \in DOMAIN review' /\ review'[task.call].status = "sent"
      BY <3>1, <3>2 DEF CallIs
    <3>4. "sent" \in WasSent /\ "prepared" \notin WasSent
      BY DEF WasSent
    <3>5. ASSUME NEW i \in DOMAIN asked, asked[i][1] \in CompareKind
          PROVE  asked[i][2] < x[2]
      <4>1. asked[i][2] \in 1..Len(review) /\ asked[i][2] # Len(review)
        BY <1>2, <3>2, <3>4, <3>5
      <4> QED BY <2>1, <2>4, <3>2, <4>1
    <3>6. \A j \in DOMAIN asked : ~(n < j)
      BY <2>2
    <3>7. ASSUME NEW i \in DOMAIN asked', asked'[i][1] \in CompareKind
          PROVE  /\ asked'[i][2] \in DOMAIN review' /\ review'[asked'[i][2]].status \in WasSent
                 /\ \A j \in DOMAIN asked' : asked'[j][1] \in CompareKind /\ i < j => asked'[i][2] < asked'[j][2]
      <4>1. CASE i = n
        <5>1. ~(n < n)
          BY <2>2
        <5> QED BY <2>1, <2>2, <2>4, <3>3, <3>4, <3>6, <4>1, <5>1
      <4>2. CASE i \in DOMAIN asked
        BY <1>2, <2>2, <3>5, <3>7, <4>2
      <4> QED BY <2>2, <3>7, <4>1, <4>2
    <3> QED BY <2>2, <3>7 DEF AskedReviews, Sent
  <2> QED BY <2>3, <2>4
<1> QED BY <1>3, <1>4, AskedBy

-----------------------------------------------------------------------------
(* Stages.                                                                 *)
\* No attempt goes away, and none is prepared again.
AttemptsStay ==
  \A k \in DOMAIN attempt : k \in DOMAIN attempt' /\ (attempt[k].status # "prepared" => attempt'[k].status # "prepared")

LEMMA AttemptSet ==
  ASSUME AttemptsShaped, NEW k \in DOMAIN attempt, NEW s \in AttemptStatus \ {"prepared"},
         attempt' = [attempt EXCEPT ![k].status = s]
  PROVE  AttemptsShaped' /\ AttemptsStay /\ k \in DOMAIN attempt' /\ attempt'[k].status = s
<1>1. DOMAIN attempt' = DOMAIN attempt /\ attempt' = [x \in DOMAIN attempt' |-> attempt'[x]]
  OBVIOUS
<1>2. {"status", "result"} \subseteq DOMAIN attempt[k]
  BY DEF AttemptsShaped
<1>3. /\ DOMAIN attempt'[k] = DOMAIN attempt[k] /\ attempt'[k].status = s /\ attempt'[k].result = attempt[k].result
      /\ \A x \in DOMAIN attempt : x # k => attempt'[x] = attempt[x]
  BY <1>2
<1>4. \A x \in DOMAIN attempt' : /\ {"status", "result"} \subseteq DOMAIN attempt'[x] /\ attempt'[x].status \in AttemptStatus
                                 /\ attempt'[x].result.gaps \in Seq([early : BOOLEAN, search : BOOLEAN])
  BY <1>1, <1>2, <1>3 DEF AttemptsShaped
<1>5. AttemptsShaped'
  BY <1>1, <1>4 DEF AttemptsShaped
<1>6. AttemptsStay
  BY <1>1, <1>3 DEF AttemptsStay
<1> QED BY <1>1, <1>3, <1>5, <1>6

LEMMA AttemptAnswered ==
  ASSUME AttemptsShaped, NEW k \in DOMAIN attempt, NEW result, result.gaps \in Seq([early : BOOLEAN, search : BOOLEAN]),
         attempt' = [attempt EXCEPT ![k].status = "completed", ![k].result = result]
  PROVE  AttemptsShaped' /\ AttemptsStay
<1>1. DOMAIN attempt' = DOMAIN attempt /\ attempt' = [x \in DOMAIN attempt' |-> attempt'[x]]
  OBVIOUS
<1>2. {"status", "result"} \subseteq DOMAIN attempt[k] /\ "completed" \in AttemptStatus
  BY DEF AttemptsShaped, AttemptStatus
<1>3. /\ DOMAIN attempt'[k] = DOMAIN attempt[k] /\ attempt'[k].status = "completed" /\ attempt'[k].result = result
      /\ \A x \in DOMAIN attempt : x # k => attempt'[x] = attempt[x]
  BY <1>2
<1>4. \A x \in DOMAIN attempt' : /\ {"status", "result"} \subseteq DOMAIN attempt'[x] /\ attempt'[x].status \in AttemptStatus
                                 /\ attempt'[x].result.gaps \in Seq([early : BOOLEAN, search : BOOLEAN])
  BY <1>1, <1>2, <1>3 DEF AttemptsShaped
<1>5. AttemptsShaped'
  BY <1>1, <1>4 DEF AttemptsShaped
<1>6. AttemptsStay
  BY <1>1, <1>3 DEF AttemptsStay
<1> QED BY <1>5, <1>6

LEMMA AttemptsInterrupted ==
  ASSUME AttemptsShaped, attempt' = Interrupted(attempt)
  PROVE  /\ AttemptsShaped' /\ AttemptsStay
         /\ \A k \in DOMAIN attempt : attempt[k].status = "prepared" => attempt'[k].status = "prepared"
<1>1. DOMAIN attempt' = DOMAIN attempt /\ attempt' = [x \in DOMAIN attempt' |-> attempt'[x]]
  BY DEF Interrupted
<1>2. ASSUME NEW k \in DOMAIN attempt
      PROVE  /\ DOMAIN attempt'[k] = DOMAIN attempt[k] /\ attempt'[k].result = attempt[k].result
             /\ attempt'[k].status = IF attempt[k].status = "sent" THEN "unknown" ELSE attempt[k].status
  <2>1. {"status", "result"} \subseteq DOMAIN attempt[k]
    BY <1>2 DEF AttemptsShaped
  <2> QED BY <1>2, <2>1 DEF Interrupted
<1>3. ASSUME NEW x \in DOMAIN attempt'
      PROVE  /\ {"status", "result"} \subseteq DOMAIN attempt'[x] /\ attempt'[x].status \in AttemptStatus
             /\ attempt'[x].result.gaps \in Seq([early : BOOLEAN, search : BOOLEAN])
  <2>1. x \in DOMAIN attempt
    BY <1>1, <1>3
  <2> QED BY <1>2, <2>1 DEF AttemptsShaped, AttemptStatus
<1>4. AttemptsShaped'
  BY <1>1, <1>3 DEF AttemptsShaped
<1> QED BY <1>1, <1>2, <1>4 DEF AttemptsStay

LEMMA AttemptPrepared ==
  ASSUME AttemptsShaped, NEW k \in StageKind \X Nat, k \notin DOMAIN attempt, NEW input,
         attempt' = [x \in DOMAIN attempt \cup {k} |->
                        IF x = k THEN [status |-> "prepared", input |-> input, result |-> NoResult] ELSE attempt[x]]
  PROVE  AttemptsShaped' /\ AttemptsStay /\ k \in DOMAIN attempt' /\ attempt'[k].status = "prepared"
<1> DEFINE r == [status |-> "prepared", input |-> input, result |-> NoResult]
<1>1. /\ DOMAIN r = {"status", "input", "result"} /\ r.status = "prepared" /\ r.result.gaps = <<>>
  BY DEF NoResult
<1>2. <<>> \in Seq([early : BOOLEAN, search : BOOLEAN])
  OBVIOUS
<1> HIDE DEF r
<1>3. attempt' = [x \in DOMAIN attempt \cup {k} |-> IF x = k THEN r ELSE attempt[x]]
  BY DEF r
<1>4. /\ DOMAIN attempt' = DOMAIN attempt \cup {k} /\ attempt' = [x \in DOMAIN attempt' |-> attempt'[x]]
      /\ attempt'[k] = r /\ \A x \in DOMAIN attempt : attempt'[x] = attempt[x]
  BY <1>3
<1>5. ASSUME NEW x \in DOMAIN attempt'
      PROVE  /\ {"status", "result"} \subseteq DOMAIN attempt'[x] /\ attempt'[x].status \in AttemptStatus
             /\ attempt'[x].result.gaps \in Seq([early : BOOLEAN, search : BOOLEAN])
  <2>1. CASE x = k
    BY <1>1, <1>2, <1>4, <2>1 DEF AttemptStatus
  <2>2. CASE x \in DOMAIN attempt
    BY <1>4, <2>2 DEF AttemptsShaped
  <2> QED BY <1>4, <1>5, <2>1, <2>2
<1>6. DOMAIN attempt' \subseteq StageKind \X Nat
  BY <1>4 DEF AttemptsShaped
<1>7. AttemptsShaped'
  BY <1>4, <1>5, <1>6 DEF AttemptsShaped
<1> QED BY <1>1, <1>4, <1>7 DEF AttemptsStay

LEMMA StageGoesOn ==
  ASSUME StagesInv, AttemptsShaped', AttemptsStay, task'.key \in {NoKey, task.key},
         task'.key # NoKey /\ task'.at \in {"asking", "counted", "search"} => attempt'[task.key].status = "prepared",
         task'.key # NoKey /\ task'.at = "answering" => attempt'[task.key].status # "prepared"
  PROVE  StagesInv' /\ AttemptsStay
<1>1. PICK k : k = task'.key
  OBVIOUS
<1>2. NoKey' = NoKey
  BY DEF NoKey, NoTask
<1>3. k # NoKey => k = task.key /\ k \in DOMAIN attempt'
  BY <1>1 DEF StagesInv, StageTask, AttemptsStay
<1>4. StageTask'
  BY <1>1, <1>2, <1>3 DEF StageTask
<1> QED BY <1>4 DEF StagesInv

LEMMA StagesStep ==
  ASSUME ExplorationInv, BatchesShaped, CountsOK, PlacesOK, StagesInv, Next
  PROVE  StagesInv' /\ AttemptsStay
<1>1. Sound(task)
  BY TaskFields
<1>2. AttemptsShaped /\ StageTask
  BY DEF StagesInv
<1>3. ASSUME attempt' = attempt
      PROVE  AttemptsShaped' /\ AttemptsStay
  BY <1>2, <1>3 DEF AttemptsShaped, AttemptsStay
\* Steps that leave the attempts alone, and a stage where it was or on its way out.
<1>4. ASSUME attempt' = attempt, task'.key \in {NoKey, task.key},
             task'.at \in {"asking", "counted", "search"} => task'.key = NoKey \/ task.at \in {"asking", "counted", "search"},
             task'.at = "answering" => task'.key = NoKey \/ task.at = "answering"
      PROVE  StagesInv' /\ AttemptsStay
  BY <1>2, <1>3, <1>4, StageGoesOn DEF StageTask
<1>5. CASE Begin \/ PlanReview
  <2>1. PICK then : OpenReview(then)
    BY <1>5 DEF Begin, PlanReview
  <2>2. attempt' = attempt
    BY <1>5 DEF Begin, PlanReview, stages
  <2>3. task'.key = task.key /\ task'.at \in {"throw", "next"}
    BY <2>1, OpenReviewMoves DEF Moves
  <2> QED BY <1>4, <2>2, <2>3
<1>6. CASE StartBatch \/ AskReview \/ Apply \/ ApplyFails \/ \E valid \in BOOLEAN : AnswerReview(valid)
  <2>1. attempt' = attempt
    BY <1>6 DEF StartBatch, AskReview, Apply, ApplyFails, AnswerReview, stages
  <2>2. task.key = NoKey
    BY <1>1, <1>6 DEF Sound, StartBatch, AskReview, Apply, ApplyFails, AnswerReview
  <2>3. task'.key = task.key
    BY <1>6, StartBatchMoves, AskReviewMoves, ApplyMoves, ThrowTurns, AnswerReviewMoves DEF Moves, Turns, ApplyFails
  <2> QED BY <1>4, <2>1, <2>2, <2>3
<1>7. CASE ReviewDone
  <2>1. task'.key = NoKey \/ (task'.key = task.key /\ task'.at \in {"throw", "plan"})
    BY <1>7, ReviewDoneMoves, NoTaskIs DEF Moves, Turns
  <2>2. attempt' = attempt
    BY <1>7 DEF ReviewDone
  <2>3. task'.key \in {NoKey, task.key}
    BY <2>1
  <2> QED BY <1>4, <2>1, <2>2, <2>3
<1>8. CASE Count
  <2>1. Turns("counted") /\ task.at = "asking" /\ attempt' = attempt
    BY <1>8, AtTurns DEF Count, stages
  <2> QED BY <1>4, <2>1 DEF Turns, Moves
<1>9. CASE Send
  <2>1. CASE task.call # 0
    <3>1. task.key = NoKey
      BY <1>1, <2>1 DEF Sound
    <3> QED BY <1>4, <1>9, <2>1, <3>1, SendIs DEF Turns, Moves
  <2>2. CASE task.call = 0
    <3>1. task.key # NoKey /\ attempt' = [attempt EXCEPT ![task.key].status = "sent"] /\ Turns("answering")
      BY <1>9, <2>2, SendIs
    <3>2. task.key \in DOMAIN attempt /\ "sent" \in AttemptStatus \ {"prepared"}
      BY <1>2, <3>1 DEF StageTask, AttemptStatus
    <3>3. AttemptsShaped' /\ AttemptsStay /\ attempt'[task.key].status = "sent"
      BY <1>2, <3>1, <3>2, AttemptSet
    <3> QED BY <3>1, <3>3, StageGoesOn DEF Turns, Moves
  <2> QED BY <2>1, <2>2
<1>10. CASE CallFails
  <2>1. Turns("throw") /\ task.at \in {"asking", "answering"}
    BY <1>10, ThrowTurns DEF CallFails
  <2>2. CASE task.call # 0
    BY <1>4, <1>10, <2>1, <2>2 DEF CallFails, Turns, Moves
  <2>3. CASE task.call = 0
    <3>1. task.key # NoKey /\ attempt' = [attempt EXCEPT ![task.key].status = "unknown"]
      BY <1>10, <2>1, <2>3 DEF CallFails, PlacesOK
    <3>2. task.key \in DOMAIN attempt /\ "unknown" \in AttemptStatus \ {"prepared"}
      BY <1>2, <3>1 DEF StageTask, AttemptStatus
    <3>3. AttemptsShaped' /\ AttemptsStay
      BY <1>2, <3>1, <3>2, AttemptSet
    <3> QED BY <2>1, <3>3, StageGoesOn DEF Turns, Moves
  <2> QED BY <2>2, <2>3
<1>11. CASE AnswerMap \/ AnswerSearch \/ AnswerGenerate
  <2>1. PICK result : /\ result.gaps \in Seq([early : BOOLEAN, search : BOOLEAN])
                      /\ attempt' = [attempt EXCEPT ![task.key].status = "completed", ![task.key].result = result]
    <3>1. CASE AnswerMap
      <4>1. PICK gaps \in Offers, ok \in BOOLEAN : Answer("map", [NoResult EXCEPT !.gaps = gaps, !.ok = ok])
        BY <3>1 DEF AnswerMap
      <4> DEFINE r == [NoResult EXCEPT !.gaps = gaps, !.ok = ok]
      <4>2. r.gaps = gaps /\ gaps \in Seq([early : BOOLEAN, search : BOOLEAN])
        BY ExplorationAssumption DEF NoResult
      <4> HIDE DEF r
      <4>3. Answer("map", r)
        BY <4>1 DEF r
      <4> QED BY <4>2, <4>3 DEF Answer
    <3>2. CASE AnswerSearch
      <4>1. PICK found \in BOOLEAN : Answer("search", [NoResult EXCEPT !.ok = found])
        BY <3>2 DEF AnswerSearch
      <4> DEFINE r == [NoResult EXCEPT !.ok = found]
      <4>2. r.gaps \in Seq([early : BOOLEAN, search : BOOLEAN])
        BY DEF NoResult
      <4> HIDE DEF r
      <4>3. Answer("search", r)
        BY <4>1 DEF r
      <4> QED BY <4>2, <4>3 DEF Answer
    <3>3. CASE AnswerGenerate
      <4>1. PICK n : Answer("generate", [NoResult EXCEPT !.count = n])
        BY <3>3 DEF AnswerGenerate
      <4> DEFINE r == [NoResult EXCEPT !.count = n]
      <4>2. r.gaps \in Seq([early : BOOLEAN, search : BOOLEAN])
        BY DEF NoResult
      <4> HIDE DEF r
      <4>3. Answer("generate", r)
        BY <4>1 DEF r
      <4> QED BY <4>2, <4>3 DEF Answer
    <3> QED BY <1>11, <3>1, <3>2, <3>3
  <2>2. Turns("answered") /\ task.key[1] \in StageKind
    BY <1>11, AtTurns DEF AnswerMap, AnswerSearch, AnswerGenerate, Answer, StageKind
  <2>3. task.key # NoKey
    BY <2>2 DEF NoKey, NoTask, StageKind
  <2>4. AttemptsShaped' /\ AttemptsStay
    BY <1>2, <2>1, <2>3, AttemptAnswered DEF StageTask
  <2> QED BY <2>2, <2>4, StageGoesOn DEF Turns, Moves
<1>12. CASE SaveMap \/ SaveSearch \/ Persist
  <2>1. /\ attempt' = attempt /\ task.at = "answered"
        /\ task' = NoTask \/ task' = Throw("other") \/ task' = Planning
    BY <1>12 DEF SaveMap, SaveSearch, Persist
  <2>2. task'.key = NoKey \/ (task'.key = task.key /\ task'.at = "throw")
    BY <2>1, NoTaskIs, ThrowTurns, PlanningMoves DEF Turns, Moves
  <2>3. task'.key \in {NoKey, task.key}
    BY <2>2
  <2> QED BY <1>4, <2>1, <2>2, <2>3
<1>13. ASSUME NEW key \in StageKind \X Nat, NEW next \in {"asking", "search"}, Stage(key, next)
       PROVE  StagesInv' /\ AttemptsStay
  <2>1. CASE /\ key \notin DOMAIN attempt /\ Moves(next, key, task.then, task.call, task.fix, task.todo)
             /\ attempt' = [k \in DOMAIN attempt \cup {key} |->
                            IF k = key THEN [status |-> "prepared", input |-> Input(key), result |-> NoResult]
                                       ELSE attempt[k]]
    <3>1. AttemptsShaped' /\ AttemptsStay /\ key \in DOMAIN attempt' /\ attempt'[key].status = "prepared"
      BY <1>2, <2>1, AttemptPrepared
    <3>2. task'.key = key /\ task'.at = next
      BY <2>1 DEF Moves
    <3>3. StageTask'
      BY <3>1, <3>2 DEF StageTask
    <3> QED BY <3>1, <3>3 DEF StagesInv
  <2>2. CASE /\ key \in DOMAIN attempt /\ attempt' = attempt
             /\ \/ Moves("throw", key, task.then, task.call, task.fix, task.todo)
                \/ attempt[key].status = "prepared" /\ Moves(next, key, task.then, task.call, task.fix, task.todo)
                \/ /\ attempt[key].status = "completed"
                   /\ Moves("answered", key, task.then, task.call, task.fix, task.todo)
    <3>1. AttemptsShaped' /\ AttemptsStay
      BY <1>3, <2>2
    <3>2. /\ task'.key = key
          /\ task'.at \in {"throw", "answered"} \/ (task'.at = next /\ attempt[key].status = "prepared")
      BY <2>2 DEF Moves
    <3>3. StageTask'
      BY <2>2, <3>2 DEF StageTask
    <3> QED BY <3>1, <3>3 DEF StagesInv
  <2> QED BY <1>13, <2>1, <2>2, StageMoves
<1>14. CASE Regenerate
  <2> DEFINE b == Lowest(Unfinished)
  <2>1. Stage(<<"generate", b>>, "asking") /\ b \in Nat
    BY <1>14, UnfinishedIs DEF Regenerate
  <2> HIDE DEF b
  <2> QED BY <1>13, <2>1 DEF StageKind
<1>15. CASE PlanMap
  <2>1. Stage(<<"map", Decision[2]>>, "asking") /\ Decision[2] \in Nat
    BY <1>15, DecisionIs DEF PlanMap, Deciding, CountsOK
  <2> QED BY <1>13, <2>1 DEF StageKind
<1>16. CASE PlanSearch
  <2>1. Stage(<<"search", Decision[2]>>, "search") /\ Decision[2] \in Nat
    BY <1>16, DecisionIs DEF PlanSearch, Deciding
  <2> QED BY <1>13, <2>1 DEF StageKind
<1>17. CASE PlanBatch
  BY <1>4, <1>17 DEF PlanBatch
<1>18. CASE PlanStop \/ Catch \/ ExperimentEnds
  <2>1. task' = NoTask /\ attempt' = attempt
    BY <1>18 DEF PlanStop, Catch, ExperimentEnds, stages
  <2>2. task'.key \in {NoKey, task.key} /\ task'.key = NoKey
    BY <2>1, NoTaskIs
  <2> QED BY <1>4, <2>1, <2>2
<1>19. CASE ~TaskStep
  <2>1. attempt' = attempt \/ attempt' = Interrupted(attempt)
    BY <1>19 DEF Next, ReviewSaved, Experiment, Start, Resume, Extend, Pause, Edit, SessionSaves, Materialize,
       TimeRunsOut, Quit, Restart, stages
  <2>2. /\ AttemptsShaped' /\ AttemptsStay
        /\ \A k \in DOMAIN attempt : attempt[k].status = "prepared" => attempt'[k].status = "prepared"
    BY <1>2, <1>3, <2>1, AttemptsInterrupted
  <2>3. Rests
    BY <1>19, OtherRests
  <2>4. \/ task'.key = NoKey
        \/ task'.key = task.key /\ task'.at = task.at
    BY <2>3, NoTaskIs DEF Rests, Turns, Moves
  <2>5. task'.key \in {NoKey, task.key}
    BY <2>4
  <2>6. task'.key # NoKey => task.key \in DOMAIN attempt
    BY <1>2, <2>4 DEF StageTask
  <2>7. task'.key # NoKey /\ task'.at \in {"asking", "counted", "search"} => attempt'[task.key].status = "prepared"
    BY <1>2, <2>2, <2>4 DEF StageTask
  <2>8. task'.key # NoKey /\ task'.at = "answering" => attempt'[task.key].status # "prepared"
    BY <1>2, <2>2, <2>4 DEF StageTask, AttemptsStay
  <2> QED BY <2>2, <2>5, <2>7, <2>8, StageGoesOn
<1> QED
  BY <1>5, <1>6, <1>7, <1>8, <1>9, <1>10, <1>11, <1>12, <1>14, <1>15, <1>16, <1>17, <1>18, <1>19
  DEF TaskStep

LEMMA AskedStagesStep ==
  ASSUME ExplorationInv, BatchesShaped, CountsOK, PlacesOK, StagesInv, AskedShaped, AskedStages, Next
  PROVE  AskedStages'
<1>1. AttemptsStay
  BY StagesStep
<1>2. ASSUME NEW i \in DOMAIN asked, asked[i][1] \in StageKind
      PROVE  /\ asked[i] \in DOMAIN attempt /\ asked[i] \in DOMAIN attempt' /\ attempt[asked[i]].status # "prepared"
             /\ attempt'[asked[i]].status # "prepared"
             /\ \A j \in DOMAIN asked : asked[j][1] \in StageKind /\ asked[i] = asked[j] => i = j
  BY <1>1, <1>2 DEF AskedStages, Sent, AttemptsStay
<1>3. CASE asked' = asked
  BY <1>2, <1>3 DEF AskedStages, Sent
<1>4. CASE Send
  <2>1. PICK x \in (StageKind \cup CompareKind) \X Nat :
           /\ asked' = Append(asked, x)
           /\ task.call # 0 => x[1] \in CompareKind
           /\ task.call = 0 => x = task.key
    BY <1>4, SentIs
  <2> DEFINE n == Len(asked) + 1
  <2>2. /\ DOMAIN asked' = DOMAIN asked \cup {n} /\ n \notin DOMAIN asked
        /\ asked'[n] = x /\ \A i \in DOMAIN asked : asked'[i] = asked[i]
    BY <2>1, SentGrows
  <2> HIDE DEF n
  <2>3. CASE task.call # 0
    <3>1. x[1] \notin StageKind
      BY <2>1, <2>3 DEF StageKind, CompareKind
    <3> QED BY <1>2, <2>2, <3>1 DEF AskedStages, Sent
  <2>4. CASE task.call = 0
    <3>1. task.key # NoKey /\ attempt' = [attempt EXCEPT ![task.key].status = "sent"] /\ task.at \in {"counted", "search"}
      BY <1>4, <2>4, SendIs
    <3>2. task.key \in DOMAIN attempt /\ attempt[task.key].status = "prepared" /\ "status" \in DOMAIN attempt[task.key]
      BY <3>1 DEF StagesInv, StageTask, AttemptsShaped
    <3>3. task.key \in DOMAIN attempt' /\ attempt'[task.key].status = "sent"
      BY <3>1, <3>2
    <3>4. \A i \in DOMAIN asked : asked[i][1] \in StageKind => asked[i] # x
      BY <1>2, <2>1, <2>4, <3>2
    <3>5. ASSUME NEW i \in DOMAIN asked', asked'[i][1] \in StageKind
          PROVE  /\ asked'[i] \in DOMAIN attempt' /\ attempt'[asked'[i]].status # "prepared"
                 /\ \A j \in DOMAIN asked' : asked'[j][1] \in StageKind /\ asked'[i] = asked'[j] => i = j
      <4>1. CASE i = n
        BY <2>1, <2>2, <2>4, <3>3, <3>4, <4>1
      <4>2. CASE i \in DOMAIN asked
        BY <1>2, <2>2, <3>4, <3>5, <4>2
      <4> QED BY <2>2, <3>5, <4>1, <4>2
    <3> QED BY <3>5 DEF AskedStages, Sent
  <2> QED BY <2>3, <2>4
<1> QED BY <1>3, <1>4, AskedBy

-----------------------------------------------------------------------------
(* The budget.                                                             *)
RawOK == expl.raw = Cardinality(origin)
\* What a step may change of the counts.
CountsMove ==
  /\ expl'.calls = expl.calls \/ (expl'.calls = expl.calls + 1 /\ Count /\ Budgeted)
  /\ expl'.searches = expl.searches \/ (expl'.searches = expl.searches + 1 /\ Send /\ task.at = "search")
  /\ expl'.rounds \in {expl.rounds, expl.rounds + 1}
  /\ expl'.maxCalls \in {expl.maxCalls, expl.maxCalls + 1}
  /\ expl'.maxSearches \in {expl.maxSearches, expl.maxSearches + 1}
  /\ expl'.raw \in Nat
  /\ RawOK'

LEMMA RawGrows ==
  ASSUME TypeOK, RawOK, NEW more, more \subseteq Option, more \cap origin = {}
  PROVE  /\ expl.raw \in Nat /\ Cardinality(more) \in Nat /\ expl.raw + Cardinality(more) \in Nat
         /\ expl.raw + Cardinality(more) = Cardinality(origin \cup more)
<1>1. IsFiniteSet(origin) /\ IsFiniteSet(more)
  BY FS_Subset, OptionAssumption DEF TypeOK
<1>2. /\ Cardinality(origin) \in Nat /\ Cardinality(more) \in Nat /\ Cardinality(origin \cap more) = 0
      /\ Cardinality(origin \cup more) = Cardinality(origin) + Cardinality(more) - Cardinality(origin \cap more)
  <2>1. origin \cap more = {}
    OBVIOUS
  <2> QED BY <1>1, <2>1, FS_CardinalityType, FS_Union, FS_EmptySet
<1> QED BY <1>2 DEF RawOK

LEMMA CountsStep ==
  ASSUME ExplorationInv, CountsOK, RawOK, Next
  PROVE  CountsOK' /\ CountsMove
<1>1. /\ DOMAIN expl = {"status", "calls", "searches", "raw", "rounds", "maxCalls", "maxSearches"} /\ TypeOK
  BY DEF ExplorationInv, ExplShape
<1>2. expl.raw \in Nat /\ option \subseteq Option /\ origin \subseteq option
  BY <1>1 DEF CountsOK, TypeOK
<1>3. CountsMove => CountsOK'
  <2> SUFFICES ASSUME CountsMove PROVE CountsOK'
    OBVIOUS
  <2>1. PICK e : e = expl'
    OBVIOUS
  <2>2. e.calls \in Nat /\ e.searches \in Nat /\ e.raw \in Nat /\ e.rounds \in Nat /\ e.maxCalls \in Nat /\ e.maxSearches \in Nat
    BY <2>1 DEF CountsMove, CountsOK
  <2> QED BY <2>1, <2>2 DEF CountsOK
<1> SUFFICES CountsMove
  BY <1>3
\* A step that leaves the counts alone, or takes in what others saved.
<1>4. ASSUME expl'.calls = expl.calls, expl'.searches = expl.searches, expl'.rounds = expl.rounds,
             expl'.maxCalls = expl.maxCalls, expl'.maxSearches = expl.maxSearches,
             \/ expl'.raw = expl.raw /\ origin' = origin
             \/ expl'.raw = expl.raw + Cardinality(option \ origin) /\ origin' = option
      PROVE  CountsMove
  <2>1. PICK e : e = expl'
    OBVIOUS
  <2>2. e.raw \in Nat /\ e.raw = Cardinality(origin')
    <3>1. CASE e.raw = expl.raw /\ origin' = origin
      BY <1>2, <3>1 DEF RawOK
    <3>2. CASE e.raw = expl.raw + Cardinality(option \ origin) /\ origin' = option
      <4>1. option \ origin \subseteq Option /\ (option \ origin) \cap origin = {} /\ origin \cup (option \ origin) = option
        BY <1>2
      <4> DEFINE more == option \ origin
      <4> HIDE DEF more
      <4>2. expl.raw + Cardinality(more) \in Nat /\ expl.raw + Cardinality(more) = Cardinality(origin \cup more)
        BY <1>1, <4>1, RawGrows DEF more
      <4> QED BY <3>2, <4>1, <4>2 DEF more
    <3> QED BY <1>4, <2>1, <3>1, <3>2
  <2>3. RawOK'
    BY <2>1, <2>2 DEF RawOK
  <2> QED BY <1>4, <2>1, <2>2, <2>3 DEF CountsMove
<1>5. CASE expl' = expl /\ origin' = origin
  BY <1>4, <1>5
<1>6. ASSUME NEW s, expl' = [expl EXCEPT !.status = s], origin' = origin
      PROVE  CountsMove
  BY <1>1, <1>4, <1>6
<1>7. /\ DOMAIN Synced(expl) = DOMAIN expl
      /\ Synced(expl).calls = expl.calls /\ Synced(expl).searches = expl.searches /\ Synced(expl).rounds = expl.rounds
      /\ Synced(expl).maxCalls = expl.maxCalls /\ Synced(expl).maxSearches = expl.maxSearches
      /\ Synced(expl).raw = expl.raw + Cardinality(option \ origin)
  BY <1>1 DEF Synced
<1>8. CASE ReviewDone
  <2>1. task.then[1] \in {"saved", "open", "batch"}
    BY <1>8, ReviewDoneMoves
  <2>2. CASE task.then[1] = "saved"
    BY <1>5, <1>8, <2>2 DEF ReviewDone
  <2>3. CASE task.then[1] = "open"
    <3>1. expl' = Synced(expl) /\ origin' = option
      BY <1>8, <2>3 DEF ReviewDone
    <3> QED BY <1>4, <1>7, <3>1
  <2>4. CASE task.then[1] = "batch"
    <3>1. expl' = [Synced(expl) EXCEPT !.status = "mapping-coverage"] /\ origin' = option
      BY <1>8, <2>4 DEF ReviewDone
    <3>2. /\ expl'.calls = expl.calls /\ expl'.searches = expl.searches /\ expl'.rounds = expl.rounds
          /\ expl'.maxCalls = expl.maxCalls /\ expl'.maxSearches = expl.maxSearches
          /\ expl'.raw = expl.raw + Cardinality(option \ origin)
      BY <1>1, <1>7, <3>1
    <3> QED BY <1>4, <3>1, <3>2
  <2> QED BY <2>1, <2>2, <2>3, <2>4
<1>9. CASE Count
  <2>1. origin' = origin
    BY <1>9 DEF Count, ideas
  <2>2. CASE ~Budgeted
    BY <1>5, <1>9, <2>1, <2>2 DEF Count
  <2>3. CASE Budgeted
    <3>1. expl' = [expl EXCEPT !.calls = @ + 1]
      BY <1>9, <2>3 DEF Count
    <3>2. /\ expl'.calls = expl.calls + 1 /\ expl'.searches = expl.searches /\ expl'.rounds = expl.rounds
          /\ expl'.maxCalls = expl.maxCalls /\ expl'.maxSearches = expl.maxSearches /\ expl'.raw = expl.raw
      BY <1>1, <3>1
    <3> QED BY <1>2, <1>9, <2>1, <2>3, <3>2 DEF CountsMove, RawOK
  <2> QED BY <2>2, <2>3
<1>10. CASE Send
  <2>1. origin' = origin
    BY <1>10 DEF Send, ideas
  <2>2. CASE expl' = expl
    BY <1>5, <2>1, <2>2
  <2>3. CASE task.at = "search" /\ expl' = [expl EXCEPT !.searches = @ + 1]
    <3>2. /\ expl'.calls = expl.calls /\ expl'.searches = expl.searches + 1 /\ expl'.rounds = expl.rounds
          /\ expl'.maxCalls = expl.maxCalls /\ expl'.maxSearches = expl.maxSearches /\ expl'.raw = expl.raw
      BY <1>1, <2>3
    <3> QED BY <1>2, <1>10, <2>1, <2>3, <3>2 DEF CountsMove, RawOK
  <2> QED BY <1>10, <2>2, <2>3 DEF Send
<1>11. CASE SaveMap
  <2>1. origin' = origin
    BY <1>11 DEF SaveMap, ideas
  <2>2. CASE expl' = [expl EXCEPT !.rounds = @ + 1]
    <3>2. /\ expl'.calls = expl.calls /\ expl'.searches = expl.searches /\ expl'.rounds = expl.rounds + 1
          /\ expl'.maxCalls = expl.maxCalls /\ expl'.maxSearches = expl.maxSearches /\ expl'.raw = expl.raw
      BY <1>1, <2>2
    <3> QED BY <1>2, <2>1, <3>2 DEF CountsMove, RawOK
  <2> QED BY <1>5, <1>6, <1>11, <2>1, <2>2 DEF SaveMap
<1>12. CASE Persist
  <2> DEFINE new == {o \in Option \ option : Place(o, Option \ option) <= Result.count}
  <2>1. new \subseteq Option /\ new \cap origin = {}
    BY <1>2
  <2>2. /\ origin' = origin \cup new
        /\ expl' = [expl EXCEPT !.raw = @ + Cardinality(new), !.status = "reviewing-batch"]
    BY <1>12 DEF Persist
  <2> HIDE DEF new
  <2>3. expl.raw + Cardinality(new) \in Nat /\ expl.raw + Cardinality(new) = Cardinality(origin \cup new)
    BY <1>1, <2>1, RawGrows
  <2>4. /\ expl'.calls = expl.calls /\ expl'.searches = expl.searches /\ expl'.rounds = expl.rounds
        /\ expl'.maxCalls = expl.maxCalls /\ expl'.maxSearches = expl.maxSearches /\ expl'.raw = expl.raw + Cardinality(new)
    BY <1>1, <2>2
  <2> QED BY <2>2, <2>3, <2>4 DEF CountsMove, RawOK
<1>13. CASE Catch
  <2> DEFINE e == IF task.then[1] \in {"open", "batch"} THEN Synced(expl) ELSE expl
             failed == IF task.error = "budget" THEN "budget-exhausted" ELSE "failed"
  <2>1. /\ expl' = e \/ expl' = [e EXCEPT !.status = failed]
        /\ origin' = IF task.then[1] \in {"open", "batch"} THEN option ELSE origin
    BY <1>13 DEF Catch
  <2>2. /\ DOMAIN e = DOMAIN expl
        /\ e.calls = expl.calls /\ e.searches = expl.searches /\ e.rounds = expl.rounds
        /\ e.maxCalls = expl.maxCalls /\ e.maxSearches = expl.maxSearches
        /\ \/ e.raw = expl.raw /\ origin' = origin
           \/ e.raw = expl.raw + Cardinality(option \ origin) /\ origin' = option
    BY <1>7, <2>1
  <2> HIDE DEF e, failed
  <2>3. /\ expl'.calls = e.calls /\ expl'.searches = e.searches /\ expl'.rounds = e.rounds
        /\ expl'.maxCalls = e.maxCalls /\ expl'.maxSearches = e.maxSearches /\ expl'.raw = e.raw
    BY <1>1, <2>1, <2>2
  <2> QED BY <1>4, <2>2, <2>3
<1>14. CASE Start
  <2> DEFINE e == [expl EXCEPT !.status = IF @ = "none" THEN "mapping-coverage" ELSE @]
  <2>1. expl' = Synced(e) /\ origin' = option
    BY <1>14 DEF Start
  <2>2. /\ DOMAIN e = DOMAIN expl
        /\ e.calls = expl.calls /\ e.searches = expl.searches /\ e.rounds = expl.rounds
        /\ e.maxCalls = expl.maxCalls /\ e.maxSearches = expl.maxSearches /\ e.raw = expl.raw
    BY <1>1
  <2> HIDE DEF e
  <2>3. /\ expl'.calls = expl.calls /\ expl'.searches = expl.searches /\ expl'.rounds = expl.rounds
        /\ expl'.maxCalls = expl.maxCalls /\ expl'.maxSearches = expl.maxSearches
        /\ expl'.raw = expl.raw + Cardinality(option \ origin)
    BY <1>1, <2>1, <2>2 DEF Synced
  <2> QED BY <1>4, <2>1, <2>3
<1>15. CASE Extend
  <2>1. /\ expl' = [expl EXCEPT !.maxCalls = @ + 1, !.maxSearches = @ + 1, !.status = "mapping-coverage"]
        /\ origin' = origin
    BY <1>15 DEF Extend, ideas
  <2>2. /\ expl'.calls = expl.calls /\ expl'.searches = expl.searches /\ expl'.rounds = expl.rounds
        /\ expl'.maxCalls = expl.maxCalls + 1 /\ expl'.maxSearches = expl.maxSearches + 1 /\ expl'.raw = expl.raw
    BY <1>1, <2>1
  <2> QED BY <1>2, <2>1, <2>2 DEF CountsMove, RawOK
<1>16. CASE Regenerate \/ Resume \/ Pause \/ Restart \/ PlanStop
  <2>1. origin' = origin
    BY <1>16 DEF Regenerate, Resume, Pause, Restart, PlanStop, ideas
  <2> QED BY <1>5, <1>6, <1>16, <2>1 DEF Regenerate, Resume, Pause, Restart, PlanStop
<1>17. TaskStep => \/ expl' = expl /\ origin' = origin
                   \/ ReviewDone \/ Count \/ Send \/ SaveMap \/ Persist \/ PlanStop \/ Catch \/ Regenerate
  BY DEF TaskStep, Begin, StartBatch, AskReview, Apply, ApplyFails, CallFails,
     AnswerReview, AnswerMap, AnswerSearch, AnswerGenerate, Answer, SaveSearch,
     PlanBatch, PlanMap, PlanSearch, PlanReview, ExperimentEnds, ideas
<1>18. Next => TaskStep \/ (expl' = expl /\ origin' = origin) \/ Start \/ Resume \/ Extend \/ Pause \/ Restart
  BY DEF Next, ReviewSaved, Experiment, Edit, SessionSaves, Materialize, TimeRunsOut, Quit, ideas
<1>19. CountsMove
  BY <1>5, <1>8, <1>9, <1>10, <1>11, <1>12, <1>13, <1>14, <1>15, <1>16, <1>17, <1>18
<1> QED BY <1>19

\* What is counted goes out next, and a search is recorded as it goes out.
LEMMA WhereCounted ==
  ASSUME ExplorationInv, Next, ~Count
  PROVE  /\ task'.at = "counted" => task.at = "counted" /\ task'.kind = task.kind
         /\ task'.at = "search" => task.at = "search" \/ PlanSearch
<1>1. CASE Begin \/ PlanReview
  BY <1>1, OpenReviewMoves DEF Begin, PlanReview, Moves
<1>2. CASE StartBatch \/ AskReview \/ Apply \/ ApplyFails \/ \E valid \in BOOLEAN : AnswerReview(valid)
  BY <1>2, StartBatchMoves, AskReviewMoves, ApplyMoves, ThrowTurns, AnswerReviewMoves DEF Moves, Turns, ApplyFails
<1>3. CASE ReviewDone
  BY <1>3, ReviewDoneMoves, NoTaskIs DEF Moves, Turns
<1>4. CASE Send \/ CallFails
  BY <1>4, AtTurns, ThrowTurns DEF Send, CallFails, Moves, Turns
<1>5. CASE AnswerMap \/ AnswerSearch \/ AnswerGenerate
  <2>1. task' = At("answered")
    BY <1>5 DEF AnswerMap, AnswerSearch, AnswerGenerate, Answer
  <2> QED BY <2>1, AtTurns DEF Moves, Turns
<1>6. CASE SaveMap \/ SaveSearch \/ Persist
  BY <1>6, NoTaskIs, ThrowTurns, PlanningMoves DEF SaveMap, SaveSearch, Persist, Moves, Turns
<1>7. CASE Regenerate
  <2>1. PICK key : Stage(key, "asking")
    BY <1>7 DEF Regenerate
  <2>2. \E at \in {"asking", "throw", "answered"} : Moves(at, key, task.then, task.call, task.fix, task.todo)
    BY <2>1, StageMoves
  <2> QED BY <2>2 DEF Moves
<1>8. CASE PlanMap \/ PlanSearch
  <2>1. CASE PlanSearch
    <3>1. PICK key : Stage(key, "search")
      BY <2>1 DEF PlanSearch
    <3> QED BY <2>1, <3>1, StageMoves DEF Moves
  <2>2. CASE PlanMap
    <3>1. PICK key : Stage(key, "asking")
      BY <2>2 DEF PlanMap
    <3>2. \E at \in {"asking", "throw", "answered"} : Moves(at, key, task.then, task.call, task.fix, task.todo)
      BY <3>1, StageMoves
    <3> QED BY <3>2 DEF Moves
  <2> QED BY <1>8, <2>1, <2>2
<1>9. CASE PlanBatch
  BY <1>9 DEF PlanBatch
<1>10. CASE PlanStop \/ Catch \/ ExperimentEnds
  BY <1>10, NoTaskIs DEF PlanStop, Catch, ExperimentEnds
<1>11. CASE ~TaskStep
  <2>1. Rests
    BY <1>11, OtherRests
  <2>2. CASE task' = NoTask
    BY <2>2, NoTaskIs
  <2> QED BY <2>1, <2>2 DEF Rests, Turns, Moves
<1> QED
  BY <1>1, <1>2, <1>3, <1>4, <1>5, <1>6, <1>7, <1>8, <1>9, <1>10, <1>11 DEF TaskStep

LEMMA SentCounts ==
  ASSUME AskedShaped, NEW x \in (StageKind \cup CompareKind) \X Nat, asked' = Append(asked, x), NEW kinds
  PROVE  /\ Cardinality(Sent(kinds)) \in Nat
         /\ Cardinality(Sent(kinds)') = Cardinality(Sent(kinds)) + (IF x[1] \in kinds THEN 1 ELSE 0)
<1> DEFINE n == Len(asked) + 1
           old == {i \in DOMAIN asked : asked[i][1] \in kinds}
           new == {i \in DOMAIN asked' : asked'[i][1] \in kinds}
<1>1. /\ Len(asked) \in Nat /\ DOMAIN asked = 1..Len(asked) /\ DOMAIN asked' = DOMAIN asked \cup {n} /\ n \notin DOMAIN asked
      /\ asked'[n] = x /\ \A i \in DOMAIN asked : asked'[i] = asked[i]
  BY SentGrows
<1>2. IsFiniteSet(old)
  <2>1. IsFiniteSet(DOMAIN asked) /\ old \subseteq DOMAIN asked
    BY <1>1, FS_Interval
  <2> QED BY <2>1, FS_Subset
<1> HIDE DEF n
<1>3. new = IF x[1] \in kinds THEN old \cup {n} ELSE old
  BY <1>1
<1>4. n \notin old
  BY <1>1
<1>5. Sent(kinds) = old /\ Sent(kinds)' = new
  BY DEF Sent
<1> HIDE DEF old, new
<1>6. Cardinality(old) \in Nat /\ Cardinality(old \cup {n}) = Cardinality(old) + 1
  BY <1>2, <1>4, FS_AddElement, FS_CardinalityType
<1> QED BY <1>3, <1>5, <1>6

LEMMA BudgetStep ==
  ASSUME ExplorationInv, BatchesShaped, CountsOK, RawOK, PlacesOK, AskedShaped, BudgetOK, Next
  PROVE  BudgetOK'
<1> DEFINE counted == {"map", "generate", "compare"}
           calls == Cardinality(Sent({"map", "generate", "compare"}))
           searches == Cardinality(Sent({"search"}))
<1>1. CountsMove /\ CountsOK'
  BY CountsStep
<1>2. PICK c, s, m, n : c = expl'.calls /\ s = expl'.searches /\ m = expl'.maxCalls /\ n = expl'.maxSearches
  OBVIOUS
<1>3. /\ c \in Nat /\ s \in Nat /\ m \in Nat /\ n \in Nat
      /\ m >= expl.maxCalls /\ n >= expl.maxSearches
      /\ c = expl.calls \/ (c = expl.calls + 1 /\ Count /\ Budgeted)
      /\ s = expl.searches \/ (s = expl.searches + 1 /\ Send /\ task.at = "search")
  BY <1>1, <1>2 DEF CountsMove, CountsOK
<1>4. /\ expl.calls \in Nat /\ expl.searches \in Nat /\ expl.maxCalls \in Nat /\ expl.maxSearches \in Nat
      /\ calls + Counting <= expl.calls /\ expl.calls <= expl.maxCalls
      /\ searches = expl.searches /\ expl.searches <= expl.maxSearches
      /\ task.at = "search" => expl.searches < expl.maxSearches
  BY DEF BudgetOK, CountsOK
<1>5. calls \in Nat
  <2>1. IsFiniteSet(Sent({"map", "generate", "compare"}))
    <3>1. asked \in Seq((StageKind \cup CompareKind) \X Nat)
      BY DEF AskedShaped
    <3>2. DOMAIN asked = 1..Len(asked) /\ Len(asked) \in Nat
      BY <3>1
    <3>3. IsFiniteSet(DOMAIN asked)
      BY <3>2, FS_Interval
    <3> QED BY <3>3, FS_Subset DEF Sent
  <2> QED BY <2>1, FS_CardinalityType
<1>6. Counting \in {0, 1} /\ Counting' \in {0, 1}
  BY DEF Counting
<1>7. SUFFICES /\ calls' + Counting' <= c /\ c <= m /\ searches' = s /\ s <= n
               /\ task'.at = "search" => s < n
  BY <1>2 DEF BudgetOK
<1> HIDE DEF calls, searches
<1>8. CASE Count
  <2>1. asked' = asked /\ task.at = "asking" /\ Turns("counted") /\ expl'.searches = expl.searches
    <3>1. expl'.searches = expl.searches
      BY <1>8 DEF Count
    <3> QED BY <1>8, <3>1, AtTurns DEF Count
  <2>2. task'.at = "counted" /\ Budgeted' = Budgeted
    BY <2>1 DEF Turns, Moves, Budgeted
  <2>3. calls' = calls /\ searches' = searches
    BY <2>1 DEF calls, searches, Sent
  <2>4. Counting = 0 /\ (Counting' = IF Budgeted THEN 1 ELSE 0)
    BY <2>1, <2>2 DEF Counting
  <2>5. CASE Budgeted
    <3>1. c = expl.calls + 1 /\ expl.calls < expl.maxCalls
      <4>1. expl.calls < expl.maxCalls /\ expl' = [expl EXCEPT !.calls = @ + 1]
        BY <1>8, <2>5 DEF Count
      <4>2. "calls" \in DOMAIN expl
        BY DEF ExplorationInv, ExplShape
      <4> QED BY <1>2, <4>1, <4>2
    <3> QED BY <1>2, <1>3, <1>4, <1>5, <2>1, <2>2, <2>3, <2>4, <2>5, <3>1
  <2>6. CASE ~Budgeted
    <3>1. c = expl.calls
      BY <1>3, <2>6
    <3> QED BY <1>2, <1>3, <1>4, <1>5, <2>1, <2>2, <2>3, <2>4, <2>6, <3>1
  <2> QED BY <2>5, <2>6
<1>9. CASE Send
  <2>1. Turns("answering") /\ c = expl.calls /\ Counting' = 0 /\ task'.at = "answering"
    <3>1. Turns("answering") /\ task.at # "asking"
      BY <1>9, SendIs DEF Send
    <3>2. task'.at = "answering"
      BY <3>1 DEF Turns, Moves
    <3>3. ~Count
      BY <3>1 DEF Count
    <3> QED BY <1>3, <3>1, <3>2, <3>3 DEF Counting
  <2>2. PICK x \in (StageKind \cup CompareKind) \X Nat :
           /\ asked' = Append(asked, x)
           /\ task.call # 0 => x[1] = IF Budgeted THEN "compare" ELSE "review"
           /\ task.call = 0 => x = task.key /\ x[1] \in StageKind
    BY <1>9, SentIs
  <2>3. /\ calls' = calls + (IF x[1] \in {"map", "generate", "compare"} THEN 1 ELSE 0)
        /\ searches' = searches + (IF x[1] \in {"search"} THEN 1 ELSE 0)
    BY <2>2, SentCounts DEF calls, searches
  <2>4. CASE task.call # 0
    <3>1. task.at = "counted" /\ expl' = expl
      BY <1>9, <2>4, SendIs
    <3>2. /\ x[1] \notin {"search"} /\ (x[1] \in {"map", "generate", "compare"} <=> Budgeted)
          /\ (Counting = IF Budgeted THEN 1 ELSE 0)
      BY <2>2, <2>4, <3>1 DEF Counting
    <3> QED BY <1>2, <1>3, <1>4, <1>5, <2>1, <2>3, <3>1, <3>2
  <2>5. CASE task.call = 0 /\ task.at = "counted"
    <3>1. task.key[1] \in {"map", "generate"} /\ expl' = expl /\ Budgeted
      BY <1>9, <2>5, SendIs
    <3>2. x[1] \in {"map", "generate"} /\ Counting = 1
      BY <2>2, <2>5, <3>1 DEF Counting
    <3> QED BY <1>2, <1>3, <1>4, <1>5, <2>1, <2>3, <3>1, <3>2
  <2>6. CASE task.call = 0 /\ task.at = "search"
    <3>1. task.key[1] = "search" /\ expl' = [expl EXCEPT !.searches = @ + 1] /\ "searches" \in DOMAIN expl
      BY <1>9, <2>6, SendIs DEF ExplorationInv, ExplShape
    <3>2. x[1] = "search" /\ Counting = 0
      BY <2>2, <2>6, <3>1 DEF Counting
    <3>3. s = expl.searches + 1
      BY <1>2, <3>1
    <3> QED BY <1>2, <1>3, <1>4, <1>5, <2>1, <2>3, <2>6, <3>2, <3>3
  <2>7. task.at \in {"counted", "search"}
    BY <1>9 DEF Send
  <2> QED BY <2>4, <2>5, <2>6, <2>7
<1>10. CASE ~Count /\ ~Send
  <2>1. asked' = asked /\ c = expl.calls /\ s = expl.searches
    BY <1>3, <1>10, AskedBy
  <2>2. calls' = calls /\ searches' = searches
    BY <2>1 DEF calls, searches, Sent
  <2>3. Counting' <= Counting
    BY <1>6, <1>10, WhereCounted DEF Counting, Budgeted
  <2>4. PlanSearch => expl.searches < expl.maxSearches
    BY DecisionIs DEF PlanSearch, Deciding
  <2>5. task'.at = "search" => expl.searches < expl.maxSearches
    BY <1>4, <1>10, <2>4, WhereCounted
  <2> QED BY <1>3, <1>4, <1>5, <1>6, <2>1, <2>2, <2>3, <2>5
<1> QED BY <1>8, <1>9, <1>10

-----------------------------------------------------------------------------
(* Batches.                                                                *)
LEMMA DecidedBy ==
  ASSUME NEW as, ApplyDecisions(as)
  PROVE  Decided(decision) \subseteq Decided(decision)' /\ DOMAIN as \subseteq Decided(decision)'
<1>1. decision' = decision \cup {PlaceOf(family, as, o) : o \in DOMAIN as}
  BY DEF ApplyDecisions
<1>2. ASSUME NEW o
      PROVE  PlaceOf(family, as, o).option = o
  <2>1. ASSUME NEW f, NEW state
        PROVE  Row(o, f, state).option = o
    BY DEF Row
  <2>2. CASE as[o] = Unsure
    BY <2>1, <2>2 DEF PlaceOf, Own, Unsure
  <2>3. CASE as[o] = Own
    BY <2>1, <2>3 DEF PlaceOf, Own, Unsure
  <2>4. CASE as[o] # Unsure /\ as[o] # Own
    BY <2>1, <2>4 DEF PlaceOf
  <2> QED BY <2>2, <2>3, <2>4
<1> QED BY <1>1, <1>2 DEF Decided

\* What was decided on stays so, and a review decides on the batch it compared.
LEMMA DecidedGrows ==
  ASSUME ExplorationInv, Next
  PROVE  Decided(decision) \subseteq Decided(decision)' /\ (Apply => Head(task.todo) \subseteq Decided(decision)')
<1>1. FamiliesOK
  BY DEF ExplorationInv
<1>2. CASE UNCHANGED fvars /\ ~Apply
  BY <1>2 DEF fvars, Decided
<1>3. CASE Apply
  <2>1. PICK as \in Choices : ApplyDecisions(as)
    BY <1>3 DEF Apply
  <2>2. DOMAIN as = Head(task.todo)
    BY <2>1 DEF Choices
  <2> QED BY <2>1, <2>2, DecidedBy
<1>4. CASE Materialize /\ ~Apply
  <2>1. PICK o, place : ApplyDecisions([x \in {o} |-> place])
    BY <1>4 DEF Materialize
  <2> DEFINE as == [x \in {o} |-> place]
  <2> HIDE DEF as
  <2>2. ApplyDecisions(as)
    BY <2>1 DEF as
  <2> QED BY <1>4, <2>2, DecidedBy
<1>5. CASE Edit /\ ~Apply
  <2>1. CASE EditMembership
    BY <1>1, <1>5, <2>1, EditOK
  <2>2. CASE UNCHANGED <<decision, family>>
    BY <1>5, <2>2 DEF Decided
  <2> QED BY <1>5, <2>1, <2>2 DEF Edit, Discard
<1>6. TaskStep => UNCHANGED fvars \/ Apply
  BY DEF TaskStep, Begin, StartBatch, AskReview, ApplyFails, ReviewDone, Count, Send, CallFails,
     AnswerReview, AnswerMap, AnswerSearch, AnswerGenerate, Answer, SaveMap, SaveSearch, Persist,
     Regenerate, PlanBatch, PlanStop, PlanMap, PlanSearch, PlanReview, Catch, ExperimentEnds
<1>7. Next => TaskStep \/ UNCHANGED fvars \/ Materialize \/ Edit
  BY DEF Next, ReviewSaved, Experiment, Start, Resume, Extend, Pause, SessionSaves, TimeRunsOut, Quit, Restart
<1> QED BY <1>2, <1>3, <1>4, <1>5, <1>6, <1>7

\* Every place among c falls in one of the runs of p.
LEMMA DivIs ==
  ASSUME NEW a \in Nat, NEW p \in Nat \ {0}
  PROVE  a \div p \in Nat /\ (a \div p) * p <= a /\ a < (a \div p) * p + p
OBVIOUS

LEMMA RunOf ==
  ASSUME NEW c \in Nat, NEW p \in Nat \ {0}, NEW n \in 1..c
  PROVE  \E i \in 1..((c + p - 1) \div p) : n \in (i - 1) * p + 1..i * p
<1>1. /\ n + p - 1 \in Nat /\ c + p - 1 \in Nat /\ n <= c /\ n >= 1
  OBVIOUS
<1>2. PICK i, k : i = (n + p - 1) \div p /\ k = (c + p - 1) \div p
  OBVIOUS
<1>3. /\ i \in Nat /\ i * p <= n + p - 1 /\ n + p - 1 < i * p + p
      /\ k \in Nat /\ c + p - 1 < k * p + p
  BY <1>1, <1>2, DivIs
<1>4. i * p \in Nat /\ k * p \in Nat
  BY <1>3
<1>5. i # 0
  <2>1. 0 * p = 0
    OBVIOUS
  <2> QED BY <1>1, <1>3, <2>1
<1>6. i <= k
  <2>1. \A a, b \in Nat : a <= b => a * p <= b * p
    OBVIOUS
  <2>2. (k + 1) * p = k * p + p
    BY <1>3
  <2>3. k + 1 <= i => (k + 1) * p <= i * p
    BY <1>3, <2>1
  <2> QED BY <1>1, <1>3, <1>4, <2>2, <2>3
<1>7. (i - 1) * p = i * p - p
  BY <1>3
<1>8. n \in (i - 1) * p + 1..i * p
  BY <1>1, <1>3, <1>4, <1>7
<1>9. i \in 1..k
  BY <1>3, <1>5, <1>6
<1> QED BY <1>2, <1>8, <1>9

\* No idea is left out of the batches of a review.
LEMMA BatchesCover ==
  ASSUME TypeOK, NEW o \in Unreviewed
  PROVE  \E i \in DOMAIN Batches(Unreviewed) : o \in Batches(Unreviewed)[i]
<1> DEFINE c == Cardinality(Unreviewed)
           n == Place(o, Unreviewed)
           below == {x \in Unreviewed : x <= o}
<1>1. IsFiniteSet(Unreviewed) /\ o \in Nat
  BY FS_Subset, OptionAssumption DEF TypeOK, Unreviewed
<1>2. below \subseteq Unreviewed /\ o \in below
  BY <1>1
<1>3. IsFiniteSet(below) /\ Cardinality(below) \in Nat /\ c \in Nat /\ Cardinality(below) <= c /\ Cardinality(below) # 0
  <2> HIDE DEF below
  <2> QED BY <1>1, <1>2, FS_Subset, FS_CardinalityType, FS_EmptySet
<1>4. n = Cardinality(below)
  BY DEF Place
<1> HIDE DEF n, c, below
<1>5. n \in 1..c
  BY <1>3, <1>4
<1>6. PICK i \in 1..((c + PerReview - 1) \div PerReview) : n \in (i - 1) * PerReview + 1..i * PerReview
  BY <1>3, <1>5, RunOf, ExplorationAssumption
<1>7. i \in DOMAIN Batches(Unreviewed) /\ o \in Batches(Unreviewed)[i]
  BY <1>6 DEF Batches, c, n
<1> QED BY <1>7

\* The batches in turn: only the last may be under way, and a reviewed one is decided on.
LastOnly == \A b \in DOMAIN batch : b < Len(batch) => batch[b].status = "reviewed"
ReviewedWhole ==
  \A b \in DOMAIN batch : batch[b].status = "reviewed" =>
    batch[b].saved \subseteq Decided(decision) /\ gap[batch[b].gap].status = "covered"
UnderReview == expl.status = "reviewing-batch" => InState({"awaiting-review", "reviewing"}) # {}
BatchesOrdered == BatchesShaped /\ LastOnly /\ ReviewedWhole

LEMMA InTurnIs ==
  ReviewedInTurn <=> LastOnly /\ ReviewedWhole /\ RawOK /\ UnderReview
BY DEF ReviewedInTurn, LastOnly, ReviewedWhole, RawOK, UnderReview

\* What no step does to a gap or a batch.
GapsKeep ==
  /\ Listed(gap')
  /\ \A g \in DOMAIN gap : g \in DOMAIN gap' /\ (gap[g].status = "covered" => gap'[g].status = "covered")
  /\ \A g \in DOMAIN gap' : "status" \in DOMAIN gap'[g] /\ gap'[g].status \in GapStatus
OneMoves(b) ==
  /\ Listed(batch') /\ Len(batch') = Len(batch) /\ DOMAIN batch' = DOMAIN batch
  /\ \A x \in DOMAIN batch : x # b => batch'[x] = batch[x]
  /\ {"gap", "status", "saved", "after"} \subseteq DOMAIN batch'[b] /\ batch'[b].gap = batch[b].gap
  /\ batch'[b].status \in BatchStatus /\ batch'[b].saved \subseteq option'

LEMMA GapsStay ==
  ASSUME BatchesShaped, gap' = gap
  PROVE  GapsKeep
BY DEF BatchesShaped, GapsKeep

LEMMA BatchesStay ==
  ASSUME BatchesOrdered, GapsKeep, batch' = batch, option \subseteq option', Decided(decision) \subseteq Decided(decision)'
  PROVE  BatchesOrdered'
<1>1. BatchesShaped'
  BY DEF BatchesOrdered, BatchesShaped, GapsKeep
<1>2. LastOnly' /\ ReviewedWhole'
  BY DEF BatchesOrdered, BatchesShaped, LastOnly, ReviewedWhole, GapsKeep
<1> QED BY <1>1, <1>2 DEF BatchesOrdered

LEMMA BatchMoves ==
  ASSUME BatchesOrdered, GapsKeep, option \subseteq option', Decided(decision) \subseteq Decided(decision)',
         NEW b \in DOMAIN batch, OneMoves(b), batch[b].status # "reviewed",
         batch'[b].status = "reviewed" => batch'[b].saved \subseteq Decided(decision)' /\ gap'[batch[b].gap].status = "covered"
  PROVE  BatchesOrdered'
<1>1. BatchesShaped'
  BY DEF BatchesOrdered, BatchesShaped, GapsKeep, OneMoves
<1>2. LastOnly'
  BY DEF BatchesOrdered, LastOnly, OneMoves
<1>3. ReviewedWhole'
  BY DEF BatchesOrdered, BatchesShaped, ReviewedWhole, GapsKeep, OneMoves
<1> QED BY <1>1, <1>2, <1>3 DEF BatchesOrdered

\* Setting the status of a batch, with or without what it saved or came to.
LEMMA BatchSet ==
  ASSUME BatchesShaped, option \subseteq option', NEW b \in DOMAIN batch, NEW r, batch' = [batch EXCEPT ![b] = r],
         DOMAIN r = DOMAIN batch[b], r.gap = batch[b].gap, r.status \in BatchStatus, r.saved \subseteq option'
  PROVE  OneMoves(b) /\ batch'[b] = r
<1>1. Len(batch) \in Nat /\ DOMAIN batch = 1..Len(batch)
  BY ListIs DEF BatchesShaped
<1>2. batch' = [x \in 1..Len(batch) |-> batch'[x]]
  BY <1>1
<1>3. Listed(batch') /\ Len(batch') = Len(batch) /\ DOMAIN batch' = DOMAIN batch
  BY <1>1, <1>2, ListOf
<1>4. batch'[b] = r /\ \A x \in DOMAIN batch : x # b => batch'[x] = batch[x]
  OBVIOUS
<1> QED BY <1>3, <1>4 DEF OneMoves, BatchesShaped

LEMMA BatchStatusSet ==
  ASSUME BatchesShaped, option \subseteq option', NEW b \in DOMAIN batch, NEW s \in BatchStatus,
         batch' = [batch EXCEPT ![b].status = s]
  PROVE  OneMoves(b) /\ batch'[b].status = s /\ batch'[b].saved = batch[b].saved
<1> DEFINE r == [batch[b] EXCEPT !.status = s]
<1>1. {"gap", "status", "saved", "after"} \subseteq DOMAIN batch[b] /\ batch[b].saved \subseteq option'
  BY DEF BatchesShaped
<1>2. DOMAIN r = DOMAIN batch[b] /\ r.gap = batch[b].gap /\ r.status = s /\ r.saved = batch[b].saved
  BY <1>1
<1>3. batch' = [batch EXCEPT ![b] = r]
  OBVIOUS
<1> HIDE DEF r
<1> QED BY <1>1, <1>2, <1>3, BatchSet

LEMMA BatchPlanned ==
  ASSUME BatchesOrdered, GapsKeep, option \subseteq option', Decided(decision) \subseteq Decided(decision)',
         NEW r, batch' = Append(batch, r), {"gap", "status", "saved", "after"} \subseteq DOMAIN r,
         r.status = "planned", r.saved = {}, r.gap \in DOMAIN gap,
         \A b \in DOMAIN batch : batch[b].status = "reviewed"
  PROVE  BatchesOrdered'
<1> PICK n : n = Len(batch) + 1
  OBVIOUS
<1>1. /\ Listed(batch') /\ Len(batch') = n /\ DOMAIN batch' = 1..n /\ batch'[n] = r
      /\ \A i \in DOMAIN batch : batch'[i] = batch[i]
  BY ListAppends DEF BatchesOrdered, BatchesShaped
<1>2. n \in Nat /\ DOMAIN batch' = DOMAIN batch \cup {n}
  BY <1>1, ListIs DEF BatchesOrdered, BatchesShaped
<1>3. BatchesShaped'
  <2>1. ASSUME NEW b \in DOMAIN batch'
        PROVE  /\ {"gap", "status", "saved", "after"} \subseteq DOMAIN batch'[b] /\ batch'[b].status \in BatchStatus
               /\ batch'[b].gap \in DOMAIN gap' /\ batch'[b].saved \subseteq option'
    <3>1. CASE b = n
      BY <1>1, <3>1 DEF BatchStatus, GapsKeep
    <3>2. CASE b \in DOMAIN batch
      BY <1>1, <3>2 DEF BatchesOrdered, BatchesShaped, GapsKeep
    <3> QED BY <1>2, <2>1, <3>1, <3>2
  <2> QED BY <1>1, <2>1 DEF BatchesShaped, GapsKeep
<1>4. LastOnly'
  BY <1>1, <1>2 DEF LastOnly
<1>5. ReviewedWhole'
  BY <1>1, <1>2 DEF BatchesOrdered, BatchesShaped, ReviewedWhole, GapsKeep
<1> QED BY <1>3, <1>4, <1>5 DEF BatchesOrdered

LEMMA GapSet ==
  ASSUME BatchesShaped, NEW g \in DOMAIN gap, NEW s \in GapStatus, gap[g].status # "covered" \/ s = "covered",
         gap' = [gap EXCEPT ![g].status = s]
  PROVE  GapsKeep /\ gap'[g].status = s
<1>1. Len(gap) \in Nat /\ DOMAIN gap = 1..Len(gap) /\ "status" \in DOMAIN gap[g]
  BY ListIs DEF BatchesShaped
<1>2. gap' = [x \in 1..Len(gap) |-> gap'[x]] /\ DOMAIN gap' = DOMAIN gap
  BY <1>1
<1>3. Listed(gap')
  BY <1>1, <1>2, ListOf
<1>4. /\ DOMAIN gap'[g] = DOMAIN gap[g] /\ gap'[g].status = s
      /\ \A x \in DOMAIN gap : x # g => gap'[x] = gap[x]
  BY <1>1
<1> QED BY <1>2, <1>3, <1>4 DEF GapsKeep, BatchesShaped

LEMMA GapsStep ==
  ASSUME ExplorationInv, PlacesOK, StagesInv, BatchesInv, Next
  PROVE  /\ GapsKeep
         /\ ReviewDone /\ task.then[1] = "batch" => gap'[batch[task.then[2]].gap].status = "covered"
         /\ gap' = gap \/ task'.key[1] # "search"
<1>1. BatchesShaped /\ BatchTask
  BY DEF BatchesInv
<1>2. CASE gap' = gap /\ ~ReviewDone
  BY <1>1, <1>2, GapsStay
<1>3. CASE SaveMap
  <2>1. task.key[1] = "map" /\ task.key # NoKey /\ ~ReviewDone
    <3>1. task.key[1] = "map" /\ task.at = "answered"
      BY <1>3 DEF SaveMap
    <3> QED BY <3>1 DEF NoKey, NoTask, ReviewDone
  <2>2. Result.gaps \in Seq([early : BOOLEAN, search : BOOLEAN])
    BY <2>1 DEF StagesInv, StageTask, AttemptsShaped, Result
  <2>3. CASE gap' = gap
    BY <1>2, <2>1, <2>3
  <2>4. CASE /\ task' = Planning
             /\ gap' = gap \o [i \in DOMAIN Result.gaps |->
                              [early |-> Result.gaps[i].early,
                               status |-> IF Result.gaps[i].search THEN "search-needed" ELSE "ready"]]
    <3> DEFINE more == [i \in DOMAIN Result.gaps |->
                         [early |-> Result.gaps[i].early,
                          status |-> IF Result.gaps[i].search THEN "search-needed" ELSE "ready"]]
    <3>1. DOMAIN Result.gaps = 1..Len(Result.gaps) /\ Len(Result.gaps) \in Nat
      BY <2>2
    <3>2. more = [i \in 1..Len(Result.gaps) |-> more[i]]
      BY <3>1
    <3>3. \A i \in DOMAIN more : "status" \in DOMAIN more[i] /\ more[i].status \in GapStatus
      BY DEF GapStatus
    <3>4. gap' = gap \o more
      BY <2>4
    <3> HIDE DEF more
    <3>5. Listed(more)
      BY <3>1, <3>2, ListOf
    <3>6. /\ Listed(gap') /\ DOMAIN gap' = 1..(Len(gap) + Len(more))
          /\ \A i \in DOMAIN gap : gap'[i] = gap[i]
          /\ \A i \in DOMAIN gap' : i \notin DOMAIN gap => i - Len(gap) \in DOMAIN more /\ gap'[i] = more[i - Len(gap)]
      BY <1>1, <3>4, <3>5, ListJoins DEF BatchesShaped
    <3>7. DOMAIN gap \subseteq DOMAIN gap'
      <4>1. Len(gap) \in Nat /\ DOMAIN gap = 1..Len(gap) /\ Len(more) \in Nat
        BY <1>1, <3>5, ListIs DEF BatchesShaped
      <4> QED BY <3>6, <4>1
    <3>8. GapsKeep
      BY <1>1, <3>3, <3>6, <3>7 DEF GapsKeep, BatchesShaped
    <3>9. task'.key = NoKey /\ NoKey[1] # "search"
      BY <2>4, PlanningMoves DEF Moves, NoKey, NoTask
    <3> QED BY <2>1, <3>8, <3>9
  <2> QED BY <1>3, <2>3, <2>4 DEF SaveMap
<1>4. CASE SaveSearch
  <2> DEFINE s == IF Result.ok THEN "ready" ELSE "exhausted"
  <2>1. s \in GapStatus
    BY DEF GapStatus
  <2>2. task.key[1] = "search" /\ gap' = [gap EXCEPT ![task.key[2]].status = s] /\ task' = Planning /\ ~ReviewDone
    BY <1>4 DEF SaveSearch, ReviewDone
  <2> HIDE DEF s
  <2>3. task.key[2] \in DOMAIN gap /\ gap[task.key[2]].status = "search-needed"
    BY <1>1, <2>2 DEF BatchTask
  <2>4. GapsKeep
    BY <1>1, <2>1, <2>2, <2>3, GapSet
  <2>5. task'.key = NoKey /\ NoKey[1] # "search"
    BY <2>2, PlanningMoves DEF Moves, NoKey, NoTask
  <2> QED BY <2>2, <2>4, <2>5
<1>5. CASE ReviewDone
  <2>1. CASE task.then[1] # "batch"
    <3>1. gap' = gap
      BY <1>5, <2>1, ReviewDoneMoves DEF ReviewDone
    <3> QED BY <1>1, <2>1, <3>1, GapsStay
  <2>2. CASE task.then[1] = "batch"
    <3>1. PICK b : b = task.then[2]
      OBVIOUS
    <3>2. gap' = [gap EXCEPT ![batch[b].gap].status = "covered"] /\ b \in DOMAIN batch
      BY <1>1, <1>5, <2>2, <3>1 DEF ReviewDone, BatchTask
    <3>3. batch[b].gap \in DOMAIN gap /\ "covered" \in GapStatus
      BY <1>1, <3>2 DEF BatchesShaped, GapStatus
    <3>4. GapsKeep /\ gap'[batch[b].gap].status = "covered"
      BY <1>1, <3>2, <3>3, GapSet
    <3>5. task'.key = task.key /\ task.key = NoKey
      BY <1>5, <2>2, ReviewDoneMoves, TaskFields DEF Moves, Sound
    <3>6. NoKey[1] # "search"
      BY DEF NoKey, NoTask
    <3> QED BY <3>1, <3>4, <3>5, <3>6
  <2> QED BY <2>1, <2>2
<1>6. Next => gap' = gap \/ ReviewDone \/ SaveMap \/ SaveSearch
  BY DEF Next, TaskStep, Begin, StartBatch, AskReview, Apply, ApplyFails, Count, Send, CallFails,
     AnswerReview, AnswerMap, AnswerSearch, AnswerGenerate, Answer, Persist,
     Regenerate, PlanBatch, PlanStop, PlanMap, PlanSearch, PlanReview, Catch, ExperimentEnds,
     ReviewSaved, Experiment, Start, Resume, Extend, Pause, Edit, SessionSaves, Materialize, TimeRunsOut, Quit, Restart, stages
<1> QED BY <1>2, <1>3, <1>4, <1>5, <1>6

\* Who touches a batch.
BatchSteps == Regenerate \/ PlanBatch \/ PlanReview \/ Persist \/ Catch \/ (ReviewDone /\ task.then[1] = "batch")

LEMMA BatchBy ==
  ASSUME ExplorationInv, Next, ~BatchSteps
  PROVE  batch' = batch
<1>1. CASE ReviewDone
  BY <1>1, ReviewDoneMoves DEF ReviewDone, BatchSteps
<1>2. CASE ~ReviewDone
  BY <1>2 DEF BatchSteps, Next, TaskStep, Begin, StartBatch, AskReview, Apply, ApplyFails, Count, Send, CallFails,
     AnswerReview, AnswerMap, AnswerSearch, AnswerGenerate, Answer, SaveMap, SaveSearch,
     PlanStop, PlanMap, PlanSearch, ExperimentEnds,
     ReviewSaved, Experiment, Start, Resume, Extend, Pause, Edit, SessionSaves, Materialize, TimeRunsOut, Quit, Restart, stages
<1> QED BY <1>1, <1>2

LEMMA StatusBy ==
  ASSUME ExplorationInv, Next, expl'.status = "reviewing-batch"
  PROVE  Persist \/ (expl.status = "reviewing-batch" /\ ~Regenerate /\ ~(ReviewDone /\ task.then[1] = "batch"))
<1>1. DOMAIN expl = {"status", "calls", "searches", "raw", "rounds", "maxCalls", "maxSearches"}
  BY DEF ExplorationInv, ExplShape
<1>2. ASSUME NEW s, s # "reviewing-batch", expl' = [expl EXCEPT !.status = s]
      PROVE  FALSE
  BY <1>1, <1>2
<1>3. DOMAIN Synced(expl) = DOMAIN expl /\ Synced(expl).status = expl.status
  BY <1>1 DEF Synced
<1>4. CASE ReviewDone
  <2>1. CASE task.then[1] = "batch"
    BY <1>1, <1>3, <1>4, <2>1 DEF ReviewDone
  <2>2. CASE task.then[1] # "batch"
    <3>1. expl' = expl \/ expl' = Synced(expl)
      BY <1>4, <2>2, ReviewDoneMoves DEF ReviewDone
    <3>2. ~Regenerate
      BY <1>4, ReviewDoneMoves DEF Regenerate
    <3> QED BY <1>3, <2>2, <3>1, <3>2
  <2> QED BY <2>1, <2>2
<1>5. ~Regenerate
  BY <1>2 DEF Regenerate
<1>6. CASE Resume \/ Pause
  BY <1>2, <1>6 DEF Resume, Pause
<1>7. CASE PlanStop
  <2>1. Decision[1] = "stop" => Decision[2] # "reviewing-batch"
    BY DEF Decision, Terminal
  <2> QED BY <1>2, <1>7, <2>1 DEF PlanStop, Deciding
<1>8. CASE Restart
  BY <1>2, <1>5, <1>8, <1>4 DEF Restart
<1>9. CASE Extend
  BY <1>1, <1>9 DEF Extend
<1>10. CASE Start
  <2>1. expl.status = "reviewing-batch"
    BY <1>1, <1>10 DEF Start, Synced
  <2> QED BY <1>4, <1>5, <2>1
<1>11. CASE Catch
  <2> DEFINE e == IF task.then[1] \in {"open", "batch"} THEN Synced(expl) ELSE expl
             failed == IF task.error = "budget" THEN "budget-exhausted" ELSE "failed"
  <2>1. expl' = e \/ expl' = [e EXCEPT !.status = failed]
    BY <1>11 DEF Catch
  <2>2. DOMAIN e = DOMAIN expl /\ e.status = expl.status /\ failed # "reviewing-batch"
    BY <1>3
  <2> HIDE DEF e, failed
  <2>3. expl.status = "reviewing-batch"
    BY <1>1, <2>1, <2>2
  <2> QED BY <1>4, <1>5, <2>3
<1>12. CASE Count \/ Send \/ SaveMap
  <2>1. expl.status = "reviewing-batch"
    BY <1>1, <1>12 DEF Count, Send, SaveMap
  <2> QED BY <1>4, <1>5, <2>1
<1>13. CASE expl' = expl
  BY <1>4, <1>5, <1>13
<1>14. Next => \/ expl' = expl \/ ReviewDone \/ Regenerate \/ Resume \/ Pause \/ PlanStop \/ Restart \/ Extend \/ Start
               \/ Catch \/ Count \/ Send \/ SaveMap \/ Persist
  BY DEF Next, TaskStep, Begin, StartBatch, AskReview, Apply, ApplyFails, CallFails,
     AnswerReview, AnswerMap, AnswerSearch, AnswerGenerate, Answer, SaveSearch,
     PlanBatch, PlanMap, PlanSearch, PlanReview, ExperimentEnds,
     ReviewSaved, Experiment, Edit, SessionSaves, Materialize, TimeRunsOut, Quit
<1> QED BY <1>4, <1>5, <1>6, <1>7, <1>8, <1>9, <1>10, <1>11, <1>12, <1>13, <1>14

\* A task that goes on with what it is there for.
GoesOn ==
  /\ task'.key[1] \in {"generate", "search"} => task'.key = task.key
  /\ task'.then[1] = "batch" => task'.then = task.then
  /\ task'.then[1] = "batch" /\ task'.at # "throw" => task.at # "throw" /\ task'.todo = task.todo

LEMMA MostGoOn ==
  ASSUME ExplorationInv, Next, ~BatchSteps, ~PlanSearch, ~Apply
  PROVE  GoesOn
<1>1. NoKey[1] = "none"
  BY DEF NoKey, NoTask
<1>2. ASSUME NEW at, Turns(at), task.at = "throw" => at = "throw"
      PROVE  GoesOn
  BY <1>2 DEF GoesOn, Turns, Moves
<1>3. CASE Begin
  <2>1. PICK then : OpenReview(then) /\ then[1] # "batch"
    BY <1>3 DEF Begin
  <2> QED BY <2>1, OpenReviewMoves DEF GoesOn, Moves
<1>4. CASE StartBatch \/ AskReview \/ \E valid \in BOOLEAN : AnswerReview(valid)
  <2>1. task.at # "throw"
    BY <1>4 DEF StartBatch, AskReview, AnswerReview
  <2>2. \E at, call, fix : Moves(at, task.key, task.then, call, fix, task.todo)
    BY <1>4, StartBatchMoves, AskReviewMoves, AnswerReviewMoves DEF Turns
  <2> QED BY <2>1, <2>2 DEF GoesOn, Moves
<1>5. CASE ApplyFails \/ CallFails
  BY <1>2, <1>5, ThrowTurns DEF ApplyFails, CallFails
<1>6. CASE ReviewDone
  BY <1>1, <1>2, <1>6, ReviewDoneMoves, NoTaskIs DEF GoesOn, Moves, BatchSteps
<1>7. CASE Count \/ Send
  BY <1>2, <1>7, AtTurns DEF Count, Send
<1>8. CASE AnswerMap \/ AnswerSearch \/ AnswerGenerate
  <2>1. task' = At("answered") /\ task.at = "answering"
    BY <1>8 DEF AnswerMap, AnswerSearch, AnswerGenerate, Answer
  <2> QED BY <1>2, <2>1, AtTurns
<1>9. CASE SaveMap \/ SaveSearch
  <2>1. task.at = "answered" /\ (task' = NoTask \/ task' = Throw("other") \/ task' = Planning)
    BY <1>9 DEF SaveMap, SaveSearch
  <2>2. CASE task' = NoTask
    BY <1>1, <2>2, NoTaskIs DEF GoesOn
  <2>3. CASE task' = Throw("other")
    BY <1>2, <2>3, ThrowTurns
  <2>4. CASE task' = Planning
    BY <1>1, <2>1, <2>4, PlanningMoves DEF GoesOn, Moves
  <2> QED BY <2>1, <2>2, <2>3, <2>4
<1>10. CASE PlanMap
  <2>1. PICK key : Stage(key, "asking") /\ key[1] = "map" /\ task.at = "plan"
    BY <1>10 DEF PlanMap, Deciding
  <2>2. \E at \in {"asking", "throw", "answered"} : Moves(at, key, task.then, task.call, task.fix, task.todo)
    BY <2>1, StageMoves
  <2> QED BY <2>1, <2>2 DEF GoesOn, Moves
<1>11. CASE PlanStop \/ ExperimentEnds
  BY <1>1, <1>11, NoTaskIs DEF PlanStop, ExperimentEnds, GoesOn
<1>12. CASE ~TaskStep
  <2>1. Rests
    BY <1>12, OtherRests
  <2>2. CASE task' = NoTask
    BY <1>1, <2>2, NoTaskIs DEF GoesOn
  <2>3. CASE Turns(task.at)
    BY <1>2, <2>3
  <2>4. CASE task'.key = NoKey /\ task'.then = NoKey
    BY <1>1, <2>4 DEF GoesOn
  <2> QED BY <2>1, <2>2, <2>3, <2>4 DEF Rests
<1> QED
  BY <1>3, <1>4, <1>5, <1>6, <1>7, <1>8, <1>9, <1>10, <1>11, <1>12 DEF TaskStep, BatchSteps

LEMMA BatchTaskStays ==
  ASSUME BatchTask, GoesOn, batch' = batch, GapsKeep, gap' = gap \/ task'.key[1] # "search",
         Decided(decision) \subseteq Decided(decision)'
  PROVE  BatchTask'
<1>1. PICK k, t : k = task'.key /\ t = task'.then
  OBVIOUS
<1>2. k[1] = "generate" => k[2] \in DOMAIN batch' /\ batch'[k[2]].status = "generating"
  BY <1>1 DEF GoesOn, BatchTask
<1>3. k[1] = "search" => k[2] \in DOMAIN gap' /\ gap'[k[2]].status = "search-needed"
  BY <1>1 DEF GoesOn, BatchTask
<1>4. t[1] = "batch" => t[2] \in DOMAIN batch' /\ batch'[t[2]].status = "reviewing"
  BY <1>1 DEF GoesOn, BatchTask
<1>5. t[1] = "batch" /\ task'.at # "throw" =>
        \A o \in batch'[t[2]].saved : o \in Decided(decision)' \/ \E i \in DOMAIN task'.todo : o \in task'.todo[i]
  BY <1>1 DEF GoesOn, BatchTask
<1> QED BY <1>1, <1>2, <1>3, <1>4, <1>5 DEF BatchTask

LEMMA BatchesStep ==
  ASSUME ExplorationInv, CountsOK, PlacesOK, StagesInv, BatchesInv, Next
  PROVE  BatchesInv'
<1>1. /\ BatchesOrdered /\ BatchesShaped /\ LastOnly /\ ReviewedWhole /\ RawOK /\ UnderReview /\ BatchTask /\ TypeOK
  BY InTurnIs DEF BatchesInv, BatchesOrdered, ExplorationInv
<1>2. /\ option \subseteq option' /\ Decided(decision) \subseteq Decided(decision)' /\ GapsKeep
      /\ gap' = gap \/ task'.key[1] # "search"
  BY DecidedGrows, IdeasStep, GapsStep
<1>3. RawOK'
  BY <1>1, CountsStep DEF CountsMove
<1>4. SUFFICES BatchesOrdered' /\ UnderReview' /\ BatchTask'
  <2>1. ReviewedInTurn' <=> LastOnly' /\ ReviewedWhole' /\ RawOK' /\ UnderReview'
    BY DEF ReviewedInTurn, LastOnly, ReviewedWhole, RawOK, UnderReview
  <2> QED BY <1>3, <2>1 DEF BatchesOrdered, BatchesInv
<1>5. NoKey[1] = "none" /\ Sound(task)
  BY TaskFields DEF NoKey, NoTask
\* What is under review is still there, or was just settled.
<1>6. ASSUME NEW b \in DOMAIN batch, OneMoves(b), ~Persist,
             \/ batch[b].status \notin {"awaiting-review", "reviewing"}
             \/ batch'[b].status \in {"awaiting-review", "reviewing"}
             \/ Regenerate \/ (ReviewDone /\ task.then[1] = "batch")
      PROVE  UnderReview'
  <2> SUFFICES ASSUME expl'.status = "reviewing-batch" PROVE InState({"awaiting-review", "reviewing"})' # {}
    BY DEF UnderReview
  <2>1. expl.status = "reviewing-batch" /\ ~Regenerate /\ ~(ReviewDone /\ task.then[1] = "batch")
    BY <1>6, StatusBy
  <2>2. PICK x \in DOMAIN batch : batch[x].status \in {"awaiting-review", "reviewing"}
    BY <1>1, <2>1 DEF UnderReview, InState
  <2>3. x \in DOMAIN batch' /\ batch'[x].status \in {"awaiting-review", "reviewing"}
    BY <1>6, <2>1, <2>2 DEF OneMoves
  <2> QED BY <2>3 DEF InState
<1>7. CASE batch' = batch /\ ~BatchSteps
  <2>1. BatchesOrdered'
    BY <1>1, <1>2, <1>7, BatchesStay
  <2>2. UnderReview'
    <3> SUFFICES ASSUME expl'.status = "reviewing-batch" PROVE InState({"awaiting-review", "reviewing"})' # {}
      BY DEF UnderReview
    <3>1. InState({"awaiting-review", "reviewing"}) # {}
      BY <1>1, <1>7, StatusBy DEF UnderReview, BatchSteps
    <3> QED BY <1>7, <3>1 DEF InState
  <2>3. CASE ~PlanSearch /\ ~Apply
    BY <1>1, <1>2, <1>7, <2>1, <2>2, <2>3, MostGoOn, BatchTaskStays
  <2>4. CASE PlanSearch
    <3>1. PICK g : /\ Stage(<<"search", g>>, "search") /\ g = Decision[2] /\ Decision[1] = "search"
                   /\ gap' = gap /\ decision' = decision /\ task.at = "plan"
      BY <2>4 DEF PlanSearch, Deciding, fvars
    <3>2. g \in DOMAIN gap /\ gap[g].status = "search-needed"
      BY <1>1, <3>1, DecisionIs
    <3>3. \E at \in {"search", "throw", "answered"} : Moves(at, <<"search", g>>, task.then, task.call, task.fix, task.todo)
      BY <3>1, StageMoves
    <3>4. task'.key = <<"search", g>> /\ task'.then = task.then /\ task'.todo = task.todo
      BY <3>3 DEF Moves
    <3>5. task'.key[1] = "search" /\ task'.key[2] = g
      BY <3>4
    <3>6. BatchTask'
      <4>1. PICK t : t = task.then
        OBVIOUS
      <4>2. t[1] = "batch" => t[2] \in DOMAIN batch /\ batch[t[2]].status = "reviewing"
        BY <1>1, <4>1 DEF BatchTask
      <4>3. t[1] = "batch" => \A o \in batch[t[2]].saved : o \in Decided(decision) \/ \E i \in DOMAIN task.todo : o \in task.todo[i]
        BY <1>1, <3>1, <4>1 DEF BatchTask
      <4> QED BY <1>7, <3>1, <3>2, <3>4, <3>5, <4>1, <4>2, <4>3 DEF BatchTask, Decided
    <3> QED BY <2>1, <2>2, <3>6
  <2>5. CASE Apply
    <3>1. task.at = "apply" /\ Moves("next", task.key, task.then, task.call, task.fix, Tail(task.todo))
      BY <2>5, ApplyMoves
    <3>2. task.key = NoKey /\ task.todo # <<>> /\ task.todo \in Seq(SUBSET option)
      BY <1>5, <3>1, TaskFields DEF Sound
    <3>3. \A i \in DOMAIN task.todo : i = 1 \/ (i - 1 \in DOMAIN Tail(task.todo) /\ Tail(task.todo)[i - 1] = task.todo[i])
      <4> DEFINE s == task.todo
      <4>1. s \in Seq(SUBSET option) /\ s # <<>>
        BY <3>2
      <4> HIDE DEF s
      <4>2. /\ Len(s) \in Nat /\ DOMAIN s = 1..Len(s) /\ DOMAIN Tail(s) = 1..(Len(s) - 1)
            /\ \A i \in 1..(Len(s) - 1) : Tail(s)[i] = s[i + 1]
        BY <4>1
      <4>3. \A i \in DOMAIN s : i = 1 \/ (i - 1 \in 1..(Len(s) - 1) /\ i - 1 + 1 = i)
        BY <4>2
      <4>4. \A i \in DOMAIN s : i = 1 \/ (i - 1 \in DOMAIN Tail(s) /\ Tail(s)[i - 1] = s[i])
        BY <4>2, <4>3
      <4> QED BY <4>4 DEF s
    <3>4. Head(task.todo) = task.todo[1] /\ Head(task.todo) \subseteq Decided(decision)'
      BY <2>5, <3>2, DecidedGrows
    <3>5. task'.key = task.key /\ task'.then = task.then /\ task'.todo = Tail(task.todo)
      BY <3>1 DEF Moves
    <3>6. PICK t : t = task.then
      OBVIOUS
    <3>7. t[1] = "batch" => t[2] \in DOMAIN batch /\ batch[t[2]].status = "reviewing"
      BY <1>1, <3>6 DEF BatchTask
    <3>8. t[1] = "batch" => \A o \in batch[t[2]].saved :
            o \in Decided(decision)' \/ \E i \in DOMAIN Tail(task.todo) : o \in Tail(task.todo)[i]
      <4>1. t[1] = "batch" => \A o \in batch[t[2]].saved : o \in Decided(decision) \/ \E i \in DOMAIN task.todo : o \in task.todo[i]
        BY <1>1, <3>1, <3>6 DEF BatchTask
      <4> QED BY <1>2, <3>3, <3>4, <4>1
    <3>9. task'.key[1] = "none"
      BY <1>5, <3>2, <3>5
    <3>10. BatchTask'
      BY <1>7, <3>5, <3>6, <3>7, <3>8, <3>9 DEF BatchTask
    <3> QED BY <2>1, <2>2, <3>10
  <2> QED BY <2>3, <2>4, <2>5
\* A batch that is not the one under review.
<1>8. ASSUME NEW b \in DOMAIN batch, OneMoves(b), batch[b].status # "reviewing", decision' = decision,
             task'.key[1] = "generate" => task'.key[2] = b /\ batch'[b].status = "generating",
             task'.key[1] # "search",
             task'.then[1] = "batch" => task'.then = task.then /\ task'.todo = task.todo /\ task.at # "throw"
      PROVE  BatchTask'
  <2>1. PICK k, t : k = task'.key /\ t = task'.then
    OBVIOUS
  <2>2. k[1] = "generate" => k[2] \in DOMAIN batch' /\ batch'[k[2]].status = "generating"
    BY <1>8, <2>1 DEF OneMoves
  <2>3. t[1] = "batch" => t[2] \in DOMAIN batch /\ t[2] # b /\ batch[t[2]].status = "reviewing" /\ t = task.then
    BY <1>1, <1>8, <2>1 DEF BatchTask
  <2>4. t[1] = "batch" => t[2] \in DOMAIN batch' /\ batch'[t[2]] = batch[t[2]]
    BY <1>8, <2>3 DEF OneMoves
  <2>5. t[1] = "batch" => \A o \in batch[t[2]].saved : o \in Decided(decision) \/ \E i \in DOMAIN task'.todo : o \in task'.todo[i]
    BY <1>1, <1>8, <2>1, <2>3 DEF BatchTask
  <2> QED BY <1>8, <2>1, <2>2, <2>3, <2>4, <2>5 DEF BatchTask, Decided
<1>9. CASE Regenerate
  <2>1. PICK b : /\ b = Lowest(Unfinished) /\ batch' = [batch EXCEPT ![b].status = "generating"]
                 /\ Stage(<<"generate", b>>, "asking") /\ Unfinished # {} /\ task.at = "plan" /\ decision' = decision
    BY <1>9 DEF Regenerate, fvars
  <2>2. b \in DOMAIN batch /\ batch[b].status \in {"planned", "generating"} /\ "generating" \in BatchStatus
    BY <1>1, <2>1, UnfinishedIs DEF BatchStatus
  <2>3. OneMoves(b) /\ batch'[b].status = "generating"
    BY <1>1, <1>2, <2>1, <2>2, BatchStatusSet
  <2>4. \E at \in {"asking", "throw", "answered"} : Moves(at, <<"generate", b>>, task.then, task.call, task.fix, task.todo)
    BY <2>1, StageMoves
  <2>5. task'.key = <<"generate", b>> /\ task'.then = task.then /\ task'.todo = task.todo
    BY <2>4 DEF Moves
  <2>6. task'.key[1] = "generate" /\ task'.key[2] = b
    BY <2>5
  <2>7. BatchTask'
    BY <1>8, <2>1, <2>2, <2>3, <2>5, <2>6
  <2>8. BatchesOrdered'
    BY <1>1, <1>2, <2>2, <2>3, BatchMoves
  <2>9. UnderReview'
    <3>1. ~Persist
      BY <2>1 DEF Persist
    <3> QED BY <1>6, <1>9, <2>2, <2>3, <3>1
  <2> QED BY <2>7, <2>8, <2>9
<1>10. CASE PlanBatch
  <2>1. PICK g : /\ g = Decision[2] /\ Decision[1] = "generate" /\ Unfinished = {} /\ batch' = Append(batch, NewBatch(g))
                 /\ task' = task /\ gap' = gap /\ decision' = decision /\ expl' = expl
    BY <1>10 DEF PlanBatch, Deciding, fvars
  <2>2. /\ g \in DOMAIN gap /\ InState({"awaiting-review", "reviewing"}) = {} /\ InState({"unknown-dispatch"}) = {}
    BY <1>1, <2>1, DecisionIs
  <2>3. \A b \in DOMAIN batch : batch[b].status = "reviewed"
    BY <1>1, <2>1, <2>2 DEF Unfinished, InState, BatchesShaped, BatchStatus
  <2>4. /\ {"gap", "status", "saved", "after"} \subseteq DOMAIN NewBatch(g) /\ NewBatch(g).status = "planned"
        /\ NewBatch(g).saved = {} /\ NewBatch(g).gap = g
    BY DEF NewBatch
  <2>5. BatchesOrdered'
    BY <1>1, <1>2, <2>1, <2>2, <2>3, <2>4, BatchPlanned
  <2>6. \A b \in DOMAIN batch : b \in DOMAIN batch' /\ batch'[b] = batch[b]
    <3>1. /\ DOMAIN batch' = 1..(Len(batch) + 1) /\ DOMAIN batch = 1..Len(batch) /\ Len(batch) \in Nat
          /\ \A i \in DOMAIN batch : batch'[i] = batch[i]
      BY <1>1, <2>1, ListAppends, ListIs DEF BatchesShaped
    <3> QED BY <3>1
  <2>7. UnderReview'
    BY <1>1, <2>1, <2>2 DEF UnderReview
  <2>8. BatchTask'
    <3>1. task.then[1] # "batch" /\ task.key[1] # "generate"
      BY <1>1, <2>3 DEF BatchTask
    <3> QED BY <1>1, <2>1, <3>1 DEF BatchTask
  <2> QED BY <2>5, <2>7, <2>8
<1>11. CASE PlanReview
  <2>1. PICK b : /\ b = Decision[2] /\ Decision[1] = "review" /\ batch' = [batch EXCEPT ![b].status = "reviewing"]
                 /\ OpenReview(<<"batch", b>>) /\ task.at = "plan" /\ decision' = decision /\ option' = option
    BY <1>11 DEF PlanReview, Deciding, fvars, ideas
  <2>2. b \in DOMAIN batch /\ batch[b].status \in {"awaiting-review", "reviewing"} /\ "reviewing" \in BatchStatus
    BY <1>1, <2>1, DecisionIs DEF BatchStatus
  <2>3. OneMoves(b) /\ batch'[b].status = "reviewing" /\ batch'[b].saved = batch[b].saved
    BY <1>1, <1>2, <2>1, <2>2, BatchStatusSet
  <2>4. BatchesOrdered'
    BY <1>1, <1>2, <2>2, <2>3, BatchMoves
  <2>5. UnderReview'
    <3>1. ~Persist
      BY <2>1 DEF Persist
    <3> QED BY <1>6, <2>2, <2>3, <3>1
  <2>6. /\ task'.key = task.key /\ task'.then = <<"batch", b>>
        /\ task'.at = "throw" \/ task'.todo = Batches(Unreviewed)
    BY <2>1, OpenReviewMoves DEF Moves
  <2>7. task'.key[1] = "none" /\ task'.then[1] = "batch" /\ task'.then[2] = b
    BY <1>5, <2>1, <2>6 DEF Sound
  <2>8. \A o \in batch[b].saved : o \in Decided(decision) \/ \E i \in DOMAIN Batches(Unreviewed) : o \in Batches(Unreviewed)[i]
    BY <1>1, <2>2, BatchesCover DEF BatchesShaped, Unreviewed
  <2>9. BatchTask'
    <3>1. b \in DOMAIN batch'
      BY <2>2, <2>3 DEF OneMoves
    <3>2. task'.at # "throw" =>
            \A o \in batch'[b].saved : o \in Decided(decision)' \/ \E i \in DOMAIN task'.todo : o \in task'.todo[i]
      BY <1>2, <2>3, <2>6, <2>8
    <3> QED BY <2>3, <2>7, <3>1, <3>2 DEF BatchTask
  <2> QED BY <2>4, <2>5, <2>9
<1>12. CASE Persist
  <2> DEFINE new == {o \in Option \ option : Place(o, Option \ option) <= Result.count}
  <2>1. PICK b : b = task.key[2]
    OBVIOUS
  <2>2. /\ task.key[1] = "generate" /\ task' = Planning /\ decision' = decision /\ option' = option \cup new
        /\ batch' = [batch EXCEPT ![b].status = "awaiting-review", ![b].saved = new] /\ task.at = "answered"
    BY <1>12, <2>1 DEF Persist, fvars
  <2> HIDE DEF new
  <2>3. b \in DOMAIN batch /\ batch[b].status = "generating" /\ {"gap", "status", "saved", "after"} \subseteq DOMAIN batch[b]
    BY <1>1, <2>1, <2>2 DEF BatchTask, BatchesShaped
  <2> DEFINE r == [batch[b] EXCEPT !.status = "awaiting-review", !.saved = new]
  <2>4. DOMAIN r = DOMAIN batch[b] /\ r.gap = batch[b].gap /\ r.status = "awaiting-review" /\ r.saved = new
    BY <2>3
  <2>5. batch' = [batch EXCEPT ![b] = r]
    BY <2>2, <2>3
  <2> HIDE DEF r
  <2>6. OneMoves(b) /\ batch'[b] = r
    <3>1. r.status \in BatchStatus /\ r.saved \subseteq option'
      BY <2>2, <2>4 DEF BatchStatus
    <3> QED BY <1>1, <1>2, <2>3, <2>4, <2>5, <3>1, BatchSet
  <2>7. BatchesOrdered'
    BY <1>1, <1>2, <2>3, <2>4, <2>6, BatchMoves
  <2>8. UnderReview'
    <3>1. b \in DOMAIN batch' /\ batch'[b].status \in {"awaiting-review", "reviewing"}
      BY <2>3, <2>4, <2>6 DEF OneMoves
    <3> QED BY <3>1 DEF UnderReview, InState
  <2>9. task'.key = NoKey /\ task'.then = task.then /\ task'.todo = task.todo
    BY <2>2, PlanningMoves DEF Moves
  <2>10. task'.key[1] = "none"
    BY <1>5, <2>9
  <2>11. BatchTask'
    BY <1>8, <2>2, <2>3, <2>6, <2>9, <2>10
  <2> QED BY <2>7, <2>8, <2>11
<1>13. CASE Catch
  <2>1. task' = NoTask /\ decision' = decision
    BY <1>13 DEF Catch, fvars
  <2>2. BatchTask'
    BY <1>5, <2>1, NoTaskIs DEF BatchTask
  <2>3. ~Persist
    BY <1>13 DEF Catch, Persist
  <2>4. CASE batch' = batch
    <3>1. BatchesOrdered'
      BY <1>1, <1>2, <2>4, BatchesStay
    <3>2. UnderReview'
      <4> SUFFICES ASSUME expl'.status = "reviewing-batch" PROVE InState({"awaiting-review", "reviewing"})' # {}
        BY DEF UnderReview
      <4>1. InState({"awaiting-review", "reviewing"}) # {}
        BY <1>1, <2>3, StatusBy DEF UnderReview
      <4> QED BY <2>4, <4>1 DEF InState
    <3> QED BY <2>2, <3>1, <3>2
  <2>5. CASE batch' # batch
    <3>1. PICK b, s : /\ b = task.key[2] /\ task.key[1] = "generate" /\ s \in {"generating", "unknown-dispatch"}
                      /\ batch' = [batch EXCEPT ![b].status = s]
      BY <1>13, <2>5 DEF Catch
    <3>2. b \in DOMAIN batch /\ batch[b].status = "generating" /\ s \in BatchStatus
      BY <1>1, <3>1 DEF BatchTask, BatchStatus
    <3>3. OneMoves(b) /\ batch'[b].status = s
      BY <1>1, <1>2, <3>1, <3>2, BatchStatusSet
    <3>4. BatchesOrdered'
      BY <1>1, <1>2, <3>1, <3>2, <3>3, BatchMoves
    <3>5. UnderReview'
      BY <1>6, <2>3, <3>2, <3>3
    <3> QED BY <2>2, <3>4, <3>5
  <2> QED BY <2>4, <2>5
<1>14. CASE ReviewDone /\ task.then[1] = "batch"
  <2>1. PICK b, a : /\ b = task.then[2] /\ batch' = [batch EXCEPT ![b].status = "reviewed", ![b].after = a]
                    /\ decision' = decision /\ option' = option
    BY <1>14 DEF ReviewDone, fvars
  <2>2. /\ b \in DOMAIN batch /\ batch[b].status = "reviewing" /\ {"gap", "status", "saved", "after"} \subseteq DOMAIN batch[b]
        /\ batch[b].saved \subseteq option
    BY <1>1, <1>14, <2>1 DEF BatchTask, BatchesShaped
  <2>3. batch[b].saved \subseteq Decided(decision)
    <3>1. task.todo = <<>> /\ task.at = "next"
      BY <1>14, ReviewDoneMoves
    <3>2. DOMAIN task.todo = {}
      BY <3>1
    <3> QED BY <1>1, <1>14, <2>1, <3>1, <3>2 DEF BatchTask
  <2> DEFINE r == [batch[b] EXCEPT !.status = "reviewed", !.after = a]
  <2>4. DOMAIN r = DOMAIN batch[b] /\ r.gap = batch[b].gap /\ r.status = "reviewed" /\ r.saved = batch[b].saved
    BY <2>2
  <2>5. batch' = [batch EXCEPT ![b] = r]
    BY <2>1, <2>2
  <2> HIDE DEF r
  <2>6. OneMoves(b) /\ batch'[b] = r
    <3>1. r.status \in BatchStatus /\ r.saved \subseteq option'
      BY <2>1, <2>2, <2>4 DEF BatchStatus
    <3> QED BY <1>1, <1>2, <2>2, <2>4, <2>5, <3>1, BatchSet
  <2>7. gap'[batch[b].gap].status = "covered"
    BY <1>14, <2>1, GapsStep
  <2>8. BatchesOrdered'
    BY <1>1, <1>2, <2>2, <2>3, <2>4, <2>6, <2>7, BatchMoves
  <2>9. UnderReview'
    <3>1. ~Persist
      BY <1>14, ReviewDoneMoves DEF Persist
    <3> QED BY <1>6, <1>14, <2>2, <2>6, <3>1
  <2>10. task'.key = task.key /\ task.key = NoKey /\ task'.then = NoKey
    BY <1>5, <1>14, ReviewDoneMoves DEF Moves, Sound
  <2>11. task'.key[1] = "none" /\ task'.then[1] = "none"
    BY <1>5, <2>10
  <2>12. BatchTask'
    BY <2>11 DEF BatchTask
  <2> QED BY <2>8, <2>9, <2>12
<1> QED BY <1>7, <1>9, <1>10, <1>11, <1>12, <1>13, <1>14, BatchBy DEF BatchSteps

-----------------------------------------------------------------------------
(* Nothing is paid for twice, and the batches are taken in turn.           *)
LEMMA PaidInit == Init => PaidInv
<1> SUFFICES ASSUME Init PROVE PaidInv
  OBVIOUS
<1>1. /\ decision = {} /\ option = Saved /\ origin = {} /\ gap = <<>> /\ batch = <<>> /\ attempt = <<>> /\ review = <<>> /\ asked = <<>>
      /\ expl.status = "none" /\ expl.calls = 0 /\ expl.searches = 0 /\ expl.raw = 0 /\ expl.rounds = 0
      /\ expl.maxCalls = Calls /\ expl.maxSearches = Searches
  BY DEF Init, FamiliesInit
<1>2. /\ task.kind = "none" /\ task.at = "idle" /\ task.key = NoKey /\ task.then = NoKey /\ task.call = 0 /\ task.fix = 0
      /\ task.todo = <<>> /\ NoKey = <<"none", 0>>
  BY DEF Init, NoTask, NoKey
<1>3. Listed(<<>>) /\ DOMAIN <<>> = {}
  <2>1. <<>> \in Seq({}) /\ DOMAIN <<>> = {}
    OBVIOUS
  <2> QED BY <2>1, SeqListed
<1>4. CountsOK
  BY <1>1, ExplorationAssumption DEF CountsOK
<1>5. AskedShaped
  BY <1>1 DEF AskedShaped
<1>6. PlacesOK
  <2>1. /\ NoKey \in {NoKey} \cup (StageKind \X Nat) /\ NoKey \in {"none", "saved", "open", "batch"} \X Nat
        /\ NoKey[1] = "none" /\ 0 \in Nat
    BY <1>2
  <2> QED BY <1>2, <2>1 DEF PlacesOK
<1>7. ReviewsInv
  BY <1>1, <1>2, <1>3 DEF ReviewsInv, CallsShaped, SettledBefore, Corrections, Retried, ReviewTask
<1>8. StagesInv
  <2>1. attempt = [k \in DOMAIN attempt |-> attempt[k]]
    BY <1>1, <1>3
  <2> QED BY <1>1, <1>2, <1>3, <2>1 DEF StagesInv, AttemptsShaped, StageTask
<1>9. \A kinds : Sent(kinds) = {}
  BY <1>1, <1>3 DEF Sent
<1>10. AskedStages /\ AskedReviews
  BY <1>9 DEF AskedStages, AskedReviews
<1>11. BudgetOK
  <2>1. Cardinality(Sent({"map", "generate", "compare"})) = 0 /\ Cardinality(Sent({"search"})) = 0 /\ Counting = 0
    BY <1>2, <1>9, FS_EmptySet DEF Counting
  <2> QED BY <1>1, <1>2, <2>1, ExplorationAssumption DEF BudgetOK
<1>12. BatchesInv
  <2>1. BatchesShaped /\ LastOnly /\ ReviewedWhole /\ UnderReview
    BY <1>1, <1>3 DEF BatchesShaped, LastOnly, ReviewedWhole, UnderReview
  <2>2. RawOK
    BY <1>1, FS_EmptySet DEF RawOK
  <2>3. BatchTask
    <3>1. NoKey[1] = "none"
      BY <1>2
    <3> QED BY <1>2, <3>1 DEF BatchTask
  <2> QED BY <2>1, <2>2, <2>3, InTurnIs DEF BatchesInv
<1> QED BY <1>4, <1>5, <1>6, <1>7, <1>8, <1>10, <1>11, <1>12 DEF PaidInv

LEMMA PaidStays ==
  ASSUME PaidInv, UNCHANGED vars
  PROVE  PaidInv'
<1>1. /\ decision' = decision /\ option' = option /\ origin' = origin /\ expl' = expl /\ gap' = gap /\ batch' = batch
      /\ attempt' = attempt /\ review' = review /\ task' = task /\ asked' = asked
  BY DEF vars, fvars, ideas, stages
<1>2. CountsOK' /\ AskedShaped'
  BY <1>1 DEF PaidInv, CountsOK, AskedShaped
<1>3. PlacesOK'
  BY <1>1 DEF PaidInv, PlacesOK, Budgeted, NoKey, NoTask
<1>4. ReviewsInv'
  BY <1>1 DEF PaidInv, ReviewsInv, CallsShaped, SettledBefore, Corrections, Retried, ReviewTask, Useless, Fix
<1>5. StagesInv'
  BY <1>1 DEF PaidInv, StagesInv, AttemptsShaped, StageTask, NoKey, NoTask
<1>6. AskedStages' /\ AskedReviews'
  BY <1>1 DEF PaidInv, AskedStages, AskedReviews, Sent
<1>7. BudgetOK'
  BY <1>1 DEF PaidInv, BudgetOK, Sent, Counting, Budgeted
<1>8. BatchesInv'
  BY <1>1 DEF PaidInv, BatchesInv, BatchesShaped, ReviewedInTurn, BatchTask, Decided, InState
<1> QED BY <1>2, <1>3, <1>4, <1>5, <1>6, <1>7, <1>8 DEF PaidInv

LEMMA PaidNext == ExplorationInv /\ PaidInv /\ [Next]_vars => PaidInv'
<1> SUFFICES ASSUME ExplorationInv, PaidInv, [Next]_vars PROVE PaidInv'
  OBVIOUS
<1>1. CASE Next
  <2>1. /\ CountsOK /\ AskedShaped /\ PlacesOK /\ ReviewsInv /\ CallsShaped /\ StagesInv /\ AskedStages /\ AskedReviews
        /\ BudgetOK /\ BatchesInv /\ BatchesShaped /\ RawOK
    BY InTurnIs DEF PaidInv, BatchesInv, ReviewsInv
  <2>2. CountsOK'
    BY <1>1, <2>1, CountsStep
  <2>3. PlacesOK'
    BY <1>1, <2>1, PlacesStep
  <2>4. ReviewsInv'
    BY <1>1, <2>1, ReviewsStep
  <2>5. AskedShaped' /\ AskedReviews'
    BY <1>1, <2>1, AskedStep
  <2>6. StagesInv'
    BY <1>1, <2>1, StagesStep
  <2>7. AskedStages'
    BY <1>1, <2>1, AskedStagesStep
  <2>8. BudgetOK'
    BY <1>1, <2>1, BudgetStep
  <2>9. BatchesInv'
    BY <1>1, <2>1, BatchesStep
  <2> QED BY <2>2, <2>3, <2>4, <2>5, <2>6, <2>7, <2>8, <2>9 DEF PaidInv
<1> QED BY <1>1, PaidStays

LEMMA PaidIsOnce == ExplorationInv /\ PaidInv => PaidOnceInTurn
<1> SUFFICES ASSUME PaidInv PROVE PaidOnceInTurn
  OBVIOUS
<1>1. \A i, j \in Sent({"map", "search", "generate"}) : asked[i] = asked[j] => i = j
  BY DEF PaidInv, AskedStages, StageKind
<1>2. ASSUME NEW i \in Sent(CompareKind), NEW j \in Sent(CompareKind), i < j,
             review[asked[i][2]].request = review[asked[j][2]].request
      PROVE  \/ review[asked[i][2]].status = "acknowledged"
             \/ /\ review[asked[i][2]].status = "invalid"
                /\ \A c \in asked[i][2]..asked[j][2] : review[c].request.fix = asked[i][2] => review[c].status # "completed"
  <2>1. PICK first, again : first = asked[i][2] /\ again = asked[j][2]
    OBVIOUS
  <2>2. first \in DOMAIN review /\ again \in DOMAIN review /\ review[first].status \in WasSent /\ first < again
    BY <1>2, <2>1 DEF PaidInv, AskedReviews
  <2>3. Useless(first, again)
    BY <1>2, <2>1, <2>2 DEF PaidInv, ReviewsInv, Retried
  <2>4. DOMAIN review = 1..Len(review) /\ Len(review) \in Nat
    BY ListIs DEF PaidInv, ReviewsInv, CallsShaped
  <2>5. Fix(again) # first
    <3>1. Fix(again) = Fix(first)
      BY <1>2, <2>1 DEF Fix
    <3>2. Fix(first) # first
      <4>1. first # 0 /\ ~(first < first)
        BY <2>2, <2>4
      <4> QED BY <2>2, <4>1 DEF PaidInv, ReviewsInv, Corrections
    <3> QED BY <3>1, <3>2
  <2>6. \A c \in first..again : c \in DOMAIN review /\ (c = again \/ c < again)
    BY <2>2, <2>4
  <2> QED BY <2>1, <2>3, <2>5, <2>6 DEF Useless, Fix
<1>3. NothingPaidTwice
  <2>1. Cardinality(Sent({"map", "generate", "compare"})) <= expl.calls
    <3>1. Cardinality(Sent({"map", "generate", "compare"})) \in Nat
      <4>1. asked \in Seq((StageKind \cup CompareKind) \X Nat)
        BY DEF PaidInv, AskedShaped
      <4>2. IsFiniteSet(DOMAIN asked)
        <5>1. DOMAIN asked = 1..Len(asked) /\ Len(asked) \in Nat
          BY <4>1
        <5> QED BY <5>1, FS_Interval
      <4>3. IsFiniteSet(Sent({"map", "generate", "compare"}))
        BY <4>2, FS_Subset DEF Sent
      <4> QED BY <4>3, FS_CardinalityType
    <3>2. Counting \in {0, 1}
      BY DEF Counting
    <3> QED BY <3>1, <3>2 DEF PaidInv, BudgetOK, CountsOK
  <2> QED BY <1>1, <1>2, <2>1 DEF PaidInv, BudgetOK, NothingPaidTwice, CompareKind
<1> QED BY <1>3 DEF PaidInv, BatchesInv, PaidOnceInTurn

(***************************************************************************)
(* No request of an exploration or a review is paid for twice, its budget  *)
(* is kept, and its batches are generated and reviewed in turn, for any    *)
(* number of ideas, launches, stops, failures, restarts and edits          *)
(* (executeOpportunityExploration, reviewSavedOpportunities and the        *)
(* records they save in).                                                  *)
(***************************************************************************)
THEOREM PaidOnceAndInTurn == Spec => []PaidOnceInTurn
<1>1. Init => ExplorationInv /\ PaidInv
  BY InitInv, PaidInit
<1>2. (ExplorationInv /\ PaidInv) /\ [Next]_vars => (ExplorationInv /\ PaidInv)'
  BY NextInv, PaidNext
<1> QED BY <1>1, <1>2, PaidIsOnce, PTL DEF Spec
=============================================================================

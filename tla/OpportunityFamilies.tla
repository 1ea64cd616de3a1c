------------------------ MODULE OpportunityFamilies ------------------------
(***************************************************************************)
(* The business families a project's ideas are grouped into, and what the  *)
(* model's review and the owner's edits make of them                       *)
(* (db/repositories/opportunities.ts).  A row of `decision` is a           *)
(* membership decision no later one supersedes; families are numbered in   *)
(* the order of their creation, and family 0 is none.                      *)
(***************************************************************************)
EXTENDS Naturals, Sequences, FiniteSets

CONSTANTS Option,     \* ideas with startup details, numbered in the order they are saved
          Eligible    \* those of them whose details say "startup-opportunity"

ASSUME OptionAssumption == Option \subseteq Nat /\ IsFiniteSet(Option) /\ Eligible \subseteq Option

VARIABLES decision, family, discarded
fvars == <<decision, family, discarded>>

Row(o, f, state) == [option |-> o, family |-> f, state |-> state]
Decided(rows) == {d.option : d \in rows}
Members(rows, f) == {d.option : d \in {e \in rows : e.state = "accepted" /\ e.family = f}}
Unresolved(rows) == {d.option : d \in {e \in rows : e.state = "unresolved"}}
Active(fs) == {f \in DOMAIN fs : fs[f].active}
Countable(o) == o \in Eligible /\ o \notin discarded

\* familyView: a family counts by its representative.
Counted(rows, fs) == {f \in Active(fs) : fs[f].rep \in Members(rows, f) /\ Countable(fs[f].rep)}

\* compactFamilies: what a review is shown to compare with.
Shown(rows, fs) == {f \in Active(fs) : Members(rows, f) # {}}

NewFamily(fs, o) == Append(fs, [active |-> TRUE, rep |-> o])

\* preferCountableRepresentative
Preferred(fs, f, o) ==
  IF Countable(o) /\ ~Countable(fs[f].rep) THEN [fs EXCEPT ![f].rep = o] ELSE fs

\* promoteRepresentativeBeforeMove: the ideas that may take over the family o leaves.
Heirs(rows, fs, o, f) ==
  LET others == Members(rows, f) \ {o}
      good == {x \in others : Countable(x)} IN
  IF f = 0 \/ others = {} THEN {0}
  ELSE IF fs[f].rep # o THEN {fs[f].rep} ELSE IF good # {} THEN good ELSE others

\* Family f after one of its heirs took over, if there was any.
Inherit(fs, f, heir) == IF heir = 0 THEN fs ELSE [fs EXCEPT ![f].rep = heir]

(***************************************************************************)
(* applyResolvedDecisions.  `as` gives each candidate its place: unsure, a *)
(* family of its own, or one it joins.  The families founded are numbered  *)
(* on from the last, in the candidates' order.                             *)
(***************************************************************************)
Unsure == <<"unsure", 0>>
Own == <<"own", 0>>
Joins(f) == <<"joins", f>>

Founders(as) == {o \in DOMAIN as : as[o] = Own}
Rank(as, o) == Cardinality({x \in Founders(as) : x <= o})
PlaceOf(fs, as, o) ==
  CASE as[o] = Unsure -> Row(o, 0, "unresolved")
    [] as[o] = Own -> Row(o, Len(fs) + Rank(as, o), "accepted")
    [] OTHER -> Row(o, as[o][2], "accepted")

Founded(fs, as) ==
  fs \o [i \in 1..Cardinality(Founders(as)) |->
           [active |-> TRUE, rep |-> CHOOSE o \in Founders(as) : Rank(as, o) = i]]

\* A family whose representative does not count goes to its first new member that does.
Represented(fs, as) ==
  [f \in DOMAIN fs |->
     LET joined == {o \in DOMAIN as : as[o] = Joins(f) /\ Countable(o)} IN
     IF joined # {} /\ ~Countable(fs[f].rep)
     THEN [fs[f] EXCEPT !.rep = CHOOSE o \in joined : \A x \in joined : o <= x] ELSE fs[f]]

\* The transaction fails when a candidate was decided meanwhile, or when the family of
\* one that could represent it is no longer active.
MayApply(as) ==
  /\ DOMAIN as \cap Decided(decision) = {}
  /\ \A o \in DOMAIN as, f \in DOMAIN family :
       as[o] = Joins(f) /\ Countable(o) => family[f].active

ApplyDecisions(as) ==
  /\ decision' = decision \cup {PlaceOf(family, as, o) : o \in DOMAIN as}
  /\ family' = Represented(Founded(family, as), as)
  /\ UNCHANGED discarded

(***************************************************************************)
(* The owner's edits.                                                      *)
(***************************************************************************)
Merge(f, g) ==
  /\ f # g /\ {f, g} \subseteq Active(family)
  /\ LET moved == Members(decision, f)
         good == {o \in moved : Countable(o)} IN
     /\ decision' = {IF d.option \in moved THEN [d EXCEPT !.family = g] ELSE d : d \in decision}
     /\ \E o \in IF good = {} THEN {0} ELSE good :
          family' = [(IF o = 0 THEN family ELSE Preferred(family, g, o)) EXCEPT ![f].active = FALSE]
  /\ UNCHANGED discarded

\* An idea leaves its family, which must still be there, for the place `to`.
HeirsOf(d) == Heirs(decision, family, d.option, d.family)
LeaveUnsuperseded(d, fs, to) ==
  \E heir \in HeirsOf(d) : decision' = decision \cup {to} /\ family' = fs[heir]
Leave(d, fs, to) ==
  \E heir \in HeirsOf(d) :
    /\ decision' = (decision \ {d}) \cup {to}
    /\ family' = fs[heir]

MarkUncertain(d) ==
  /\ d.family # 0 => d.family \in Active(family)
  /\ Leave(d, [heir \in HeirsOf(d) |-> Inherit(family, d.family, heir)],
           Row(d.option, d.family, "unresolved"))
  /\ UNCHANGED discarded

Move(d, g) ==
  /\ g \in Active(family)
  /\ IF d.family = g
     THEN /\ family[g].rep # d.option
          /\ decision' = (decision \ {d}) \cup {Row(d.option, g, "accepted")}
          /\ family' = Preferred(family, g, d.option)
     ELSE /\ d.family # 0 => d.family \in Active(family)
          /\ Leave(d, [heir \in HeirsOf(d) |->
                         Preferred(Inherit(family, d.family, heir), g, d.option)],
                   Row(d.option, g, "accepted"))
  /\ UNCHANGED discarded

Split(d) ==
  /\ d.family # 0 => d.family \in Active(family)
  /\ Leave(d, [heir \in HeirsOf(d) |->
                 NewFamily(Inherit(family, d.family, heir), d.option)],
           Row(d.option, Len(family) + 1, "accepted"))
  /\ UNCHANGED discarded

EditMembership ==
  \/ \E f, g \in Active(family) : Merge(f, g)
  \/ \E d \in decision : MarkUncertain(d) \/ Split(d) \/ \E g \in Active(family) : Move(d, g)

Discard(o) ==
  /\ discarded' = IF o \in discarded THEN discarded \ {o} ELSE discarded \cup {o}
  /\ UNCHANGED <<decision, family>>

FamiliesInit == decision = {} /\ family = <<>> /\ discarded = {}

(***************************************************************************)
(* An idea has one current decision, and an accepted one is in a family    *)
(* that was not merged away: nothing the owner merged still counts an idea *)
(* in, whatever the review that was under way had been shown.              *)
(***************************************************************************)
DecidedOnce == \A d, e \in decision : d.option = e.option => d = e
MergedStaysEmpty == \A d \in decision : d.state = "accepted" => d.family \in Active(family)
=============================================================================

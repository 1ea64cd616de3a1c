----------------------- MODULE SavedCredentialsProofs -----------------------
(***************************************************************************)
(* Theorems about the saved keys and accounts, for any number of commands  *)
(* that run at the same time, each killed anywhere.                        *)
(***************************************************************************)
EXTENDS SavedCredentials, TLAPS

Saves == {"locking"} \cup Locked

\* Who is past the lock has it.
LockOK(p) == proc[p].at \in Locked <=> lock = p

\* The profile has one key, and whoever knows a key knows that one.
KeyOK(p) ==
  /\ proc[p].key \in {NoKey, local}
  /\ proc[p].at = "making" => local = NoKey
  /\ proc[p].at = "writing" => proc[p].key # NoKey

\* What a save is about to write is what the file says now, but for the one field, which is as its
\* command has read it or as it wants it.
SaveOK(p) ==
  /\ proc[p].at \in Saves => \A f \in Field : f # proc[p].field => proc[p].next[f] = proc[p].seen[f]
  /\ proc[p].at \in {"making", "writing"} =>
       \A f \in Field : /\ proc[p].merged[f] = IF f \in Changed(p) THEN proc[p].next[f] ELSE file[f]
                        /\ f \in Changed(p) => file[f] \in {proc[p].seen[f], proc[p].next[f]}
  /\ proc[p].at = "releasing" => \A f \in Changed(p) : file[f] = proc[p].next[f]

\* What is to be saved, for each command.
AimOK(p) ==
  /\ proc[p].at = "opening" => proc[p].command \in {"login", "logout", "use"}
  /\ proc[p].at \in {"asking", "issued", "acknowledging"} => Session(p)
  /\ proc[p].at \in {"checking", "revoking"} => proc[p].command = "logout"
  /\ proc[p].at = "revoking" => proc[p].held = proc[p].seen[Account]
  /\ proc[p].at \in Saves =>
       /\ Session(p) => /\ proc[p].field = Account /\ proc[p].next[Account] = proc[p].got
                        /\ proc[p].seen[Account] = proc[p].held
       /\ proc[p].command = "logout" => proc[p].field = Account /\ proc[p].next[Account] = NoValue
       /\ proc[p].command \in {"set", "remove"} =>
            /\ proc[p].field \in SearchKey
            /\ proc[p].next[proc[p].field] = IF proc[p].command = "set" THEN Brought(p, p, 1) ELSE NoValue
  /\ proc[p].at \in {"issued"} \cup Saves /\ Session(p) =>
       /\ proc[p].got # NoValue
       /\ \/ proc[p].command = "login" /\ proc[p].issued = 1 /\ proc[p].got.of = p
          \/ proc[p].held # NoValue /\ proc[p].got.of = proc[p].held.of

\* A worker holds what its session holds, or, before that is saved, what it was just issued.
WorkerOK(p) ==
  /\ ~worker[p].runs => worker[p] = NoWorker
  /\ proc[p].at \in {"new", "opening"} \cup Ended => worker[p] = NoWorker
  /\ proc[p].at \in {"asking", "checking", "revoking"} =>
       ~worker[p].pending /\ worker[p].holds \in {proc[p].held, NoValue}
  /\ proc[p].at \in {"issued", "acknowledging"} \cup Saves =>
       \/ worker[p] = NoWorker
       \/ /\ worker[p].pending /\ Session(p)
          /\ worker[p].holds = IF proc[p].at = "acknowledging" THEN proc[p].held ELSE proc[p].got

\* As long as this holds nothing of p's own can have been saved.
NotYet(p) ==
  \/ proc[p].at \in {"new", "opening"}
  \/ /\ proc[p].command = "login"
     /\ \/ proc[p].at = "asking" /\ proc[p].issued = 0
        \/ proc[p].at \in {"issued", "locking", "merging", "making", "writing"} /\ proc[p].issued = 1
  \/ proc[p].command = "set" /\ proc[p].at \in {"locking", "merging", "making", "writing"}

HistoryOK(p) ==
  /\ proc[p].held # NoValue => proc[p].held \in saved[Account]
  /\ NotYet(p) => \A f \in Field : \A v \in saved[f] : v.of # p
  /\ proc[p].at = "opening" => proc[p].issued = 0
  /\ proc[p].at \in {"issued", "acknowledging"} \cup Saves /\ Session(p) => proc[p].issued # 0
  /\ proc[p].at = "new" => proc[p] = NewProcess

RevokedOK(p) ==
  /\ revoked[p] \subseteq saved[Account]
  /\ proc[p].at \notin Ended =>
       /\ revoked[p] \subseteq {proc[p].seen[Account]}
       /\ revoked[p] = {} \/ (proc[p].command = "logout" /\ proc[p].at \in Saves)
  /\ Is(p, "done") => \A v \in revoked[p] : file[Account] # NoValue => file[Account].of # v.of

FileOK ==
  /\ sealed \in {NoKey, local}
  /\ \A f \in Field : file[f] # NoValue => file[f] \in saved[f]

-----------------------------------------------------------------------------
(* Types *)

May == Value \cup {NoValue}
Knows == [Field -> May]
Commands == [command : Command, field : Field, at : At, key : Who \cup {NoKey}, issued : 0..2,
             got : May, seen : Knows, next : Knows, merged : Knows, held : May]
Workers == [runs : BOOLEAN, holds : May, pending : BOOLEAN]

Typed ==
  /\ file \in Knows /\ saved \in [Field -> SUBSET Value]
  /\ sealed \in Who \cup {NoKey} /\ local \in Who \cup {NoKey} /\ lock \in Process \cup {NoProcess}
  /\ proc \in [Process -> Commands] /\ worker \in [Process -> Workers]
  /\ revoked \in [Process -> SUBSET Value]

LEMMA TypedIsTypeOK == Typed <=> TypeOK
BY DEF Typed, TypeOK, May, Knows, Commands, Workers

\* The values that actions name are of their types.
LEMMA Words ==
  /\ "set" \in Command /\ "remove" \in Command /\ "login" \in Command /\ "logout" \in Command /\ "use" \in Command
  /\ "new" \in At /\ "opening" \in At /\ "asking" \in At /\ "issued" \in At /\ "checking" \in At
  /\ "revoking" \in At /\ "locking" \in At /\ "acknowledging" \in At /\ "merging" \in At
  /\ "making" \in At /\ "writing" \in At /\ "releasing" \in At /\ "done" \in At /\ "failed" \in At
BY DEF Command, At, Locked, Ended

LEMMA Values ==
  /\ Account \in Field /\ SearchKey \subseteq Field /\ Process \subseteq Who
  /\ NoValue \in May /\ Value \subseteq May /\ NoValue \notin Value
  /\ \A s \in Who, p \in Process, i \in 1..2 : Brought(s, p, i) \in Value
  /\ \A v \in Value : v.of \in Who
BY CredentialAssumption DEF Field, Value, Who, Brought, May

LEMMA Blank == Nothing \in Knows /\ NewProcess \in Commands /\ NoWorker \in Workers
BY Values, Words DEF Nothing, NewProcess, NoWorker, NoKey, May, Knows, Commands, Workers

LEMMA Keyed == ASSUME Typed, NEW p \in Process PROVE KeyOf(p) \in Who \cup {NoKey}
BY DEF Typed, KeyOf, Commands

LEMMA Read == ASSUME Typed, NEW p \in Process PROVE Loaded(p) \in Commands
BY Keyed DEF Typed, Loaded, Commands

LEMMA Starts ==
  ASSUME NEW r \in Commands, NEW f \in Field, NEW v \in May
  PROVE  Saving(r, f, v) \in Commands
<1>1. [r.seen EXCEPT ![f] = v] \in Knows
  BY DEF Commands, Knows
<1> QED BY <1>1, Words DEF Saving, Commands

\* A step of one command leaves the others as they are.
LEMMA Put ==
  ASSUME Typed, NEW p \in Process, NEW r \in Commands, proc' = [proc EXCEPT ![p] = r]
  PROVE  proc' \in [Process -> Commands] /\ proc'[p] = r /\ \A q \in Process : q # p => proc'[q] = proc[q]
BY DEF Typed

LEMMA Work ==
  ASSUME Typed, NEW p \in Process, NEW w \in Workers, worker' = [worker EXCEPT ![p] = w]
  PROVE  worker' \in [Process -> Workers] /\ worker'[p] = w /\ \A q \in Process : q # p => worker'[q] = worker[q]
BY DEF Typed

LEMMA Going ==
  ASSUME Typed, NEW p \in Process, NEW at \in At, Goes(p, at)
  PROVE  /\ proc' \in [Process -> Commands] /\ proc'[p] = [proc[p] EXCEPT !.at = at]
         /\ \A q \in Process : q # p => proc'[q] = proc[q]
<1>1. [proc[p] EXCEPT !.at = at] \in Commands
  BY DEF Typed, Commands
<1>2. proc' = [proc EXCEPT ![p] = [proc[p] EXCEPT !.at = at]]
  BY DEF Goes, Typed
<1> QED BY <1>1, <1>2, Put

LEMMA Ending ==
  ASSUME Typed, NEW p \in Process, NEW at \in Ended, Ends(p, at)
  PROVE  /\ proc' \in [Process -> Commands] /\ worker' \in [Process -> Workers]
         /\ proc'[p] = [NewProcess EXCEPT !.at = at] /\ worker'[p] = NoWorker
         /\ \A q \in Process : q # p => proc'[q] = proc[q] /\ worker'[q] = worker[q]
<1>1. [NewProcess EXCEPT !.at = at] \in Commands
  BY Blank, Words DEF Ended, Commands
<1> QED BY <1>1, Blank, Put, Work DEF Ends

-----------------------------------------------------------------------------
(* What each action does, to its own command and to no other *)

Others(p) == \A q \in Process : q # p =>
  proc'[q] = proc[q] /\ worker'[q] = worker[q] /\ revoked'[q] = revoked[q]

LEMMA ChangeKeyDoes ==
  ASSUME Typed, NEW p \in Process, NEW f \in SearchKey, NEW c \in {"set", "remove"}, ChangeKey(p, f, c)
  PROVE  /\ Typed' /\ Others(p) /\ worker' = worker
         /\ proc'[p] = Saving([Loaded(p) EXCEPT !.command = c, !.issued = IF c = "set" THEN 1 ELSE 0],
                              f, IF c = "set" THEN Brought(p, p, 1) ELSE NoValue)
<1> DEFINE v == IF c = "set" THEN Brought(p, p, 1) ELSE NoValue
           r == [Loaded(p) EXCEPT !.command = c, !.issued = IF c = "set" THEN 1 ELSE 0]
<1>1. v \in May
  BY Values
<1>2. r \in Commands
  <2>1. c \in Command /\ Loaded(p) \in Commands /\ (IF c = "set" THEN 1 ELSE 0) \in 0..2
    BY Read, Words
  <2> QED BY <2>1 DEF Commands
<1>3. f \in Field
  BY Values
<1> HIDE DEF v, r
<1>4. Saving(r, f, v) \in Commands
  BY <1>1, <1>2, <1>3, Starts
<1>5. proc' = [proc EXCEPT ![p] = Saving(r, f, v)]
  BY DEF ChangeKey, r, v
<1>6. proc' \in [Process -> Commands] /\ proc'[p] = Saving(r, f, v) /\ \A q \in Process : q # p => proc'[q] = proc[q]
  BY <1>4, <1>5, Put
<1> QED BY <1>6 DEF ChangeKey, store, Typed, Others, r, v

LEMMA StartSessionDoes ==
  ASSUME Typed, NEW p \in Process, NEW c \in {"login", "logout", "use"}, StartSession(p, c)
  PROVE  /\ Typed' /\ Others(p) /\ worker' = worker
         /\ proc'[p] = [(IF c = "logout" THEN Loaded(p) ELSE proc[p]) EXCEPT !.command = c, !.at = "opening"]
<1> DEFINE r == [(IF c = "logout" THEN Loaded(p) ELSE proc[p]) EXCEPT !.command = c, !.at = "opening"]
<1>1. r \in Commands
  BY Read, Words, ZenonT(60) DEF Typed, Commands
<1>2. proc' = [proc EXCEPT ![p] = r]
  BY DEF StartSession
<1> HIDE DEF r
<1>3. proc' \in [Process -> Commands] /\ proc'[p] = r /\ \A q \in Process : q # p => proc'[q] = proc[q]
  BY <1>1, <1>2, Put
<1> QED BY <1>3 DEF StartSession, store, Typed, Others, r

LEMMA RestoredIs ==
  ASSUME NEW v \in May, NEW w \in Restored(v)
  PROVE  w \in Workers /\ w.runs /\ ~w.pending /\ w.holds \in {v, NoValue}
<1>1. PICK h \in {v, NoValue} : w = [runs |-> TRUE, holds |-> h, pending |-> FALSE]
  BY DEF Restored
<1> QED BY <1>1, Values DEF Workers

LEMMA OpenSessionDoes ==
  ASSUME Typed, NEW p \in Process, OpenSession(p)
  PROVE  /\ Typed' /\ Others(p)
         /\ worker'[p].runs /\ ~worker'[p].pending /\ worker'[p].holds \in {file[Account], NoValue}
         /\ proc'[p] = [proc[p] EXCEPT !.held = file[Account], !.at = IF Session(p) THEN "asking" ELSE "checking"]
<1> DEFINE r == [proc[p] EXCEPT !.held = file[Account], !.at = IF Session(p) THEN "asking" ELSE "checking"]
<1>1. file[Account] \in May
  BY Values DEF Typed, Knows
<1>2. r \in Commands
  BY <1>1, Words DEF Typed, Commands
<1>3. proc' = [proc EXCEPT ![p] = r]
  BY DEF OpenSession
<1>4. PICK w \in Restored(file[Account]) : worker' = [worker EXCEPT ![p] = w]
  BY DEF OpenSession
<1> HIDE DEF r
<1>5. proc' \in [Process -> Commands] /\ proc'[p] = r /\ \A q \in Process : q # p => proc'[q] = proc[q]
  BY <1>2, <1>3, Put
<1>6. worker' \in [Process -> Workers] /\ worker'[p] = w /\ \A q \in Process : q # p => worker'[q] = worker[q]
  BY <1>1, <1>4, RestoredIs, Work
<1> QED BY <1>1, <1>4, <1>5, <1>6, RestoredIs DEF OpenSession, store, Typed, Others, r

\* The steps that end a command.
LEMMA EndingDoes ==
  ASSUME Typed, NEW p \in Process, NEW at \in Ended, Ends(p, at), UNCHANGED <<store, revoked>>,
         lock' \in Process \cup {NoProcess}
  PROVE  /\ Typed' /\ Others(p)
         /\ worker'[p] = NoWorker /\ proc'[p] = [NewProcess EXCEPT !.at = at]
BY Ending DEF Typed, Others, store

LEMMA SavingDoes ==
  ASSUME Typed, NEW p \in Process, NEW r \in Commands, NEW v \in May,
         proc' = [proc EXCEPT ![p] = Saving(r, Account, v)]
  PROVE  /\ proc' \in [Process -> Commands] /\ proc'[p] = Saving(r, Account, v)
         /\ \A q \in Process : q # p => proc'[q] = proc[q]
<1>1. Saving(r, Account, v) \in Commands
  BY Starts, Values
<1> QED BY <1>1, Put

LEMMA NoSessionDoes ==
  ASSUME Typed, NEW p \in Process, NoSession(p), ~Session(p)
  PROVE  Typed' /\ Others(p) /\ worker' = worker /\ proc'[p] = Saving(proc[p], Account, NoValue)
<1>1. proc' = [proc EXCEPT ![p] = Saving(proc[p], Account, NoValue)]
  BY DEF NoSession, Typed
<1>2. proc[p] \in Commands
  BY DEF Typed
<1>3. /\ proc' \in [Process -> Commands] /\ proc'[p] = Saving(proc[p], Account, NoValue)
      /\ \A q \in Process : q # p => proc'[q] = proc[q]
  BY <1>1, <1>2, Values, SavingDoes
<1> QED BY <1>3 DEF NoSession, store, Typed, Others

LEMMA WorkerDiesDoes ==
  ASSUME Typed, NEW p \in Process, WorkerDies(p)
  PROVE  Typed' /\ Others(p) /\ proc' = proc /\ worker'[p] = NoWorker
BY Blank, Work DEF WorkerDies, store, Typed, Others

LEMMA RestartDoes ==
  ASSUME Typed, NEW p \in Process, Restart(p)
  PROVE  /\ Typed' /\ Others(p) /\ proc' = proc
         /\ worker'[p].runs /\ ~worker'[p].pending /\ worker'[p].holds \in {proc[p].held, NoValue}
<1> DEFINE v == IF file[Account] = proc[p].held THEN proc[p].held ELSE NoValue
<1>1. v \in May /\ v \in {proc[p].held, NoValue}
  BY Values DEF Typed, Commands
<1>2. PICK w \in Restored(v) : worker' = [worker EXCEPT ![p] = w]
  BY DEF Restart
<1> HIDE DEF v
<1>3. w \in Workers /\ w.runs /\ ~w.pending /\ w.holds \in {v, NoValue}
  BY <1>1, <1>2, RestoredIs
<1>4. worker' \in [Process -> Workers] /\ worker'[p] = w /\ \A q \in Process : q # p => worker'[q] = worker[q]
  BY <1>2, <1>3, Work
<1> QED BY <1>1, <1>3, <1>4 DEF Restart, store, Typed, Others

LEMMA IssueDoes ==
  ASSUME Typed, NEW p \in Process, Issue(p)
  PROVE  /\ Typed' /\ Others(p) /\ Issued(p) \in Value /\ proc[p].issued \in {0, 1}
         /\ Issued(p).of = IF SignsIn(p) THEN p ELSE worker[p].holds.of
         /\ SignsIn(p) \/ worker[p].holds # NoValue
         /\ proc'[p] = [proc[p] EXCEPT !.issued = @ + 1, !.got = Issued(p), !.at = "issued"]
         /\ worker'[p] = [worker[p] EXCEPT !.holds = Issued(p), !.pending = TRUE]
<1> DEFINE r == [proc[p] EXCEPT !.issued = @ + 1, !.got = Issued(p), !.at = "issued"]
           w == [worker[p] EXCEPT !.holds = Issued(p), !.pending = TRUE]
<1>1. proc[p] \in Commands /\ worker[p] \in Workers
  BY DEF Typed
<1>2. proc[p].issued \in {0, 1}
  BY <1>1 DEF Issue, MayIssue, SignsIn, Commands
<1>3. SignsIn(p) \/ worker[p].holds # NoValue
  BY DEF Issue, MayIssue
<1>4. (IF SignsIn(p) THEN p ELSE worker[p].holds.of) \in Who
  <2>1. CASE SignsIn(p)
    BY <2>1, Values
  <2>2. CASE ~SignsIn(p)
    <3>1. worker[p].holds \in Value
      BY <1>1, <1>3, <2>2 DEF Workers, May
    <3> QED BY <2>2, <3>1, Values
  <2> QED BY <2>1, <2>2
<1>5. Issued(p) \in Value /\ Issued(p).of = IF SignsIn(p) THEN p ELSE worker[p].holds.of
  <2>1. proc[p].issued + 1 \in 1..2
    BY <1>2
  <2> QED BY <1>4, <2>1, Values DEF Issued, Brought
<1>6. r \in Commands /\ w \in Workers
  <2>1. proc[p].issued + 1 \in 0..2 /\ Issued(p) \in May /\ "issued" \in At
    BY <1>2, <1>5, Values, Words
  <2> QED BY <1>1, <2>1 DEF Commands, Workers
<1>7. proc' = [proc EXCEPT ![p] = r] /\ worker' = [worker EXCEPT ![p] = w]
  <2>1. proc' = [proc EXCEPT ![p] = r]
    BY DEF Issue, Typed
  <2>2. worker' = [worker EXCEPT ![p] = w]
    BY DEF Issue, Typed
  <2> QED BY <2>1, <2>2
<1> HIDE DEF r, w
<1>8. proc' \in [Process -> Commands] /\ proc'[p] = r /\ \A q \in Process : q # p => proc'[q] = proc[q]
  BY <1>6, <1>7, Put
<1>9. worker' \in [Process -> Workers] /\ worker'[p] = w /\ \A q \in Process : q # p => worker'[q] = worker[q]
  BY <1>6, <1>7, Work
<1> QED BY <1>2, <1>3, <1>5, <1>8, <1>9 DEF Issue, store, Typed, Others, r, w

LEMMA PersistDoes ==
  ASSUME Typed, NEW p \in Process, Persist(p)
  PROVE  Typed' /\ Others(p) /\ worker' = worker /\ proc'[p] = Saving(Loaded(p), Account, proc[p].got)
<1>1. Loaded(p) \in Commands /\ proc[p].got \in May
  BY Read DEF Typed, Commands
<1>2. /\ proc' \in [Process -> Commands] /\ proc'[p] = Saving(Loaded(p), Account, proc[p].got)
      /\ \A q \in Process : q # p => proc'[q] = proc[q]
  BY <1>1, SavingDoes DEF Persist
<1> QED BY <1>2 DEF Persist, store, Typed, Others

LEMMA AcknowledgeDoes ==
  ASSUME Typed, NEW p \in Process, Acknowledge(p), worker[p].pending
  PROVE  /\ Typed' /\ Others(p) /\ proc'[p] = [proc[p] EXCEPT !.at = "asking"]
         /\ worker'[p] = [worker[p] EXCEPT !.pending = FALSE]
<1>1. [worker[p] EXCEPT !.pending = FALSE] \in Workers
  BY DEF Typed, Workers
<1>2. worker' = [worker EXCEPT ![p] = [worker[p] EXCEPT !.pending = FALSE]]
  BY DEF Acknowledge, Typed
<1>3. worker' \in [Process -> Workers] /\ worker'[p] = [worker[p] EXCEPT !.pending = FALSE]
      /\ \A q \in Process : q # p => worker'[q] = worker[q]
  BY <1>1, <1>2, Work
<1>4. Goes(p, "asking")
  BY DEF Acknowledge
<1> QED BY <1>3, <1>4, Going, Words DEF Acknowledge, store, Typed, Others

\* Steps that only go on.
LEMMA GoingDoes ==
  ASSUME Typed, NEW p \in Process, NEW at \in At, Goes(p, at), UNCHANGED <<store, worker, revoked>>,
         lock' \in Process \cup {NoProcess}
  PROVE  Typed' /\ Others(p) /\ proc'[p] = [proc[p] EXCEPT !.at = at]
BY Going DEF Typed, Others, store

LEMMA RemovesDoes ==
  ASSUME Typed, NEW p \in Process, Removes(p), NEW gave \in SUBSET Value,
         revoked' = [revoked EXCEPT ![p] = gave]
  PROVE  /\ Typed' /\ Others(p) /\ worker'[p] = NoWorker /\ revoked'[p] = gave
         /\ proc'[p] = Saving(proc[p], Account, NoValue)
<1>1. proc[p] \in Commands /\ proc' = [proc EXCEPT ![p] = Saving(proc[p], Account, NoValue)]
  BY DEF Removes, Typed
<1>2. /\ proc' \in [Process -> Commands] /\ proc'[p] = Saving(proc[p], Account, NoValue)
      /\ \A q \in Process : q # p => proc'[q] = proc[q]
  BY <1>1, Values, SavingDoes
<1>3. worker' \in [Process -> Workers] /\ worker'[p] = NoWorker /\ \A q \in Process : q # p => worker'[q] = worker[q]
  BY Blank, Work DEF Removes
<1> QED BY <1>2, <1>3 DEF Removes, store, Typed, Others

LEMMA MergeDoes ==
  ASSUME Typed, NEW p \in Process, Merge(p), ~Conflict(p)
  PROVE  /\ Typed' /\ Others(p) /\ worker' = worker /\ UNCHANGED lock
         /\ proc'[p] = [proc[p] EXCEPT
              !.at = IF Changed(p) = {} THEN "releasing" ELSE IF KeyOf(p) = NoKey THEN "making" ELSE "writing",
              !.key = KeyOf(p), !.merged = Merged(p)]
<1> DEFINE at == IF Changed(p) = {} THEN "releasing" ELSE IF KeyOf(p) = NoKey THEN "making" ELSE "writing"
           r == [proc[p] EXCEPT !.at = at, !.key = KeyOf(p), !.merged = Merged(p)]
<1>1. proc[p] \in Commands
  BY DEF Typed
<1>2. Merged(p) \in Knows
  BY <1>1 DEF Merged, Knows, Commands, Typed
<1>3. at \in At
  BY Words
<1>4. proc' = [proc EXCEPT ![p] = r]
  BY DEF Merge, MergeWith
<1> HIDE DEF at
<1>5. r \in Commands
  BY <1>1, <1>2, <1>3, Keyed DEF Commands
<1> HIDE DEF r
<1>6. proc' \in [Process -> Commands] /\ proc'[p] = r /\ \A q \in Process : q # p => proc'[q] = proc[q]
  BY <1>4, <1>5, Put
<1> QED BY <1>6 DEF Merge, MergeWith, store, Typed, Others, r, at

LEMMA MakeKeyDoes ==
  ASSUME Typed, NEW p \in Process, MakeKey(p)
  PROVE  /\ Typed' /\ Others(p) /\ worker' = worker
         /\ proc'[p] = [proc[p] EXCEPT !.key = p, !.at = "writing"]
<1> DEFINE r == [proc[p] EXCEPT !.key = p, !.at = "writing"]
<1>1. r \in Commands
  BY Values, Words, ZenonT(60) DEF Typed, Commands
<1>2. proc' = [proc EXCEPT ![p] = r]
  BY DEF MakeKey
<1> HIDE DEF r
<1>3. proc' \in [Process -> Commands] /\ proc'[p] = r /\ \A q \in Process : q # p => proc'[q] = proc[q]
  BY <1>1, <1>2, Put
<1> QED BY <1>3, Values DEF MakeKey, Typed, Others, r

LEMMA ReplaceDoes ==
  ASSUME Typed, NEW p \in Process, Replace(p)
  PROVE  /\ Typed' /\ Others(p) /\ worker' = worker
         /\ proc'[p] = [proc[p] EXCEPT !.at = "releasing"]
         /\ \A f \in Field : saved'[f] = saved[f] \cup ({proc[p].merged[f]} \ {NoValue})
<1>1. proc[p].merged \in Knows /\ proc[p].key \in Who \cup {NoKey}
  BY DEF Typed, Commands
<1>2. file' \in Knows /\ saved' \in [Field -> SUBSET Value]
  BY <1>1 DEF Replace, Typed, Knows, May
<1>3. Goes(p, "releasing")
  BY DEF Replace
<1>4. /\ proc' \in [Process -> Commands] /\ proc'[p] = [proc[p] EXCEPT !.at = "releasing"]
      /\ \A q \in Process : q # p => proc'[q] = proc[q]
  BY <1>3, Going, Words
<1> QED BY <1>1, <1>2, <1>4 DEF Replace, Typed, Others

LEMMA ReleaseDoes ==
  ASSUME Typed, NEW p \in Process, Release(p), Session(p)
  PROVE  /\ Typed' /\ Others(p) /\ worker' = worker
         /\ proc'[p] = [proc[p] EXCEPT !.held = proc[p].next[Account], !.at = "acknowledging",
                                       !.got = NoValue, !.seen = Nothing, !.next = Nothing, !.merged = Nothing]
<1> DEFINE r == [proc[p] EXCEPT !.held = proc[p].next[Account], !.at = "acknowledging",
                               !.got = NoValue, !.seen = Nothing, !.next = Nothing, !.merged = Nothing]
<1>1. proc[p].next[Account] \in May
  BY Values DEF Typed, Commands, Knows
<1>2. r \in Commands
  BY <1>1, Blank, Values, Words DEF Typed, Commands
<1>3. proc' = [proc EXCEPT ![p] = r]
  BY DEF Release
<1> HIDE DEF r
<1>4. proc' \in [Process -> Commands] /\ proc'[p] = r /\ \A q \in Process : q # p => proc'[q] = proc[q]
  BY <1>2, <1>3, Put
<1> QED BY <1>4 DEF Release, store, Typed, Others, r

-----------------------------------------------------------------------------
(* The invariant *)

Own(p) == /\ LockOK(p) /\ KeyOK(p) /\ SaveOK(p)
          /\ AimOK(p) /\ WorkerOK(p) /\ HistoryOK(p) /\ RevokedOK(p)

CredentialInv == Typed /\ FileOK /\ \A p \in Process : Own(p)

\* A step that changes neither the file nor its key leaves the others as they were.
LEMMA OthersKept ==
  ASSUME CredentialInv, NEW p \in Process, Others(p), UNCHANGED store,
         NEW q \in Process, q # p, lock' = q <=> lock = q
  PROVE  Own(q)'
<1>1. Own(q) /\ proc'[q] = proc[q] /\ worker'[q] = worker[q] /\ revoked'[q] = revoked[q]
  BY DEF CredentialInv, Others
<1>2. file' = file /\ sealed' = sealed /\ local' = local /\ saved' = saved
  BY DEF store
<1>3. LockOK(q)' /\ KeyOK(q)'
  BY <1>1, <1>2 DEF Own, LockOK, KeyOK
<1>4. SaveOK(q)'
  BY <1>1, <1>2 DEF Own, SaveOK, Changed
<1>5. AimOK(q)'
  BY <1>1, <1>2 DEF Own, AimOK, Session
<1>6. WorkerOK(q)'
  BY <1>1, <1>2 DEF Own, WorkerOK, Session
<1>7. HistoryOK(q)'
  BY <1>1, <1>2 DEF Own, HistoryOK, NotYet, Session
<1>8. RevokedOK(q)'
  BY <1>1, <1>2 DEF Own, RevokedOK, Is
<1> QED BY <1>3, <1>4, <1>5, <1>6, <1>7, <1>8 DEF Own

LEMMA FileKept == FileOK /\ UNCHANGED store => FileOK'
BY DEF FileOK, store

\* What is left to show of a step that changes neither the file nor its key.
LEMMA StoreSame ==
  ASSUME CredentialInv, NEW p \in Process, Typed', Others(p), UNCHANGED store, Own(p)',
         lock' = lock \/ (lock = p /\ lock' = NoProcess) \/ (lock = NoProcess /\ lock' = p)
  PROVE  CredentialInv'
<1>1. \A q \in Process : q # p => Own(q)'
  BY CredentialAssumption, OthersKept, Values DEF Who
<1> QED BY <1>1, FileKept DEF CredentialInv

\* A command that is over, and one that has not come to its lock.
LEMMA OverIsFine ==
  ASSUME CredentialInv, NEW p \in Process, NEW at \in Ended, proc'[p] = [NewProcess EXCEPT !.at = at],
         worker'[p] = NoWorker, UNCHANGED store, revoked'[p] = revoked[p], lock' # p,
         at = "done" => \A v \in revoked[p] : file[Account] # NoValue => file[Account].of # v.of
  PROVE  Own(p)'
<1>1. Own(p) /\ file' = file /\ sealed' = sealed /\ local' = local /\ saved' = saved
  BY DEF CredentialInv, store
<1>2. proc'[p].at = at /\ proc'[p].held = NoValue /\ proc'[p].command = "set" /\ proc'[p].key = NoKey
  BY DEF NewProcess
<1>3. at \notin Locked /\ at \notin Saves /\ at \notin {"making", "writing", "releasing"}
  BY DEF Ended, Saves, Locked
<1>4. at \notin {"new", "opening", "asking", "issued", "acknowledging", "checking", "revoking"}
  BY DEF Ended
<1>5. LockOK(p)' /\ KeyOK(p)' /\ SaveOK(p)'
  BY <1>1, <1>2, <1>3 DEF LockOK, KeyOK, SaveOK
<1>6. AimOK(p)'
  BY <1>2, <1>3, <1>4 DEF AimOK
<1>7. WorkerOK(p)'
  BY <1>2, <1>3, <1>4 DEF WorkerOK
<1>8. HistoryOK(p)'
  <2>1. at \notin {"locking", "merging"}
    BY DEF Ended
  <2>2. ~NotYet(p)'
    BY <1>2, <1>3, <1>4, <2>1 DEF NotYet
  <2> QED BY <1>2, <1>3, <1>4, <2>2 DEF HistoryOK
<1>9. RevokedOK(p)'
  BY <1>1, <1>2 DEF RevokedOK, Is, Own
<1> QED BY <1>5, <1>6, <1>7, <1>8, <1>9 DEF Own

-----------------------------------------------------------------------------
(* The steps of commands *)

LEMMA ChangeKeyKeeps ==
  ASSUME CredentialInv, NEW p \in Process, NEW f \in SearchKey, NEW c \in {"set", "remove"}, ChangeKey(p, f, c)
  PROVE  CredentialInv'
<1> DEFINE v == IF c = "set" THEN Brought(p, p, 1) ELSE NoValue
<1>1. Typed /\ Own(p) /\ f \in Field /\ f # Account
  BY Values, CredentialAssumption DEF CredentialInv
<1>2. /\ Typed' /\ Others(p) /\ worker' = worker
      /\ proc'[p] = Saving([Loaded(p) EXCEPT !.command = c, !.issued = IF c = "set" THEN 1 ELSE 0], f, v)
  BY <1>1, ChangeKeyDoes
<1>3. UNCHANGED store /\ lock' = lock /\ revoked'[p] = revoked[p] /\ proc[p].at = "new" /\ proc[p] = NewProcess
  BY <1>1 DEF ChangeKey, Is, Own, HistoryOK
<1>4. /\ proc[p] \in Commands /\ file \in Knows
      /\ proc[p].key = NoKey /\ proc[p].held = NoValue /\ lock # p /\ worker[p] = NoWorker /\ revoked[p] = {}
  BY <1>1, <1>3 DEF Own, LockOK, Locked, NewProcess, WorkerOK, RevokedOK, Ended, Saves, Typed
<1>5. /\ proc'[p].at = "locking" /\ proc'[p].command = c /\ proc'[p].field = f /\ proc'[p].held = NoValue
      /\ proc'[p].key \in {NoKey, local} /\ proc'[p].seen = file /\ proc'[p].next = [file EXCEPT ![f] = v]
  BY <1>2, <1>4 DEF Saving, Loaded, KeyOf, Commands
<1>6. LockOK(p)' /\ KeyOK(p)'
  BY <1>3, <1>4, <1>5 DEF LockOK, KeyOK, Locked, store
<1>7. SaveOK(p)'
  BY <1>4, <1>5 DEF SaveOK, Knows
<1>8. AimOK(p)'
  BY <1>1, <1>4, <1>5 DEF AimOK, Session, Knows, Saves, Locked
<1>9. WorkerOK(p)'
  BY <1>2, <1>4, <1>5 DEF WorkerOK, NoWorker
<1>10. HistoryOK(p)' /\ RevokedOK(p)'
  BY <1>1, <1>3, <1>4, <1>5 DEF HistoryOK, RevokedOK, Own, NotYet, store, Is, Session
<1> QED BY <1>2, <1>3, <1>6, <1>7, <1>8, <1>9, <1>10, StoreSame DEF Own

LEMMA StartSessionKeeps ==
  ASSUME CredentialInv, NEW p \in Process, NEW c \in {"login", "logout", "use"}, StartSession(p, c)
  PROVE  CredentialInv'
<1>1. Typed /\ Own(p)
  BY DEF CredentialInv
<1>2. /\ Typed' /\ Others(p) /\ worker' = worker
      /\ proc'[p] = [(IF c = "logout" THEN Loaded(p) ELSE proc[p]) EXCEPT !.command = c, !.at = "opening"]
  BY <1>1, StartSessionDoes
<1>3. UNCHANGED store /\ lock' = lock /\ revoked'[p] = revoked[p] /\ proc[p].at = "new" /\ proc[p] = NewProcess
  BY <1>1 DEF StartSession, Is, Own, HistoryOK
<1>4. /\ proc[p] \in Commands /\ proc[p].key = NoKey /\ proc[p].held = NoValue /\ proc[p].issued = 0
      /\ lock # p /\ worker[p] = NoWorker /\ revoked[p] = {}
  BY <1>1, <1>3 DEF Own, LockOK, Locked, NewProcess, WorkerOK, RevokedOK, Ended, Saves, Typed
<1>5. /\ proc'[p].at = "opening" /\ proc'[p].command = c /\ proc'[p].held = NoValue /\ proc'[p].issued = 0
      /\ proc'[p].key \in {NoKey, local}
  BY <1>2, <1>4 DEF Loaded, KeyOf, Commands
<1>6. LockOK(p)' /\ KeyOK(p)' /\ SaveOK(p)' /\ AimOK(p)'
  BY <1>3, <1>4, <1>5 DEF LockOK, KeyOK, SaveOK, AimOK, Locked, Saves, store
<1>7. WorkerOK(p)'
  BY <1>2, <1>4, <1>5 DEF WorkerOK, NoWorker, Saves, Locked
<1>8. HistoryOK(p)' /\ RevokedOK(p)'
  BY <1>1, <1>3, <1>4, <1>5 DEF HistoryOK, RevokedOK, Own, NotYet, store, Is, Saves, Locked
<1> QED BY <1>2, <1>3, <1>6, <1>7, <1>8, StoreSame DEF Own

LEMMA OpenSessionKeeps ==
  ASSUME CredentialInv, NEW p \in Process, OpenSession(p)
  PROVE  CredentialInv'
<1>1. Typed /\ Own(p) /\ FileOK /\ Account \in Field
  BY Values DEF CredentialInv
<1>2. /\ Typed' /\ Others(p)
      /\ worker'[p].runs /\ ~worker'[p].pending /\ worker'[p].holds \in {file[Account], NoValue}
      /\ proc'[p] = [proc[p] EXCEPT !.held = file[Account], !.at = IF Session(p) THEN "asking" ELSE "checking"]
  BY <1>1, OpenSessionDoes
<1>3. UNCHANGED store /\ lock' = lock /\ revoked'[p] = revoked[p] /\ proc[p].at = "opening"
  BY <1>1 DEF OpenSession, Is
<1>4. /\ proc[p] \in Commands /\ proc[p].issued = 0 /\ lock # p /\ revoked[p] = {}
  BY <1>1, <1>3 DEF Own, LockOK, Locked, HistoryOK, RevokedOK, Ended, Saves, Typed
<1>5. /\ proc'[p].at = IF Session(p) THEN "asking" ELSE "checking"
      /\ proc'[p].command = proc[p].command /\ proc'[p].held = file[Account] /\ proc'[p].key = proc[p].key
      /\ proc'[p].issued = 0 /\ (Session(p)' <=> Session(p))
  BY <1>2, <1>4 DEF Commands, Session
<1>6. LockOK(p)' /\ KeyOK(p)' /\ SaveOK(p)'
  BY <1>1, <1>3, <1>4, <1>5 DEF Own, LockOK, KeyOK, SaveOK, Locked, Saves, store
<1>7. AimOK(p)'
  BY <1>1, <1>3, <1>5 DEF Own, AimOK, Locked, Saves, Session
<1>8. WorkerOK(p)'
  BY <1>2, <1>5 DEF WorkerOK, Saves, Locked, Ended
<1>9. HistoryOK(p)' /\ RevokedOK(p)'
  BY <1>1, <1>3, <1>4, <1>5 DEF HistoryOK, RevokedOK, Own, NotYet, store, Is, Saves, Locked, FileOK
<1> QED BY <1>2, <1>3, <1>6, <1>7, <1>8, <1>9, StoreSame DEF Own

\* A logout goes on to remove what it has read.
LEMMA LogoutSaves ==
  ASSUME CredentialInv, NEW p \in Process, Typed', Others(p), UNCHANGED <<store, lock>>,
         proc[p].at \in {"opening", "revoking"}, proc[p].command = "logout", worker'[p] = NoWorker,
         proc'[p] = Saving(proc[p], Account, NoValue),
         revoked'[p] \subseteq {proc[p].seen[Account]}, revoked'[p] \subseteq saved[Account]
  PROVE  CredentialInv'
<1>1. Own(p) /\ proc[p] \in Commands /\ proc[p].seen \in Knows /\ Account \in Field
  BY Values DEF CredentialInv, Typed, Commands
<1>2. /\ proc'[p].at = "locking" /\ proc'[p].command = "logout" /\ proc'[p].field = Account
      /\ proc'[p].key = proc[p].key /\ proc'[p].seen = proc[p].seen /\ proc'[p].held = proc[p].held
      /\ proc'[p].next = [proc[p].seen EXCEPT ![Account] = NoValue]
  BY <1>1 DEF Saving, Commands
<1>3. LockOK(p)' /\ KeyOK(p)'
  BY <1>1, <1>2 DEF Own, LockOK, KeyOK, Locked, store
<1>4. SaveOK(p)' /\ AimOK(p)'
  BY <1>1, <1>2 DEF SaveOK, AimOK, Session, Knows, Saves, Locked
<1>5. WorkerOK(p)'
  BY <1>2 DEF WorkerOK, NoWorker
<1>6. HistoryOK(p)' /\ RevokedOK(p)'
  BY <1>1, <1>2 DEF HistoryOK, RevokedOK, Own, NotYet, store, Is, Session, Saves, Ended
<1> QED BY <1>3, <1>4, <1>5, <1>6, StoreSame DEF Own

LEMMA EndKeeps ==
  ASSUME CredentialInv, NEW p \in Process, NEW at \in Ended, Ends(p, at), UNCHANGED <<store, revoked>>,
         lock' = IF lock = p THEN NoProcess ELSE lock,
         at = "done" => \A v \in revoked[p] : file[Account] # NoValue => file[Account].of # v.of
  PROVE  CredentialInv'
<1>1. Typed /\ lock' \in Process \cup {NoProcess} /\ lock' # p
  BY CredentialAssumption, Values DEF CredentialInv, Typed
<1>2. Typed' /\ Others(p) /\ worker'[p] = NoWorker /\ proc'[p] = [NewProcess EXCEPT !.at = at]
  BY <1>1, EndingDoes
<1>3. Own(p)'
  BY <1>1, <1>2, OverIsFine
<1> QED BY <1>2, <1>3, StoreSame

LEMMA NoSessionKeeps ==
  ASSUME CredentialInv, NEW p \in Process, NoSession(p) PROVE CredentialInv'
<1>1. Typed /\ Own(p) /\ proc[p].at = "opening" /\ UNCHANGED <<store, lock, revoked>>
  BY DEF CredentialInv, NoSession, Is
<1>2. lock # p /\ revoked[p] = {} /\ worker[p] = NoWorker /\ proc[p].command \in {"login", "logout", "use"}
  BY <1>1 DEF Own, LockOK, Locked, RevokedOK, Ended, Saves, WorkerOK, AimOK
<1>3. CASE Session(p)
  BY <1>1, <1>2, <1>3, EndKeeps DEF NoSession, Ended
<1>4. CASE ~Session(p)
  <2>1. Typed' /\ Others(p) /\ worker' = worker /\ proc'[p] = Saving(proc[p], Account, NoValue)
    BY <1>1, <1>4, NoSessionDoes
  <2>2. proc[p].command = "logout"
    BY <1>2, <1>4 DEF Session
  <2> QED BY <1>1, <1>2, <2>1, <2>2, LogoutSaves
<1> QED BY <1>3, <1>4

LEMMA WorkerDiesKeeps ==
  ASSUME CredentialInv, NEW p \in Process, WorkerDies(p) PROVE CredentialInv'
<1>1. Typed /\ Own(p)
  BY DEF CredentialInv
<1>2. Typed' /\ Others(p) /\ proc' = proc /\ worker'[p] = NoWorker /\ UNCHANGED <<store, lock, revoked>>
  BY <1>1, WorkerDiesDoes DEF WorkerDies
<1>3. WorkerOK(p)'
  BY <1>2 DEF WorkerOK, NoWorker
<1>4. Own(p)'
  BY <1>1, <1>2, <1>3 DEF Own, LockOK, KeyOK, SaveOK, Changed, AimOK, Session, HistoryOK, NotYet, RevokedOK, Is, store
<1> QED BY <1>2, <1>4, StoreSame

LEMMA RestartKeeps ==
  ASSUME CredentialInv, NEW p \in Process, Restart(p) PROVE CredentialInv'
<1>1. Typed /\ Own(p)
  BY DEF CredentialInv
<1>2. /\ Typed' /\ Others(p) /\ proc' = proc
      /\ worker'[p].runs /\ ~worker'[p].pending /\ worker'[p].holds \in {proc[p].held, NoValue}
  BY <1>1, RestartDoes
<1>3. proc[p].at \in {"asking", "revoking"} /\ UNCHANGED <<store, lock, revoked>>
  BY DEF Restart
<1>4. WorkerOK(p)'
  BY <1>2, <1>3 DEF WorkerOK, Saves, Locked, Ended
<1>5. Own(p)'
  BY <1>1, <1>2, <1>3, <1>4 DEF Own, LockOK, KeyOK, SaveOK, Changed, AimOK, Session, HistoryOK, NotYet, RevokedOK, Is, store
<1> QED BY <1>2, <1>3, <1>5, StoreSame

LEMMA IssueKeeps ==
  ASSUME CredentialInv, NEW p \in Process, Issue(p) PROVE CredentialInv'
<1>1. Typed /\ Own(p) /\ proc[p] \in Commands /\ worker[p] \in Workers
  BY DEF CredentialInv, Typed
<1>2. /\ Typed' /\ Others(p) /\ Issued(p) \in Value /\ proc[p].issued \in {0, 1}
      /\ Issued(p).of = IF SignsIn(p) THEN p ELSE worker[p].holds.of
      /\ SignsIn(p) \/ worker[p].holds # NoValue
      /\ proc'[p] = [proc[p] EXCEPT !.issued = @ + 1, !.got = Issued(p), !.at = "issued"]
      /\ worker'[p] = [worker[p] EXCEPT !.holds = Issued(p), !.pending = TRUE]
  BY <1>1, IssueDoes
<1>3. /\ proc[p].at = "asking" /\ worker[p].runs /\ UNCHANGED <<store, lock, revoked>>
      /\ Session(p) /\ worker[p].holds \in {proc[p].held, NoValue}
      /\ lock # p /\ revoked[p] = {}
  BY <1>1 DEF Issue, Is, Own, AimOK, WorkerOK, LockOK, Locked, RevokedOK, Saves, Ended
<1>4. /\ proc'[p].at = "issued" /\ proc'[p].got = Issued(p) /\ proc'[p].issued \in {1, 2}
      /\ proc'[p].issued = 1 => proc[p].issued = 0
      /\ proc[p].issued = 0 => proc'[p].issued = 1
      /\ proc'[p].command = proc[p].command /\ proc'[p].held = proc[p].held /\ proc'[p].key = proc[p].key
  BY <1>1, <1>2 DEF Commands
<1>5. worker'[p].runs /\ worker'[p].pending /\ worker'[p].holds = Issued(p) /\ Session(p)'
  BY <1>1, <1>2, <1>3, <1>4 DEF Workers, Session
<1>6. LockOK(p)' /\ KeyOK(p)' /\ SaveOK(p)'
  BY <1>1, <1>3, <1>4 DEF Own, LockOK, KeyOK, SaveOK, Locked, Saves, store
<1>7. AimOK(p)'
  <2>1. proc'[p].got # NoValue
    BY <1>2, <1>4, Values
  <2>2. \/ proc'[p].command = "login" /\ proc'[p].issued = 1 /\ proc'[p].got.of = p
        \/ proc'[p].held # NoValue /\ proc'[p].got.of = proc'[p].held.of
    BY <1>2, <1>3, <1>4 DEF SignsIn
  <2> QED BY <1>4, <1>5, <2>1, <2>2 DEF AimOK, Saves, Locked
<1>8. WorkerOK(p)'
  BY <1>4, <1>5 DEF WorkerOK, Saves, Locked, Ended
<1>9. HistoryOK(p)' /\ RevokedOK(p)'
  <2>1. NotYet(p)' => NotYet(p)
    BY <1>3, <1>4 DEF NotYet
  <2> QED BY <1>1, <1>3, <1>4, <2>1 DEF HistoryOK, RevokedOK, Own, store, Is
<1> QED BY <1>2, <1>3, <1>6, <1>7, <1>8, <1>9, StoreSame DEF Own

LEMMA PersistKeeps ==
  ASSUME CredentialInv, NEW p \in Process, Persist(p) PROVE CredentialInv'
<1>1. Typed /\ Own(p) /\ proc[p] \in Commands /\ file \in Knows /\ Account \in Field
  BY Values DEF CredentialInv, Typed
<1>2. Typed' /\ Others(p) /\ worker' = worker /\ proc'[p] = Saving(Loaded(p), Account, proc[p].got)
  BY <1>1, PersistDoes
<1>3. /\ proc[p].at = "issued" /\ file[Account] = proc[p].held /\ UNCHANGED <<store, lock, revoked>>
      /\ Session(p) /\ lock # p /\ revoked[p] = {}
  BY <1>1 DEF Persist, Is, Own, AimOK, LockOK, Locked, RevokedOK, Saves, Ended
<1>4. /\ proc'[p].at = "locking" /\ proc'[p].field = Account /\ proc'[p].command = proc[p].command
      /\ proc'[p].issued = proc[p].issued /\ proc'[p].got = proc[p].got /\ proc'[p].held = proc[p].held
      /\ proc'[p].seen = file /\ proc'[p].next = [file EXCEPT ![Account] = proc[p].got]
      /\ proc'[p].key \in {proc[p].key, local} /\ (Session(p)' <=> Session(p))
  BY <1>1, <1>2 DEF Saving, Loaded, KeyOf, Commands, Session
<1>5. LockOK(p)' /\ KeyOK(p)'
  BY <1>1, <1>3, <1>4 DEF Own, LockOK, KeyOK, Locked, store
<1>6. SaveOK(p)'
  BY <1>1, <1>4 DEF SaveOK, Knows
<1>7. AimOK(p)'
  <2>1. proc'[p].seen[Account] = proc'[p].held /\ proc'[p].next[Account] = proc'[p].got
    BY <1>1, <1>3, <1>4 DEF Knows
  <2>2. /\ proc'[p].got # NoValue
        /\ \/ proc'[p].command = "login" /\ proc'[p].issued = 1 /\ proc'[p].got.of = p
           \/ proc'[p].held # NoValue /\ proc'[p].got.of = proc'[p].held.of
    BY <1>1, <1>3, <1>4 DEF Own, AimOK
  <2> QED BY <1>3, <1>4, <2>1, <2>2 DEF AimOK, Session
<1>8. WorkerOK(p)'
  BY <1>1, <1>2, <1>3, <1>4 DEF Own, WorkerOK, Saves, Ended
<1>9. HistoryOK(p)' /\ RevokedOK(p)'
  <2>1. NotYet(p)' => NotYet(p)
    BY <1>3, <1>4 DEF NotYet, Session
  <2> QED BY <1>1, <1>3, <1>4, <2>1 DEF HistoryOK, RevokedOK, Own, store, Is
<1> QED BY <1>2, <1>3, <1>5, <1>6, <1>7, <1>8, <1>9, StoreSame DEF Own

LEMMA AcknowledgeKeeps ==
  ASSUME CredentialInv, NEW p \in Process, Acknowledge(p) PROVE CredentialInv'
<1>1. Typed /\ Own(p) /\ proc[p] \in Commands /\ worker[p] \in Workers
  BY DEF CredentialInv, Typed
<1>2. /\ proc[p].at = "acknowledging" /\ UNCHANGED <<store, lock, revoked>>
      /\ Session(p) /\ lock # p /\ revoked[p] = {} /\ proc[p].issued # 0
  BY <1>1 DEF Acknowledge, Is, Own, AimOK, LockOK, Locked, RevokedOK, HistoryOK, Saves, Ended
<1>3. CASE ~worker[p].pending
  BY <1>2, <1>3, EndKeeps DEF Acknowledge, Ended
<1>4. CASE worker[p].pending
  <2>1. /\ Typed' /\ Others(p) /\ proc'[p] = [proc[p] EXCEPT !.at = "asking"]
        /\ worker'[p] = [worker[p] EXCEPT !.pending = FALSE]
    BY <1>1, <1>4, AcknowledgeDoes
  <2>2. /\ proc'[p].at = "asking" /\ proc'[p].command = proc[p].command /\ proc'[p].issued = proc[p].issued
        /\ proc'[p].held = proc[p].held /\ proc'[p].key = proc[p].key /\ Session(p)'
    BY <1>1, <1>2, <2>1 DEF Commands, Session
  <2>3. worker[p].runs /\ worker[p].holds = proc[p].held
    BY <1>1, <1>2, <1>4 DEF Own, WorkerOK, NoWorker
  <2>4. worker'[p].runs /\ ~worker'[p].pending /\ worker'[p].holds = proc[p].held
    BY <1>1, <2>1, <2>3 DEF Workers
  <2>5. LockOK(p)' /\ KeyOK(p)' /\ SaveOK(p)' /\ AimOK(p)'
    BY <1>1, <1>2, <2>2 DEF Own, LockOK, KeyOK, SaveOK, AimOK, Locked, Saves, store
  <2>6. WorkerOK(p)'
    BY <2>2, <2>4 DEF WorkerOK, Saves, Locked, Ended
  <2>7. HistoryOK(p)' /\ RevokedOK(p)'
    BY <1>1, <1>2, <2>2 DEF HistoryOK, RevokedOK, Own, NotYet, store, Is, Saves, Locked
  <2> QED BY <1>2, <2>1, <2>5, <2>6, <2>7, StoreSame DEF Own
<1> QED BY <1>3, <1>4

\* The places where a command is killed, gives up or is refused hold nothing of a lock.
LEMMA FailKeeps ==
  ASSUME CredentialInv, NEW p \in Process,
         \/ PersistRefused(p) \/ Finish(p) \/ Busy(p) \/ WriteFails(p) \/ Kill(p)
         \/ (Merge(p) /\ Conflict(p))
  PROVE  CredentialInv'
<1>1. Own(p)
  BY DEF CredentialInv
<1>2. CASE PersistRefused(p)
  BY <1>1, <1>2, EndKeeps DEF PersistRefused, Ended, Own, LockOK, Locked, Is
<1>3. CASE Finish(p)
  <2>1. PICK at \in {"done", "failed"} : Ends(p, at)
    BY <1>3 DEF Finish
  <2>2. revoked[p] = {} /\ lock # p /\ UNCHANGED <<store, lock, revoked>>
    BY <1>1, <1>3 DEF Finish, Is, Own, RevokedOK, LockOK, Locked, Saves, Ended
  <2> QED BY <2>1, <2>2, EndKeeps DEF Ended
<1>4. CASE Busy(p)
  BY <1>1, <1>4, EndKeeps DEF Busy, Ended, Own, LockOK, Locked, Is
<1>5. CASE WriteFails(p)
  BY <1>1, <1>5, EndKeeps DEF WriteFails, Ended, Own, LockOK, Locked
<1>6. CASE Kill(p)
  BY <1>6, EndKeeps DEF Kill, Ended
<1>7. CASE Merge(p) /\ Conflict(p)
  BY <1>1, <1>7, EndKeeps DEF Merge, MergeWith, Ended, Own, LockOK, Locked, Is
<1> QED BY <1>2, <1>3, <1>4, <1>5, <1>6, <1>7

LEMMA CheckKeeps ==
  ASSUME CredentialInv, NEW p \in Process, Check(p) PROVE CredentialInv'
<1>1. Typed /\ Own(p) /\ proc[p] \in Commands
  BY DEF CredentialInv, Typed
<1>2. /\ proc[p].at = "checking" /\ UNCHANGED <<store, lock, revoked>> /\ lock # p /\ revoked[p] = {}
      /\ proc[p].command = "logout" /\ lock' \in Process \cup {NoProcess}
  BY <1>1 DEF Check, Is, Own, AimOK, LockOK, Locked, RevokedOK, Saves, Ended, Typed
<1>3. CASE proc[p].held # proc[p].seen[Account]
  BY <1>2, <1>3, EndKeeps DEF Check, Ended
<1>4. CASE proc[p].held = proc[p].seen[Account]
  <2>1. Typed' /\ Others(p) /\ proc'[p] = [proc[p] EXCEPT !.at = "revoking"] /\ worker' = worker
    BY <1>1, <1>2, <1>4, GoingDoes, Words DEF Check
  <2>2. /\ proc'[p].at = "revoking" /\ proc'[p].command = "logout" /\ proc'[p].held = proc[p].held
        /\ proc'[p].seen = proc[p].seen /\ proc'[p].key = proc[p].key
    BY <1>1, <1>2, <2>1 DEF Commands
  <2>3. LockOK(p)' /\ KeyOK(p)' /\ SaveOK(p)' /\ AimOK(p)'
    BY <1>1, <1>2, <1>4, <2>2 DEF Own, LockOK, KeyOK, SaveOK, AimOK, Locked, Saves, store
  <2>4. WorkerOK(p)'
    BY <1>1, <1>2, <2>1, <2>2 DEF Own, WorkerOK, Saves, Locked, Ended
  <2>5. HistoryOK(p)' /\ RevokedOK(p)'
    BY <1>1, <1>2, <2>2 DEF HistoryOK, RevokedOK, Own, NotYet, store, Is, Saves, Locked
  <2> QED BY <1>2, <2>1, <2>3, <2>4, <2>5, StoreSame DEF Own
<1> QED BY <1>3, <1>4

LEMMA RevokeKeeps ==
  ASSUME CredentialInv, NEW p \in Process, Revoke(p) \/ NotRevoked(p) PROVE CredentialInv'
<1>1. Typed /\ Own(p) /\ Removes(p) /\ proc[p].at = "revoking" /\ Account \in Field
  BY Values DEF CredentialInv, Revoke, NotRevoked, Is
<1>2. /\ UNCHANGED <<store, lock>> /\ revoked[p] = {} /\ proc[p].command = "logout"
      /\ proc[p].held = proc[p].seen[Account] /\ worker[p].holds \in {proc[p].held, NoValue}
      /\ proc[p].held # NoValue => proc[p].held \in saved[Account]
  BY <1>1 DEF Removes, Own, AimOK, WorkerOK, HistoryOK, RevokedOK, Saves, Locked, Ended
<1>3. PICK gave \in SUBSET saved[Account] :
        gave \subseteq {proc[p].seen[Account]} /\ revoked' = [revoked EXCEPT ![p] = gave]
  <2>1. CASE Revoke(p)
    <3>1. revoked' = [revoked EXCEPT ![p] = {worker[p].holds} \ {NoValue}]
      BY <1>2, <2>1 DEF Revoke
    <3>2. {worker[p].holds} \ {NoValue} \subseteq saved[Account] /\ {worker[p].holds} \ {NoValue} \subseteq {proc[p].seen[Account]}
      BY <1>2
    <3> QED BY <3>1, <3>2
  <2>2. CASE NotRevoked(p)
    <3>1. revoked' = [revoked EXCEPT ![p] = {}]
      BY <1>1, <1>2, <2>2 DEF NotRevoked, Typed
    <3> QED BY <3>1
  <2> QED BY <2>1, <2>2
<1>4. gave \in SUBSET Value
  BY <1>1, <1>3 DEF Typed
<1>5. /\ Typed' /\ Others(p) /\ worker'[p] = NoWorker /\ revoked'[p] = gave
      /\ proc'[p] = Saving(proc[p], Account, NoValue)
  BY <1>1, <1>3, <1>4, RemovesDoes
<1> QED BY <1>1, <1>2, <1>3, <1>5, LogoutSaves

-----------------------------------------------------------------------------
(* The steps of save *)

LEMMA AcquireKeeps ==
  ASSUME CredentialInv, NEW p \in Process, Acquire(p) PROVE CredentialInv'
<1>1. Typed /\ Own(p) /\ proc[p] \in Commands
  BY DEF CredentialInv, Typed
<1>2. /\ proc[p].at = "locking" /\ lock = NoProcess /\ lock' = p /\ UNCHANGED <<store, revoked>>
      /\ lock' \in Process \cup {NoProcess}
  BY DEF Acquire, Is
<1>3. Typed' /\ Others(p) /\ proc'[p] = [proc[p] EXCEPT !.at = "merging"] /\ worker' = worker
  BY <1>1, <1>2, GoingDoes, Words DEF Acquire
<1>4. /\ proc'[p].at = "merging" /\ proc'[p].command = proc[p].command /\ proc'[p].field = proc[p].field
      /\ proc'[p].key = proc[p].key /\ proc'[p].issued = proc[p].issued /\ proc'[p].got = proc[p].got
      /\ proc'[p].seen = proc[p].seen /\ proc'[p].next = proc[p].next /\ proc'[p].held = proc[p].held
      /\ (Session(p)' <=> Session(p))
  BY <1>1, <1>3 DEF Commands, Session
<1>5. LockOK(p)' /\ KeyOK(p)' /\ SaveOK(p)'
  BY <1>1, <1>2, <1>4 DEF Own, LockOK, KeyOK, SaveOK, Locked, Saves, store
<1>6. AimOK(p)'
  BY <1>1, <1>2, <1>4 DEF Own, AimOK, Locked, Saves, Session
<1>7. WorkerOK(p)'
  BY <1>1, <1>2, <1>3, <1>4 DEF Own, WorkerOK, Saves, Locked, Ended
<1>8. HistoryOK(p)' /\ RevokedOK(p)'
  BY <1>1, <1>2, <1>4 DEF HistoryOK, RevokedOK, Own, NotYet, store, Is, Saves, Locked, Ended
<1> QED BY <1>2, <1>3, <1>5, <1>6, <1>7, <1>8, StoreSame DEF Own

LEMMA MergeKeeps ==
  ASSUME CredentialInv, NEW p \in Process, Merge(p), ~Conflict(p) PROVE CredentialInv'
<1>1. Typed /\ Own(p) /\ proc[p] \in Commands
  BY DEF CredentialInv, Typed
<1>2. /\ Typed' /\ Others(p) /\ worker' = worker /\ UNCHANGED lock
      /\ proc'[p] = [proc[p] EXCEPT
           !.at = IF Changed(p) = {} THEN "releasing" ELSE IF KeyOf(p) = NoKey THEN "making" ELSE "writing",
           !.key = KeyOf(p), !.merged = Merged(p)]
  BY <1>1, MergeDoes
<1>3. proc[p].at = "merging" /\ UNCHANGED <<store, revoked>>
  BY DEF Merge, MergeWith, Is
<1>4. /\ proc'[p].at = IF Changed(p) = {} THEN "releasing" ELSE IF KeyOf(p) = NoKey THEN "making" ELSE "writing"
      /\ proc'[p].command = proc[p].command /\ proc'[p].field = proc[p].field
      /\ proc'[p].key = KeyOf(p) /\ proc'[p].issued = proc[p].issued /\ proc'[p].got = proc[p].got
      /\ proc'[p].seen = proc[p].seen /\ proc'[p].next = proc[p].next /\ proc'[p].merged = Merged(p)
      /\ proc'[p].held = proc[p].held /\ (Session(p)' <=> Session(p))
  BY <1>1, <1>2 DEF Commands, Session
<1>5. LockOK(p)' /\ KeyOK(p)'
  BY <1>1, <1>2, <1>3, <1>4 DEF Own, LockOK, KeyOK, KeyOf, Locked, store
<1>6. SaveOK(p)'
  <2>1. Changed(p)' = Changed(p) /\ \A f \in Field : file'[f] = file[f]
    BY <1>3, <1>4 DEF Changed, store
  <2>2. \A f \in Field : Merged(p)[f] = IF f \in Changed(p) THEN proc[p].next[f] ELSE file[f]
    BY DEF Merged
  <2>3. \A f \in Changed(p) : f \in Field /\ file[f] \in {proc[p].seen[f], proc[p].next[f]}
    BY DEF Conflict, Changed
  <2>4. proc'[p].at = "releasing" => Changed(p) = {}
    BY <1>4
  <2>5. \A f \in Field : f # proc[p].field => proc[p].next[f] = proc[p].seen[f]
    BY <1>1, <1>3 DEF Own, SaveOK, Saves, Locked
  <2> QED BY <1>4, <2>1, <2>2, <2>3, <2>4, <2>5 DEF SaveOK
<1>7. AimOK(p)'
  BY <1>1, <1>3, <1>4 DEF Own, AimOK, Locked, Saves, Session
<1>8. WorkerOK(p)'
  BY <1>1, <1>2, <1>3, <1>4 DEF Own, WorkerOK, Saves, Locked, Ended
<1>9. HistoryOK(p)' /\ RevokedOK(p)'
  BY <1>1, <1>3, <1>4 DEF HistoryOK, RevokedOK, Own, NotYet, store, Is, Saves, Locked, Ended
<1> QED BY <1>2, <1>3, <1>5, <1>6, <1>7, <1>8, <1>9, StoreSame DEF Own

\* Until the first key is made nobody knows one; whoever makes it has the lock.
LEMMA MakeKeyKeeps ==
  ASSUME CredentialInv, NEW p \in Process, MakeKey(p) PROVE CredentialInv'
<1>1. Typed /\ Own(p) /\ FileOK /\ proc[p] \in Commands
  BY DEF CredentialInv, Typed
<1>2. Typed' /\ Others(p) /\ worker' = worker /\ proc'[p] = [proc[p] EXCEPT !.key = p, !.at = "writing"]
  BY <1>1, MakeKeyDoes
<1>3. /\ proc[p].at = "making" /\ local' = p /\ file' = file /\ sealed' = sealed /\ saved' = saved
      /\ lock' = lock /\ revoked' = revoked /\ lock = p /\ local = NoKey /\ p # NoKey
  BY <1>1, CredentialAssumption, Values DEF MakeKey, Is, Own, LockOK, Locked, KeyOK, NoKey, Who
<1>4. /\ proc'[p].at = "writing" /\ proc'[p].command = proc[p].command /\ proc'[p].field = proc[p].field
      /\ proc'[p].key = p /\ proc'[p].issued = proc[p].issued /\ proc'[p].got = proc[p].got
      /\ proc'[p].seen = proc[p].seen /\ proc'[p].next = proc[p].next /\ proc'[p].merged = proc[p].merged
      /\ proc'[p].held = proc[p].held /\ (Session(p)' <=> Session(p))
  BY <1>1, <1>2 DEF Commands, Session
<1>5. LockOK(p)' /\ KeyOK(p)'
  BY <1>3, <1>4 DEF LockOK, KeyOK, Locked
<1>6. SaveOK(p)'
  BY <1>1, <1>3, <1>4 DEF Own, SaveOK, Changed, Saves, Locked
<1>7. AimOK(p)'
  BY <1>1, <1>3, <1>4 DEF Own, AimOK, Locked, Saves, Session
<1>8. WorkerOK(p)'
  BY <1>1, <1>2, <1>3, <1>4 DEF Own, WorkerOK, Saves, Locked, Ended
<1>9. HistoryOK(p)' /\ RevokedOK(p)'
  BY <1>1, <1>3, <1>4 DEF HistoryOK, RevokedOK, Own, NotYet, Is, Saves, Locked, Ended
<1>10. FileOK'
  BY <1>1, <1>3 DEF FileOK
<1>11. ASSUME NEW q \in Process, q # p PROVE Own(q)'
  <2>1. Own(q) /\ proc'[q] = proc[q] /\ worker'[q] = worker[q] /\ revoked'[q] = revoked[q] /\ lock # q
    BY <1>2, <1>3, <1>11 DEF CredentialInv, Others
  <2>2. proc[q].key = NoKey /\ proc[q].at \notin Locked
    BY <1>3, <2>1 DEF Own, KeyOK, LockOK
  <2>3. LockOK(q)' /\ KeyOK(q)'
    BY <1>3, <2>1, <2>2 DEF LockOK, KeyOK, Locked
  <2>4. SaveOK(q)' /\ AimOK(q)' /\ WorkerOK(q)'
    BY <1>3, <2>1 DEF Own, SaveOK, Changed, AimOK, WorkerOK, Session
  <2>5. HistoryOK(q)' /\ RevokedOK(q)'
    BY <1>3, <2>1 DEF Own, HistoryOK, NotYet, Session, RevokedOK, Is
  <2> QED BY <2>3, <2>4, <2>5 DEF Own
<1> QED BY <1>2, <1>5, <1>6, <1>7, <1>8, <1>9, <1>10, <1>11 DEF CredentialInv, Own

\* What a save brings in: nothing; or what its command signed in to or was given to keep, none of
\* which has been saved before; or what an account was rotated to that is in the file until then.
LEMMA Written ==
  ASSUME CredentialInv, NEW p \in Process, proc[p].at = "writing", NEW f \in Field,
         proc[p].merged[f] # file[f]
  PROVE  /\ f = proc[p].field /\ proc[p].seen[f] = file[f]
         /\ \/ proc[p].merged[f] = NoValue
            \/ proc[p].merged[f] \in Value /\ proc[p].merged[f].of = p /\ NotYet(p)
            \/ /\ proc[p].merged[f] \in Value /\ file[f] # NoValue
               /\ proc[p].merged[f].of = file[f].of
<1>1. Typed /\ Own(p) /\ proc[p] \in Commands /\ proc[p].merged[f] \in May
  BY DEF CredentialInv, Typed, Commands, Knows
<1>2. proc[p].at \in Saves /\ proc[p].at \in {"making", "writing"}
  BY DEF Saves, Locked
<1>3. /\ f \in Changed(p) /\ proc[p].merged[f] = proc[p].next[f] /\ file[f] = proc[p].seen[f]
  BY <1>1, <1>2 DEF Own, SaveOK
<1>4. f = proc[p].field
  BY <1>1, <1>2, <1>3 DEF Own, SaveOK, Changed
<1>5. CASE proc[p].command \in {"set", "remove"}
  <2>1. proc[p].next[f] = IF proc[p].command = "set" THEN Brought(p, p, 1) ELSE NoValue
    BY <1>1, <1>2, <1>4, <1>5 DEF Own, AimOK
  <2>2. Brought(p, p, 1) \in Value /\ Brought(p, p, 1).of = p
    <3>1. p \in Who /\ 1 \in 1..2
      BY Values
    <3> QED BY <3>1, Values DEF Brought
  <2> QED BY <1>3, <1>4, <1>5, <2>1, <2>2 DEF NotYet
<1>6. CASE proc[p].command = "logout"
  BY <1>1, <1>2, <1>3, <1>4, <1>6 DEF Own, AimOK
<1>7. CASE Session(p)
  <2>1. /\ f = Account /\ proc[p].next[f] = proc[p].got /\ proc[p].seen[f] = proc[p].held
        /\ proc[p].got # NoValue
        /\ \/ proc[p].command = "login" /\ proc[p].issued = 1 /\ proc[p].got.of = p
           \/ proc[p].held # NoValue /\ proc[p].got.of = proc[p].held.of
    BY <1>1, <1>2, <1>4, <1>7 DEF Own, AimOK
  <2>2. proc[p].merged[f] \in Value
    BY <1>1, <1>3, <2>1 DEF May
  <2>3. proc[p].command = "login" /\ proc[p].issued = 1 => NotYet(p)
    BY DEF NotYet
  <2> QED BY <1>3, <1>4, <2>1, <2>2, <2>3
<1>8. proc[p].command \in {"set", "remove", "logout"} \/ Session(p)
  BY <1>1 DEF Commands, Command, Session
<1> QED BY <1>5, <1>6, <1>7, <1>8

LEMMA ReplaceKeeps ==
  ASSUME CredentialInv, NEW p \in Process, Replace(p) PROVE CredentialInv'
<1>1. Typed /\ Own(p) /\ FileOK /\ proc[p] \in Commands
  BY DEF CredentialInv, Typed
<1>2. /\ Typed' /\ Others(p) /\ worker' = worker /\ proc'[p] = [proc[p] EXCEPT !.at = "releasing"]
      /\ \A f \in Field : saved'[f] = saved[f] \cup ({proc[p].merged[f]} \ {NoValue})
  BY <1>1, ReplaceDoes
<1>3. /\ proc[p].at = "writing" /\ file' = proc[p].merged /\ sealed' = proc[p].key /\ local' = local
      /\ lock' = lock /\ revoked' = revoked /\ lock = p /\ proc[p].key = local
  BY <1>1 DEF Replace, Is, Own, LockOK, Locked, KeyOK
<1>4. /\ proc'[p].at = "releasing" /\ proc'[p].command = proc[p].command /\ proc'[p].field = proc[p].field
      /\ proc'[p].key = proc[p].key /\ proc'[p].issued = proc[p].issued /\ proc'[p].got = proc[p].got
      /\ proc'[p].seen = proc[p].seen /\ proc'[p].next = proc[p].next
      /\ proc'[p].held = proc[p].held /\ (Session(p)' <=> Session(p))
  BY <1>1, <1>2 DEF Commands, Session
<1>5. LockOK(p)' /\ KeyOK(p)'
  BY <1>1, <1>3, <1>4 DEF Own, LockOK, KeyOK, Locked
<1>6. SaveOK(p)'
  <2>1. \A f \in Changed(p) : f \in Field /\ proc[p].merged[f] = proc[p].next[f]
    BY <1>1, <1>3 DEF Own, SaveOK, Changed
  <2>2. Changed(p)' = Changed(p)
    BY <1>4 DEF Changed
  <2>3. \A f \in Field : f # proc[p].field => proc[p].next[f] = proc[p].seen[f]
    BY <1>1, <1>3 DEF Own, SaveOK, Saves, Locked
  <2> QED BY <1>3, <1>4, <2>1, <2>2, <2>3 DEF SaveOK
<1>7. AimOK(p)'
  BY <1>1, <1>3, <1>4 DEF Own, AimOK, Locked, Saves, Session
<1>8. WorkerOK(p)'
  BY <1>1, <1>2, <1>3, <1>4 DEF Own, WorkerOK, Saves, Locked, Ended
<1>9. \A f \in Field : saved[f] \subseteq saved'[f]
  BY <1>2
<1>10. HistoryOK(p)' /\ RevokedOK(p)'
  BY <1>1, <1>3, <1>4, <1>9, Values DEF HistoryOK, RevokedOK, Own, NotYet, Is, Saves, Locked, Ended
<1>11. FileOK'
  BY <1>2, <1>3 DEF FileOK
<1>12. ASSUME NEW q \in Process, q # p PROVE Own(q)'
  <2>1. Own(q) /\ proc'[q] = proc[q] /\ worker'[q] = worker[q] /\ revoked'[q] = revoked[q] /\ lock # q
    BY <1>2, <1>3, <1>12 DEF CredentialInv, Others
  <2>2. LockOK(q)' /\ KeyOK(q)' /\ AimOK(q)' /\ WorkerOK(q)'
    BY <1>3, <2>1 DEF Own, LockOK, KeyOK, AimOK, WorkerOK, Session
  <2>3. SaveOK(q)'
    <3>1. proc[q].at \notin {"making", "writing", "releasing"}
      BY <2>1 DEF Own, LockOK, Locked
    <3> QED BY <2>1, <3>1 DEF Own, SaveOK
  <2>4. ASSUME NotYet(q), NEW f \in Field, NEW v \in saved'[f] PROVE v.of # q
    <3>1. \A u \in saved[f] : u.of # q
      BY <2>1, <2>4 DEF Own, HistoryOK
    <3>2. CASE v \in saved[f]
      BY <3>1, <3>2
    <3>3. CASE v \notin saved[f]
      <4>1. v = proc[p].merged[f] /\ v # NoValue /\ v # file[f]
        BY <1>1, <1>2, <2>4, <3>3 DEF FileOK
      <4> QED BY <1>1, <1>3, <1>12, <3>1, <4>1, Written DEF FileOK
    <3> QED BY <3>2, <3>3
  <2>5. HistoryOK(q)'
    <3>1. NotYet(q)' <=> NotYet(q)
      BY <2>1 DEF NotYet
    <3> QED BY <1>9, <2>1, <2>4, <3>1, Values DEF Own, HistoryOK, Session
  <2>6. RevokedOK(q)'
    <3>1. revoked[q] \subseteq saved'[Account]
      BY <1>9, <2>1, Values DEF Own, RevokedOK
    <3>2. ASSUME proc[q].at = "done", NEW v \in revoked[q], file'[Account] # NoValue
          PROVE  file'[Account].of # v.of
      <4>1. v \in saved[Account] /\ (file[Account] # NoValue => file[Account].of # v.of)
        BY <2>1, <3>2 DEF Own, RevokedOK, Is
      <4>2. CASE file'[Account] = file[Account]
        BY <3>2, <4>1, <4>2
      <4>3. CASE file'[Account] # file[Account]
        <5>1. \/ file'[Account].of = p /\ NotYet(p)
              \/ file[Account] # NoValue /\ file'[Account].of = file[Account].of
          BY <1>3, <3>2, <4>3, Written, Values
        <5>2. NotYet(p) => v.of # p
          BY <1>1, <4>1, Values DEF Own, HistoryOK
        <5> QED BY <4>1, <5>1, <5>2
      <4> QED BY <4>2, <4>3
    <3> QED BY <2>1, <3>1, <3>2 DEF Own, RevokedOK, Is
  <2> QED BY <2>2, <2>3, <2>5, <2>6 DEF Own
<1> QED BY <1>2, <1>5, <1>6, <1>7, <1>8, <1>10, <1>11, <1>12 DEF CredentialInv, Own

LEMMA ReleaseKeeps ==
  ASSUME CredentialInv, NEW p \in Process, Release(p) PROVE CredentialInv'
<1>1. Typed /\ Own(p) /\ FileOK /\ proc[p] \in Commands /\ Account \in Field
  BY Values DEF CredentialInv, Typed
<1>2. proc[p].at = "releasing" /\ lock' = NoProcess /\ UNCHANGED <<store, revoked>> /\ lock = p
  BY <1>1 DEF Release, Is, Own, LockOK, Locked
<1>3. /\ proc[p].next[Account] # proc[p].seen[Account] => file[Account] = proc[p].next[Account]
      /\ proc[p].at \in Saves
  BY <1>1, <1>2 DEF Own, SaveOK, Changed, Saves, Locked
<1>4. CASE ~Session(p)
  <2>1. ASSUME NEW v \in revoked[p] PROVE file[Account] # NoValue => file[Account].of # v.of
    <3>1. v = proc[p].seen[Account] /\ v \in saved[Account] /\ proc[p].command = "logout"
      BY <1>1, <1>2, <2>1 DEF Own, RevokedOK, Ended
    <3>2. v # NoValue
      BY <1>1, <3>1, Values DEF Typed
    <3> QED BY <1>1, <1>3, <3>1, <3>2 DEF Own, AimOK
  <2> QED BY <1>2, <1>4, <2>1, EndKeeps DEF Release, Ended
<1>5. CASE Session(p)
  <2>1. /\ Typed' /\ Others(p) /\ worker' = worker
        /\ proc'[p] = [proc[p] EXCEPT !.held = proc[p].next[Account], !.at = "acknowledging",
                                      !.got = NoValue, !.seen = Nothing, !.next = Nothing, !.merged = Nothing]
    BY <1>1, <1>5, ReleaseDoes
  <2>2. /\ proc'[p].at = "acknowledging" /\ proc'[p].command = proc[p].command
        /\ proc'[p].key = proc[p].key /\ proc'[p].issued = proc[p].issued
        /\ proc'[p].held = proc[p].next[Account] /\ Session(p)'
    BY <1>1, <1>5, <2>1 DEF Commands, Session
  <2>3. /\ proc[p].next[Account] = proc[p].got /\ proc[p].seen[Account] = proc[p].held
        /\ proc[p].got # NoValue /\ revoked[p] = {} /\ proc[p].issued # 0
    BY <1>1, <1>2, <1>3, <1>5 DEF Own, AimOK, RevokedOK, HistoryOK, Session, Ended
  <2>4. proc[p].got \in saved[Account]
    BY <1>1, <1>3, <2>3 DEF FileOK, Own, HistoryOK
  <2>5. LockOK(p)' /\ KeyOK(p)' /\ SaveOK(p)' /\ AimOK(p)'
    BY <1>1, <1>2, <2>2, CredentialAssumption, Values DEF Own, LockOK, KeyOK, SaveOK, AimOK, Locked, Saves, store
  <2>6. WorkerOK(p)'
    BY <1>1, <1>2, <2>1, <2>2, <2>3 DEF Own, WorkerOK, Saves, Locked, Ended
  <2>7. HistoryOK(p)' /\ RevokedOK(p)'
    BY <1>1, <1>2, <2>2, <2>3, <2>4 DEF HistoryOK, RevokedOK, Own, NotYet, store, Is, Saves, Locked
  <2> QED BY <1>2, <2>1, <2>5, <2>6, <2>7, StoreSame DEF Own
<1> QED BY <1>4, <1>5

-----------------------------------------------------------------------------
(* The theorems *)

LEMMA CredentialStarts == Init => CredentialInv
<1> SUFFICES ASSUME Init PROVE CredentialInv
  OBVIOUS
<1>1. Old \in Value /\ Old.of = Before /\ Account \in Field
  BY Values DEF Old, Brought, Value, Who
<1>2. file \in Knows /\ \A f \in Field : file[f] \in {Old, NoValue}
  <2>1. file \in [Field -> {Old, NoValue}]
    BY CredentialAssumption DEF Init
  <2> QED BY <1>1, <2>1, Values DEF Knows, May
<1>3. saved \in [Field -> SUBSET Value] /\ \A f \in Field : saved[f] = {file[f]} \ {NoValue}
  BY <1>1, <1>2 DEF Init
<1>4. Typed
  <2>1. local \in Who \cup {NoKey} /\ sealed \in Who \cup {NoKey} /\ lock \in Process \cup {NoProcess}
    BY DEF Init, Who
  <2> QED BY <1>2, <1>3, <2>1, Blank DEF Init, Typed
<1>5. FileOK
  BY <1>3 DEF Init, FileOK
<1>6. ASSUME NEW p \in Process PROVE Own(p)
  <2>1. proc[p] = NewProcess /\ worker[p] = NoWorker /\ revoked[p] = {} /\ lock # p /\ p # Before
    BY CredentialAssumption, Values DEF Init
  <2>2. /\ proc[p].at = "new" /\ proc[p].key = NoKey /\ proc[p].held = NoValue /\ proc[p].command = "set"
        /\ ~worker[p].runs
    BY <2>1 DEF NewProcess, NoWorker
  <2>3. LockOK(p) /\ KeyOK(p) /\ SaveOK(p) /\ AimOK(p)
    BY <2>1, <2>2 DEF LockOK, KeyOK, SaveOK, AimOK, Locked, Saves, Session
  <2>4. WorkerOK(p) /\ RevokedOK(p)
    BY <2>1, <2>2 DEF WorkerOK, RevokedOK, Is, Saves, Locked, Ended
  <2>5. HistoryOK(p)
    BY <1>1, <1>2, <1>3, <2>1, <2>2 DEF HistoryOK, Saves, Locked
  <2> QED BY <2>3, <2>4, <2>5 DEF Own
<1> QED BY <1>4, <1>5, <1>6 DEF CredentialInv

LEMMA CredentialSteps == CredentialInv /\ [Next]_vars => CredentialInv'
<1> SUFFICES ASSUME CredentialInv, [Next]_vars PROVE CredentialInv'
  OBVIOUS
<1>1. CASE UNCHANGED vars
  <2>1. UNCHANGED store /\ UNCHANGED <<proc, worker, lock, revoked>>
    BY <1>1 DEF vars, store
  <2>2. FileOK' /\ Typed'
    BY <2>1, FileKept DEF CredentialInv, Typed, store
  <2>3. ASSUME NEW p \in Process PROVE Own(p)'
    BY <2>1 DEF CredentialInv, Own, LockOK, KeyOK, SaveOK, Changed, AimOK, Session, WorkerOK, HistoryOK, NotYet, RevokedOK, Is, store
  <2> QED BY <2>2, <2>3 DEF CredentialInv
<1>2. ASSUME NEW p \in Process, Step(p) PROVE CredentialInv'
  <2>1. CASE \E f \in SearchKey, c \in {"set", "remove"} : ChangeKey(p, f, c)
    BY <2>1, ChangeKeyKeeps
  <2>2. CASE \E c \in {"login", "logout", "use"} : StartSession(p, c)
    BY <2>2, StartSessionKeeps
  <2>3. CASE OpenSession(p) \/ NoSession(p) \/ WorkerDies(p) \/ Restart(p)
    BY <2>3, OpenSessionKeeps, NoSessionKeeps, WorkerDiesKeeps, RestartKeeps
  <2>4. CASE Issue(p) \/ Persist(p) \/ Acknowledge(p) \/ Check(p)
    BY <2>4, IssueKeeps, PersistKeeps, AcknowledgeKeeps, CheckKeeps
  <2>5. CASE Revoke(p) \/ NotRevoked(p) \/ Acquire(p) \/ MakeKey(p) \/ Replace(p) \/ Release(p)
    BY <2>5, RevokeKeeps, AcquireKeeps, MakeKeyKeeps, ReplaceKeeps, ReleaseKeeps
  <2>6. CASE Merge(p)
    BY <2>6, MergeKeeps, FailKeeps
  <2>7. CASE PersistRefused(p) \/ Finish(p) \/ Busy(p) \/ WriteFails(p) \/ Kill(p)
    BY <2>7, FailKeeps
  <2> QED BY <1>2, <2>1, <2>2, <2>3, <2>4, <2>5, <2>6, <2>7 DEF Step
<1> QED BY <1>1, <1>2 DEF Next

THEOREM CredentialsHold == Spec => []CredentialInv
BY CredentialStarts, CredentialSteps, PTL DEF Spec

\* However many commands start from an empty profile at once, and wherever they are killed, what is
\* saved is encrypted with the key every one of them reads or keeps (profileKey under lockStore).
THEOREM CredentialsStayReadable == Spec => []StaysReadable
<1>1. CredentialInv => StaysReadable
  <2> SUFFICES ASSUME CredentialInv PROVE StaysReadable
    OBVIOUS
  <2>1. TypeOK
    BY TypedIsTypeOK DEF CredentialInv
  <2>2. ASSUME NEW p \in Process, sealed # NoKey PROVE KeyOf(p) = sealed
    BY <2>2 DEF CredentialInv, FileOK, Own, KeyOK, KeyOf
  <2> QED BY <2>1, <2>2 DEF StaysReadable
<1> QED BY <1>1, CredentialsHold, PTL

\* For any number of commands: a logout has only the account revoked that it read, a sign-in that was
\* logged out of is not saved again, and a worker uses only what was saved.
THEOREM AccountsAreTheirOwn == Spec => []AccountIsItsOwn
<1>1. CredentialInv => AccountIsItsOwn
  <2> SUFFICES ASSUME CredentialInv, NEW p \in Process
      PROVE /\ proc[p].at \notin Ended => revoked[p] \subseteq {proc[p].seen[Account]}
            /\ Is(p, "done") => \A v \in revoked[p] : file[Account] # NoValue => file[Account].of # v.of
            /\ worker[p].holds # NoValue /\ ~worker[p].pending => worker[p].holds \in saved[Account]
    BY DEF AccountIsItsOwn
  <2>1. Own(p) /\ proc[p].at \in At
    BY DEF CredentialInv, Typed, Commands
  <2>2. worker[p].holds # NoValue /\ ~worker[p].pending => worker[p].holds = proc[p].held
    <3>1. CASE worker[p] = NoWorker
      BY <3>1 DEF NoWorker
    <3>2. CASE worker[p] # NoWorker
      BY <2>1, <3>2 DEF Own, WorkerOK, At, Saves
    <3> QED BY <3>1, <3>2
  <2> QED BY <2>1, <2>2 DEF Own, RevokedOK, HistoryOK
<1> QED BY <1>1, CredentialsHold, PTL

\* Only the rename of a save changes the file.
LEMMA OnlyReplace ==
  ASSUME CredentialInv, [Next]_vars, NEW f \in Field, file'[f] # file[f]
  PROVE  \E p \in Process : Replace(p)
<1>1. file' # file
  OBVIOUS
<1>2. PICK p \in Process : Step(p)
  BY <1>1 DEF Next, vars
<1>3. Replace(p)
  BY <1>1, <1>2 DEF Step, ChangeKey, StartSession, OpenSession, NoSession, WorkerDies, Restart, Issue, Persist,
       PersistRefused, Acknowledge, Finish, Check, Revoke, NotRevoked, Removes, Acquire, Busy, Merge, MergeWith,
       MakeKey, WriteFails, Release, Kill, store
<1> QED BY <1>3

\* For any number of commands, no save loses what another process has saved since it read the file.
THEOREM NoSaveIsLost == Spec => SavesMerge
<1>1. CredentialInv /\ [Next]_vars =>
        [\A f \in Field : file'[f] # file[f] =>
           \E p \in Process : /\ Is(p, "writing") /\ proc'[p].at = "releasing"
                              /\ proc[p].field = f /\ proc[p].seen[f] = file[f]]_vars
  <2> SUFFICES ASSUME CredentialInv, [Next]_vars, NEW f \in Field, file'[f] # file[f]
      PROVE  \E p \in Process : /\ Is(p, "writing") /\ proc'[p].at = "releasing"
                                /\ proc[p].field = f /\ proc[p].seen[f] = file[f]
    OBVIOUS
  <2>1. PICK p \in Process : Replace(p)
    BY OnlyReplace
  <2>2. proc[p].at = "writing" /\ file' = proc[p].merged /\ Is(p, "writing")
    BY <2>1 DEF Replace, Is
  <2>3. proc'[p].at = "releasing"
    <3>1. proc[p] \in Commands /\ proc'[p] = [proc[p] EXCEPT !.at = "releasing"]
      BY <2>1, ReplaceDoes DEF CredentialInv, Typed
    <3> QED BY <3>1 DEF Commands
  <2> QED BY <2>2, <2>3, Written
<1> QED BY <1>1, CredentialsHold, PTL DEF Spec, SavesMerge

\* For any number of commands, a key or a sign-in that is no longer in the file never comes back.
THEOREM WhatIsGoneStaysGone == Spec => GoneForGood
<1>1. CredentialInv /\ [Next]_vars =>
        [\A f \in Field : file'[f] \notin {file[f], NoValue} =>
           \A v \in saved[f] : v.of = file'[f].of => file[f] # NoValue /\ file[f].of = v.of]_vars
  <2> SUFFICES ASSUME CredentialInv, [Next]_vars, NEW f \in Field, file'[f] \notin {file[f], NoValue},
                      NEW v \in saved[f], v.of = file'[f].of
      PROVE  file[f] # NoValue /\ file[f].of = v.of
    OBVIOUS
  <2>1. PICK p \in Process : Replace(p)
    BY OnlyReplace
  <2>2. proc[p].at = "writing" /\ file' = proc[p].merged
    BY <2>1 DEF Replace, Is
  <2>3. \/ file'[f].of = p /\ NotYet(p)
        \/ file[f] # NoValue /\ file'[f].of = file[f].of
    BY <2>2, Written
  <2>4. NotYet(p) => v.of # p
    BY DEF CredentialInv, Own, HistoryOK
  <2> QED BY <2>3, <2>4
<1> QED BY <1>1, CredentialsHold, PTL DEF Spec, GoneForGood
=============================================================================

-------------------------- MODULE SavedCredentials --------------------------
(***************************************************************************)
(* The file of search keys and model accounts (src/src/cli/credential-     *)
(* store.ts, credentials.ts), and the commands that read and write it:     *)
(* login, logout, key set, key remove, and whatever calls a model          *)
(* (src/src/cli/model.ts, commands.ts).  Every command is a process of its *)
(* own.  It loads the file without a lock, keeps what it has read while    *)
(* it talks to its worker, and saves under a lock that it shares with the  *)
(* others; the process may be killed between any two steps.                *)
(*                                                                         *)
(* A value is named for whom it is of and who brought it in.  A key is of  *)
(* the process its user typed it to; a credential is of the process that   *)
(* signed in, also when another one had it rotated.  Before stands for an  *)
(* earlier version of the program.                                         *)
(***************************************************************************)
EXTENDS Naturals

CONSTANTS
  Process,    \* the commands that are run
  SearchKey,  \* the search keys that can be saved
  Account,    \* the model account
  Left,       \* what an earlier version of the program may have saved
  Before, NoValue, NoProcess

\* A login may be followed by one refresh (connectedModels).
Who == Process \cup {Before}
Value == [of : Who, by : Who, n : 1..2]
Brought(s, p, i) == [of |-> s, by |-> p, n |-> i]
Old == Brought(Before, Before, 1)
Field == SearchKey \cup {Account}
NoKey == NoProcess

ASSUME CredentialAssumption ==
  /\ Account \notin SearchKey /\ Left \subseteq [Field -> {Old, NoValue}]
  /\ NoValue \notin Value /\ NoProcess \notin Who /\ Before \notin Process

VARIABLES
  file,    \* what secrets.bin says
  sealed,  \* the key it is encrypted with; none when there is no file
  local,   \* the key in Local State
  lock,    \* the process that has bound the pipe
  proc,    \* the commands
  worker,  \* the native worker of each
  saved,   \* history: the values that have been in the file
  revoked  \* history: the credentials each process had the provider revoke

vars == <<file, sealed, local, lock, proc, worker, saved, revoked>>
store == <<file, sealed, local, saved>>

Command == {"set", "remove", "login", "logout", "use"}
Ended == {"done", "failed"}
Locked == {"merging", "making", "writing", "releasing"}
At == {"new", "opening", "asking", "issued", "checking", "revoking", "locking", "acknowledging"}
        \cup Locked \cup Ended

Nothing == [f \in Field |-> NoValue]
NewProcess == [command |-> "set", field |-> Account, at |-> "new", key |-> NoKey, issued |-> 0, got |-> NoValue,
               seen |-> Nothing, next |-> Nothing, merged |-> Nothing, held |-> NoValue]
NoWorker == [runs |-> FALSE, holds |-> NoValue, pending |-> FALSE]

Init ==
  /\ file \in Left
  /\ local \in {NoKey, Before}
  /\ sealed \in {NoKey, local} /\ (sealed = NoKey => file = Nothing)
  /\ lock = NoProcess
  /\ proc = [p \in Process |-> NewProcess] /\ worker = [p \in Process |-> NoWorker]
  /\ saved = [f \in Field |-> {file[f]} \ {NoValue}] /\ revoked = [p \in Process |-> {}]

-----------------------------------------------------------------------------
(* Parts of commands *)

\* loadKey: the key is read once and kept.
KeyOf(p) == IF proc[p].key # NoKey THEN proc[p].key ELSE local

\* load: what the file says, and its key if there is a file to decrypt.
Loaded(p) == [proc[p] EXCEPT !.seen = file, !.key = IF sealed = NoKey THEN @ ELSE KeyOf(p)]

\* save, up to its lock: r is the command with what it has read.
Saving(r, f, v) == [r EXCEPT !.at = "locking", !.field = f, !.next = [r.seen EXCEPT ![f] = v]]

Goes(p, at) == proc' = [proc EXCEPT ![p].at = at]

\* runCli: whichever way the command ends, its session is closed; what it knew is gone with it.
Ends(p, at) == /\ proc' = [proc EXCEPT ![p] = [NewProcess EXCEPT !.at = at]]
               /\ worker' = [worker EXCEPT ![p] = NoWorker]
Is(p, at) == proc[p].at = at
Session(p) == proc[p].command \in {"login", "use"}

-----------------------------------------------------------------------------
(* The commands *)

\* key set, key remove
ChangeKey(p, f, c) ==
  /\ Is(p, "new") /\ c \in {"set", "remove"}
  /\ proc' = [proc EXCEPT ![p] =
       Saving([Loaded(p) EXCEPT !.command = c, !.issued = IF c = "set" THEN 1 ELSE 0],
              f, IF c = "set" THEN Brought(p, p, 1) ELSE NoValue)]
  /\ UNCHANGED <<store, lock, worker, revoked>>

\* login opens a session at once; a model call sees whether there is an account first, and logout
\* keeps what it reads.
StartSession(p, c) ==
  /\ Is(p, "new") /\ c \in {"login", "logout", "use"}
  /\ c = "use" => file[Account] # NoValue
  /\ proc' = [proc EXCEPT ![p] = [(IF c = "logout" THEN Loaded(p) ELSE @)
                                    EXCEPT !.command = c, !.at = "opening"]]
  /\ UNCHANGED <<store, lock, worker, revoked>>

\* What a new worker holds: the saved account, if it takes it.
Restored(v) == {[runs |-> TRUE, holds |-> h, pending |-> FALSE] : h \in {v, NoValue}}

\* openModelSession
OpenSession(p) ==
  /\ Is(p, "opening")
  /\ \E w \in Restored(file[Account]) : worker' = [worker EXCEPT ![p] = w]
  /\ proc' = [proc EXCEPT ![p] = [@ EXCEPT !.held = file[Account],
                                           !.at = IF Session(p) THEN "asking" ELSE "checking"]]
  /\ UNCHANGED <<store, lock, revoked>>

\* There is no worker, or it does not start: a logout goes on without one.
NoSession(p) ==
  /\ Is(p, "opening")
  /\ IF Session(p) THEN Ends(p, "failed")
     ELSE proc' = [proc EXCEPT ![p] = Saving(@, Account, NoValue)] /\ UNCHANGED worker
  /\ UNCHANGED <<store, lock, revoked>>

WorkerDies(p) ==
  /\ worker[p].runs /\ worker' = [worker EXCEPT ![p] = NoWorker]
  /\ UNCHANGED <<store, lock, proc, revoked>>

\* Mutant: whatever is saved is restored.
RestartWithSaved(p) ==
  /\ ~worker[p].runs /\ proc[p].at \in {"asking", "revoking"}
  /\ \E w \in Restored(file[Account]) : worker' = [worker EXCEPT ![p] = w]
  /\ UNCHANGED <<store, lock, proc, revoked>>

\* start, for a worker that stopped: credentialsToRestore leaves out what was not held.
Restart(p) ==
  /\ ~worker[p].runs /\ proc[p].at \in {"asking", "revoking"}
  /\ \E w \in Restored(IF file[Account] = proc[p].held THEN proc[p].held ELSE NoValue) :
       worker' = [worker EXCEPT ![p] = w]
  /\ UNCHANGED <<store, lock, proc, revoked>>

\* completeLogin, then refreshAccount, which needs an account to refresh.
SignsIn(p) == proc[p].command = "login" /\ proc[p].issued = 0
MayIssue(p) ==
  \/ SignsIn(p)
  \/ worker[p].holds # NoValue /\ proc[p].issued < IF proc[p].command = "login" THEN 2 ELSE 1

\* A login's first credential is of a new sign-in, a rotated one of the same as before.
Issued(p) == Brought(IF SignsIn(p) THEN p ELSE worker[p].holds.of, p, proc[p].issued + 1)

\* Mutant: the new credential can be used at once.
IssueReady(p) ==
  /\ Is(p, "asking") /\ worker[p].runs /\ MayIssue(p)
  /\ proc' = [proc EXCEPT ![p] = [@ EXCEPT !.issued = proc[p].issued + 1, !.got = Issued(p), !.at = "issued"]]
  /\ worker' = [worker EXCEPT ![p].holds = Issued(p)]
  /\ UNCHANGED <<store, lock, revoked>>

\* The provider issues a credential, which the worker keeps to
\* itself until it is saved.
Issue(p) ==
  /\ Is(p, "asking") /\ worker[p].runs /\ MayIssue(p)
  /\ proc' = [proc EXCEPT ![p] = [@ EXCEPT !.issued = proc[p].issued + 1, !.got = Issued(p), !.at = "issued"]]
  /\ worker' = [worker EXCEPT ![p] = [@ EXCEPT !.holds = Issued(p), !.pending = TRUE]]
  /\ UNCHANGED <<store, lock, revoked>>

\* Mutant: the account there is now is not looked at.
PersistBlindly(p) ==
  /\ Is(p, "issued")
  /\ proc' = [proc EXCEPT ![p] = Saving(Loaded(p), Account, proc[p].got)]
  /\ UNCHANGED <<store, lock, worker, revoked>>

\* persist: the file must still have the credential this session holds.
Persist(p) ==
  /\ Is(p, "issued") /\ file[Account] = proc[p].held
  /\ proc' = [proc EXCEPT ![p] = Saving(Loaded(p), Account, proc[p].got)]
  /\ UNCHANGED <<store, lock, worker, revoked>>

PersistRefused(p) ==
  /\ Is(p, "issued") /\ file[Account] # proc[p].held
  /\ Ends(p, "failed") /\ UNCHANGED <<store, lock, revoked>>

\* persistCredential: only the worker that issued the credential knows of it.
Acknowledge(p) ==
  /\ Is(p, "acknowledging")
  /\ IF worker[p].pending
     THEN worker' = [worker EXCEPT ![p].pending = FALSE] /\ Goes(p, "asking")
     ELSE Ends(p, "failed")
  /\ UNCHANGED <<store, lock, revoked>>

\* The command has what it wanted, or gives up: a login that is not finished in time, an outage.
Finish(p) ==
  /\ Is(p, "asking") /\ \E at \in {"done", "failed"} : Ends(p, at)
  /\ UNCHANGED <<store, lock, revoked>>

\* logout, once the session is open
Check(p) ==
  /\ Is(p, "checking")
  /\ IF proc[p].held = proc[p].seen[Account] THEN Goes(p, "revoking") /\ UNCHANGED worker ELSE Ends(p, "failed")
  /\ UNCHANGED <<store, lock, revoked>>

\* account_logout; whether or not its answer arrives the credential is removed, and the worker
\* is not used again.
Removes(p) ==
  /\ proc' = [proc EXCEPT ![p] = Saving(@, Account, NoValue)]
  /\ worker' = [worker EXCEPT ![p] = NoWorker]
  /\ UNCHANGED <<store, lock>>

Revoke(p) ==
  /\ Is(p, "revoking") /\ worker[p].runs
  /\ revoked' = [revoked EXCEPT ![p] = @ \cup ({worker[p].holds} \ {NoValue})]
  /\ Removes(p)

NotRevoked(p) == Is(p, "revoking") /\ Removes(p) /\ UNCHANGED revoked

-----------------------------------------------------------------------------
(* save *)

\* Mutant: the lock does not keep another process out.
AcquireAnyway(p) ==
  /\ Is(p, "locking") /\ lock' = p /\ Goes(p, "merging") /\ UNCHANGED <<store, worker, revoked>>

\* lockStore
Acquire(p) ==
  /\ Is(p, "locking") /\ lock = NoProcess
  /\ lock' = p /\ Goes(p, "merging") /\ UNCHANGED <<store, worker, revoked>>

Busy(p) ==
  /\ Is(p, "locking") /\ lock # NoProcess
  /\ Ends(p, "failed") /\ UNCHANGED <<store, lock, revoked>>

Changed(p) == {f \in Field : proc[p].next[f] # proc[p].seen[f]}
Conflict(p) == \E f \in Changed(p) : file[f] \notin {proc[p].seen[f], proc[p].next[f]}

\* What save does once it has compared the file with what it read.
MergeWith(p, refused, fields) ==
  /\ Is(p, "merging")
  /\ IF refused THEN lock' = NoProcess /\ Ends(p, "failed")
     ELSE /\ proc' = [proc EXCEPT ![p] = [@ EXCEPT
               !.at = IF Changed(p) = {} THEN "releasing" ELSE IF KeyOf(p) = NoKey THEN "making" ELSE "writing",
               !.key = KeyOf(p), !.merged = fields]]
          /\ UNCHANGED <<lock, worker>>
  /\ UNCHANGED <<store, revoked>>
Merged(p) == [f \in Field |-> IF f \in Changed(p) THEN proc[p].next[f] ELSE file[f]]

\* Mutant: the last one to save wins.
MergeAnyway(p) == MergeWith(p, FALSE, Merged(p))

\* Mutant: what is written is what the caller passed.
MergeNothing(p) == MergeWith(p, Conflict(p), proc[p].next)

\* The file is read again, and each field that the caller changed must be as the caller read it,
\* or as it wants it; then encryptString finds the profile's key, or that there is none yet.
Merge(p) == MergeWith(p, Conflict(p), Merged(p))

\* profileKey makes one.
MakeKey(p) ==
  /\ Is(p, "making") /\ local' = p
  /\ proc' = [proc EXCEPT ![p] = [@ EXCEPT !.key = p, !.at = "writing"]]
  /\ UNCHANGED <<file, sealed, saved, lock, worker, revoked>>

\* writeFileAtomically: the rename.
Replace(p) ==
  /\ Is(p, "writing")
  /\ file' = proc[p].merged /\ sealed' = proc[p].key
  /\ saved' = [f \in Field |-> saved[f] \cup ({file'[f]} \ {NoValue})]
  /\ Goes(p, "releasing")
  /\ UNCHANGED <<local, lock, worker, revoked>>

\* The key or the file cannot be written; the temporary file is removed.
WriteFails(p) ==
  /\ proc[p].at \in {"making", "writing"}
  /\ lock' = NoProcess /\ Ends(p, "failed") /\ UNCHANGED <<store, revoked>>

\* unlock: save returns, and a session holds what it has saved; it reads the file again before it
\* saves again.
Release(p) ==
  /\ Is(p, "releasing") /\ lock' = NoProcess
  /\ IF Session(p)
     THEN /\ proc' = [proc EXCEPT ![p] = [@ EXCEPT !.held = proc[p].next[Account], !.at = "acknowledging",
                                          !.got = NoValue, !.seen = Nothing, !.next = Nothing, !.merged = Nothing]]
          /\ UNCHANGED worker
     ELSE Ends(p, "done")
  /\ UNCHANGED <<store, revoked>>

\* The process is killed: the system closes its pipe, and its worker stops with it.
Kill(p) ==
  /\ proc[p].at \notin Ended \cup {"new"}
  /\ lock' = IF lock = p THEN NoProcess ELSE lock
  /\ Ends(p, "failed") /\ UNCHANGED <<store, revoked>>

Step(p) ==
  \/ \E f \in SearchKey, c \in {"set", "remove"} : ChangeKey(p, f, c)
  \/ \E c \in {"login", "logout", "use"} : StartSession(p, c)
  \/ OpenSession(p) \/ NoSession(p) \/ WorkerDies(p) \/ Restart(p)
  \/ Issue(p) \/ Persist(p) \/ PersistRefused(p) \/ Acknowledge(p) \/ Finish(p)
  \/ Check(p) \/ Revoke(p) \/ NotRevoked(p)
  \/ Acquire(p) \/ Busy(p) \/ Merge(p) \/ MakeKey(p) \/ Replace(p) \/ WriteFails(p)
  \/ Release(p) \/ Kill(p)

Next == \E p \in Process : Step(p)
Spec == Init /\ [][Next]_vars

-----------------------------------------------------------------------------
(* Properties *)

TypeOK ==
  /\ file \in [Field -> Value \cup {NoValue}] /\ saved \in [Field -> SUBSET Value]
  /\ sealed \in Who \cup {NoKey} /\ local \in Who \cup {NoKey} /\ lock \in Process \cup {NoProcess}
  /\ proc \in [Process -> [command : Command, field : Field, at : At, key : Who \cup {NoKey},
                           issued : 0..2, got : Value \cup {NoValue}, seen : [Field -> Value \cup {NoValue}],
                           next : [Field -> Value \cup {NoValue}], merged : [Field -> Value \cup {NoValue}],
                           held : Value \cup {NoValue}]]
  /\ worker \in [Process -> [runs : BOOLEAN, holds : Value \cup {NoValue}, pending : BOOLEAN]]
  /\ revoked \in [Process -> SUBSET Value]

\* However the saves of several processes overlap, and wherever one is killed, a save changes
\* only the field its command is about, and only from the value that command has read: no change
\* of another process is lost (save, lockStore).
SavesMerge ==
  [][\A f \in Field : file'[f] # file[f] =>
       \E p \in Process : /\ Is(p, "writing") /\ proc'[p].at = "releasing"
                          /\ proc[p].field = f /\ proc[p].seen[f] = file[f]]_vars

\* A key or a sign-in that was replaced or removed never comes back from a process that has read or
\* held it before, whatever it has the provider rotate meanwhile (save, persist).
GoneForGood ==
  [][\A f \in Field : file'[f] \notin {file[f], NoValue} =>
       \A v \in saved[f] : v.of = file'[f].of => file[f] # NoValue /\ file[f].of = v.of]_vars

\* A logout has only the account revoked that it read, never one another process signed in to
\* meanwhile, and when it succeeds that sign-in is not saved and never is again; and a worker uses a
\* credential only if it was saved (logout, credentialsToRestore, credential_session_persisted).
AccountIsItsOwn == \A p \in Process :
  /\ proc[p].at \notin Ended => revoked[p] \subseteq {proc[p].seen[Account]}
  /\ Is(p, "done") => \A v \in revoked[p] : file[Account] # NoValue => file[Account].of # v.of
  /\ worker[p].holds # NoValue /\ ~worker[p].pending => worker[p].holds \in saved[Account]

\* Whoever reads the file can decrypt it: two processes that start from an empty profile do not
\* each make a key (profileKey, lockStore).
StaysReadable == TypeOK /\ \A p \in Process : sealed # NoKey => KeyOf(p) = sealed
=============================================================================

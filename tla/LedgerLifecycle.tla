-------------------------- MODULE LedgerLifecycle ---------------------------
(***************************************************************************)
(* What the rows of the ledger make of its claims, seen as the abstract    *)
(* lifecycle of ClaimLifecycle: a claim not written yet is absent, any     *)
(* other is what claimStatus says of it now.                               *)
(***************************************************************************)
EXTENDS EvidenceLedger

CONSTANT Watched   \* the ids of the claims whose statuses are followed

ASSUME WatchedAssumption == Watched \subseteq Nat \ {0}

StatusSeen(c) == IF c \in IdsOf("claims") THEN Status(c) ELSE "absent"

Seen == [c \in Watched |-> StatusSeen(c)]

Lifecycle == INSTANCE ClaimLifecycle
  WITH Claims <- Watched, status <- Seen

\* No step of any process moves a claim in a way ClaimLifecycle does not know.
LifecycleSteps == [][Lifecycle!Next]_Seen

\* The rows of the ledger move every claim as ClaimLifecycle promises, whoever writes them
\* and in whatever order: only a review settles a claim, and an overturned or stale one
\* comes back only by a new verdict (claimStatus).
LifecycleSpec == Lifecycle!Spec
=============================================================================

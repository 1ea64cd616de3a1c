--------------------------- MODULE ClaimLifecycle ---------------------------
(***************************************************************************)
(* What the ledger promises about a claim: the statuses it goes through,   *)
(* whatever rows, tests, verdicts and reviews are behind them              *)
(* (claimStatus in src/src/cli/ledger.ts).  Only a review settles a claim, *)
(* a claim that was overturned or went stale comes back only by a new      *)
(* verdict, and nothing brings back a retracted one.                       *)
(***************************************************************************)
CONSTANT Claims

VARIABLE status

Pending == {"unclear", "provisional", "kill-pending"}
Settled == {"supported", "killed"}
Decided == Pending \cup Settled \cup {"overturned", "stale"}
Live == Decided \cup {"untested", "testing"}

\* Nothing has been decided yet.
Init == status \in [Claims -> {"absent", "untested", "testing"}]

Become(c, new) == status' = [status EXCEPT ![c] = new]

State(c) == status[c] = "absent" /\ Become(c, "untested")

Predict(c) == status[c] = "untested" /\ Become(c, "testing")

WithdrawTest(c) == status[c] = "testing" /\ Become(c, "untested")

\* A provisional verdict needs a prediction; giving up and killing do not.
Decide(c) ==
  \E new \in Pending :
    /\ status[c] \in Live
    /\ new = "provisional" => status[c] # "untested"
    /\ Become(c, new)

\* What the first verdict used was withdrawn while the verdict was being written.
DecideTooLate(c) == status[c] \in {"untested", "testing"} /\ Become(c, "stale")

Uphold(c) ==
  \/ status[c] = "provisional" /\ Become(c, "supported")
  \/ status[c] = "kill-pending" /\ Become(c, "killed")

Overturn(c) == status[c] \in Pending \cup Settled /\ Become(c, "overturned")

\* Withdrawing one test or quote spoils every verdict that used it.
Spoil(claims) ==
  /\ claims # {}
  /\ \A c \in claims : status[c] \in Decided
  /\ status' = [c \in Claims |-> IF c \in claims THEN "stale" ELSE status[c]]

RetractClaim(c) == status[c] \in Live /\ Become(c, "retracted")

Next ==
  \/ \E c \in Claims : \/ State(c) \/ Predict(c) \/ WithdrawTest(c) \/ Decide(c)
                       \/ DecideTooLate(c) \/ Uphold(c) \/ Overturn(c) \/ RetractClaim(c)
  \/ \E claims \in SUBSET Claims : Spoil(claims)

Spec == Init /\ [][Next]_status
=============================================================================

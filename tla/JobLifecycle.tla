----------------------------- MODULE JobLifecycle -----------------------------
(***************************************************************************)
(* What the durable job backend promises about one job, with every         *)
(* transition a single step: no rows, leases, versions or retries of the   *)
(* database.  Only the current claim can be settled, a failure costs one   *)
(* attempt, a claim costs one unit of the claim budget, a deferral gives   *)
(* that budget back, and done and dead are final.                          *)
(***************************************************************************)
EXTENDS Naturals

CONSTANTS Job, MaxAttempts, MaxClaims

VARIABLE job   \* per job, status and budgets spent

Entry(status, attempt, claims) ==
    [status |-> status, attempt |-> attempt, claims |-> claims]

Live == {"pending", "claimed"}

Init == job = [j \in Job |-> Entry("none", 0, 0)]

Become(j, entry) == job' = [job EXCEPT ![j] = entry]

Enqueue(j) ==
    /\ job[j].status = "none"
    /\ Become(j, Entry("pending", 0, 0))

Claim(j) ==
    /\ job[j].status \in Live
    /\ job[j].claims < MaxClaims
    /\ Become(j, Entry("claimed", job[j].attempt, job[j].claims + 1))

Retry(j) ==
    /\ job[j].status = "claimed"
    /\ job[j].attempt + 1 < MaxAttempts
    /\ Become(j, Entry("pending", job[j].attempt + 1, job[j].claims))

Defer(j) ==
    /\ job[j].status = "claimed"
    /\ Become(j, Entry("pending", job[j].attempt, 0))

Finish(j) ==
    /\ job[j].status = "claimed"
    /\ \E status \in {"done", "dead"} : Become(j, Entry(status, 0, 0))

Abandon(j) ==
    /\ job[j].status \in Live
    /\ job[j].claims >= MaxClaims
    /\ Become(j, Entry("dead", 0, 0))

Next == \E j \in Job :
    Enqueue(j) \/ Claim(j) \/ Retry(j) \/ Defer(j) \/ Finish(j) \/ Abandon(j)

Spec == Init /\ [][Next]_job

=============================================================================

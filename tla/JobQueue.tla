------------------------------- MODULE JobQueue -------------------------------
(***************************************************************************)
(* The durable job queue of event-sorcery: every job is an event stream    *)
(* (job.rs), mirrored by one row of the job_queue view.  Workers claim a   *)
(* row in one transaction (engine.rs claim_job), run the job while a       *)
(* background loop renews the lease column, and settle it with a fenced    *)
(* command sent through the generic store (job_backend.rs): load, commit,  *)
(* then the projection reactor, three separate database steps.             *)
(*                                                                         *)
(* Time is abstracted to what the guards compare: due[j] tells whether the *)
(* clock has reached run_at, row[j].lease whether lease_until lies ahead   *)
(* of the clock.  Leases may expire at any moment, so nothing proved here  *)
(* depends on the clock or on the renewal cadence.                         *)
(***************************************************************************)
EXTENDS Naturals, Sequences, FiniteSets

CONSTANTS
    Job,          \* job ids
    Worker,       \* execution slots of the worker instances of one process
    MaxAttempts,  \* JobWorkerConfig::max_attempts
    MaxClaims,    \* JobWorkerConfig::max_claims
    MaxDefers,    \* bound: Rescheduled events per job
    MaxCrashes,   \* bound: process crashes
    Poison,       \* jobs whose stored arguments no longer decode (build_task)
    ViewFaults,   \* may the reactor lose a view update?
    Panics,       \* may an execution future be dropped before its ack?
    Upgrades      \* may a restart find a changed schema version?

ASSUME BudgetAssumption == MaxAttempts \in Nat /\ MaxClaims \in Nat
\* claim_job_as refuses a policy that allows no claim.
ASSUME ClaimPolicyAssumption == MaxClaims # 0
ASSUME BoundAssumption == MaxDefers \in Nat /\ MaxCrashes \in Nat
ASSUME SwitchAssumption ==
    /\ Job # {}
    /\ Poison \subseteq Job
    /\ {ViewFaults, Panics, Upgrades} \subseteq BOOLEAN

VARIABLES
    events,   \* per job, its event stream (the events table)
    agg,      \* per job, the JobState load_aggregate folds from events[j]
    row,      \* per job, its job_queue row: version, payload state, lease
    due,      \* per job, has the clock reached run_at?
    pc,       \* per worker, where its execution stands
    ctx,      \* per worker, the JobContext of the claim it executes
    cmd,      \* per worker, the event its settlement command produces
    seen,     \* per worker, what its last load returned
    lost,     \* per worker, the flag its renew_loop raises
    orphans,  \* renew_loops whose execution future was dropped
    up,       \* is the process running?
    crashes   \* crashes so far

db    == <<events, agg, row>>
slots == <<pc, ctx, cmd, seen, lost>>
proc  == <<orphans, up, crashes>>
vars  == <<events, agg, row, due, pc, ctx, cmd, seen, lost, orphans, up, crashes>>

-----------------------------------------------------------------------------
(* JobEvent and JobState.                                                  *)

Status == {"none", "pending", "claimed", "done", "dead", "failed"}
Settlement == {"Succeeded", "RetryScheduled", "Rescheduled", "Dead"}
EventType == {"Enqueued", "Claimed"} \cup Settlement
Reason == {"none", "RetriesExhausted", "Rejected", "Abandoned"}

\* A claim id is a fresh ULID, appended at most once.  The sequence number of
\* the Claimed event carrying it is as unique within a job and stands for it.
\* On a settlement event `claim` is the command's fence, kept for properties.
Event == [type : EventType, claim : Nat, attempt : Nat, reason : Reason]
State == [status : Status, attempt : Nat, claims : Nat, claim : Nat]
Row   == [version : Nat, state : State, lease : {"null", "live", "expired"}]

Ev(type, claim, attempt, reason) ==
    [type |-> type, claim |-> claim, attempt |-> attempt, reason |-> reason]

Enqueued == Ev("Enqueued", 0, 0, "none")
NoCmd    == Enqueued
NoState == [status |-> "none", attempt |-> 0, claims |-> 0, claim |-> 0]
NoRow   == [version |-> 0, state |-> NoState, lease |-> "null"]
NoSeen  == [version |-> 0, state |-> NoState]

Blank(status) == [status |-> status, attempt |-> 0, claims |-> 0, claim |-> 0]

Originate(e) ==
    IF e.type = "Enqueued" THEN Blank("pending")
                           ELSE Blank("failed")

Claimed(s, e) ==
    [status |-> "claimed", attempt |-> s.attempt, claims |-> s.claims + 1, claim |-> e.claim]

\* Mutant: the recorded failure is forgotten.
RetriedKeepsAttempt(s, e) ==
    [status |-> "pending", attempt |-> s.attempt, claims |-> s.claims, claim |-> 0]

Retried(s, e) ==
    [status |-> "pending", attempt |-> e.attempt, claims |-> s.claims, claim |-> 0]

Deferred(s) == [status |-> "pending", attempt |-> s.attempt, claims |-> 0, claim |-> 0]

Evolve(s, e) ==
    CASE e.type = "Claimed" /\ s.status \in {"pending", "claimed"} -> Claimed(s, e)
      [] e.type = "Succeeded" /\ s.status = "claimed" -> Blank("done")
      [] e.type = "RetryScheduled" /\ s.status = "claimed" -> Retried(s, e)
      [] e.type = "Rescheduled" /\ s.status = "claimed" -> Deferred(s)
      [] e.type = "Dead" /\ s.status \in {"pending", "claimed"} -> Blank("dead")
      [] OTHER -> Blank("failed")

\* Lifecycle::apply: a failed lifecycle stays failed.
Apply(s, e) ==
    CASE s.status = "none" -> Originate(e)
      [] s.status = "failed" -> s
      [] OTHER -> Evolve(s, e)

\* Folds the events after `from` onto s, as replay_missed_events does.
Replay(s, stream, from) ==
    LET fold[n \in from .. Len(stream)] ==
            IF n = from THEN s ELSE Apply(fold[n - 1], stream[n])
    IN  fold[Len(stream)]

Defers(j) == {n \in DOMAIN events[j] : events[j][n].type = "Rescheduled"}

-----------------------------------------------------------------------------
(* Executions.                                                             *)

Phase == {"idle",    \* free, polling
          "run",     \* performing the job
          "ack",     \* settlement decided, not yet loaded
          "retry",   \* settlement failed transiently, about to be sent again
          "loaded",  \* aggregate loaded, fence passed, commit pending
          "view",    \* event committed, the reactor is about to load the row
          "viewed"}  \* row loaded, its update pending

NoCtx == [job |-> CHOOSE j \in Job : TRUE, seq |-> 0, attempt |-> 0]

Init ==
    /\ events = [j \in Job |-> << >>]
    /\ agg = [j \in Job |-> NoState]
    /\ row = [j \in Job |-> NoRow]
    /\ due = [j \in Job |-> FALSE]
    /\ pc = [w \in Worker |-> "idle"]
    /\ ctx = [w \in Worker |-> NoCtx]
    /\ cmd = [w \in Worker |-> NoCmd]
    /\ seen = [w \in Worker |-> NoSeen]
    /\ lost = [w \in Worker |-> FALSE]
    /\ orphans = {}
    /\ up = TRUE
    /\ crashes = 0

\* The AckService future of w returns: its renewal is cancelled and awaited.
Release(w) ==
    /\ pc' = [pc EXCEPT ![w] = "idle"]
    /\ ctx' = [ctx EXCEPT ![w] = NoCtx]
    /\ cmd' = [cmd EXCEPT ![w] = NoCmd]
    /\ seen' = [seen EXCEPT ![w] = NoSeen]
    /\ lost' = [lost EXCEPT ![w] = FALSE]

\* Appends at the next sequence number; the fold follows.
AppendEvent(j, e) ==
    /\ events' = [events EXCEPT ![j] = Append(@, e)]
    /\ agg' = [agg EXCEPT ![j] = Apply(@, e)]

\* Enqueued at sequence 1 and the seeded row commit in one transaction; a
\* stream that already exists is a DuplicateEnqueue, rolled back.
Enqueue(j) ==
    /\ up
    /\ events[j] = << >>
    /\ AppendEvent(j, Enqueued)
    /\ row' = [row EXCEPT ![j] = [version |-> 1,
                                  state |-> Apply(NoState, Enqueued),
                                  lease |-> "null"]]
    /\ \E delayed \in BOOLEAN : due' = [due EXCEPT ![j] = ~delayed]
    /\ UNCHANGED <<slots, proc>>

-----------------------------------------------------------------------------
(* Claiming: poll, then one BEGIN IMMEDIATE transaction per candidate.     *)

\* Mutant: a claim is never taken over.
RunnablePendingOnly(j) == row[j].state.status = "pending" /\ due[j]

\* plan_claim reads the row inside the transaction.
Runnable(j) ==
    \/ row[j].state.status = "pending" /\ due[j]
    \/ row[j].state.status = "claimed" /\ row[j].lease \in {"null", "expired"}

ClaimSeq(j) == row[j].version + 1

\* Mutant: no compare-and-swap on the sequence number.
CasAlwaysWins(j) == TRUE

\* The events primary key: the append wins iff no event has that sequence.
\* A loser is Contended and rolls back, leaving everything as it was.
CasWins(j) == ClaimSeq(j) > Len(events[j])

\* Mutant: the claim budget is off by one.
BudgetLeftOffByOne(j) == row[j].state.claims <= MaxClaims

BudgetLeft(j) == row[j].state.claims < MaxClaims

\* The lease is measured from the clock reading taken before the poll, so it may
\* have passed by the time the claim commits.  A poison job stays claimed, with
\* nobody executing or renewing it.
Claim(w, j) ==
    /\ up
    /\ pc[w] = "idle"
    /\ Runnable(j) /\ BudgetLeft(j) /\ CasWins(j)
    /\ LET e == Ev("Claimed", ClaimSeq(j), 0, "none")
       IN  /\ AppendEvent(j, e)
           /\ \E lease \in {"live", "expired"} :
                row' = [row EXCEPT ![j] = [version |-> ClaimSeq(j),
                                           state |-> Claimed(row[j].state, e),
                                           lease |-> lease]]
    /\ IF j \in Poison
       THEN UNCHANGED <<pc, ctx>>
       ELSE /\ pc' = [pc EXCEPT ![w] = "run"]
            /\ ctx' = [ctx EXCEPT ![w] = [job |-> j, seq |-> ClaimSeq(j),
                                          attempt |-> row[j].state.attempt]]
    /\ UNCHANGED <<due, cmd, seen, lost, proc>>

Abandon(w, j) ==
    /\ up
    /\ pc[w] = "idle"
    /\ Runnable(j) /\ ~BudgetLeft(j) /\ CasWins(j)
    /\ AppendEvent(j, Ev("Dead", 0, 0, "Abandoned"))
    /\ row' = [row EXCEPT ![j] = [version |-> ClaimSeq(j),
                                  state |-> Blank("dead"), lease |-> "null"]]
    /\ UNCHANGED <<due, slots, proc>>

-----------------------------------------------------------------------------
(* Executing and settling.                                                 *)

\* Mutant: the last failure schedules one more retry.
ExhaustedOffByOne(c) == c.attempt + 1 > MaxAttempts

Exhausted(c) == c.attempt + 1 >= MaxAttempts

AckCommand(c, plan) ==
    CASE plan = "Succeeded" -> Ev("Succeeded", c.seq, 0, "none")
      [] plan = "Deferred" -> Ev("Rescheduled", c.seq, 0, "none")
      [] plan = "Rejected" -> Ev("Dead", c.seq, 0, "Rejected")
      [] plan = "Failed" /\ Exhausted(c) -> Ev("Dead", c.seq, 0, "RetriesExhausted")
      [] OTHER -> Ev("RetryScheduled", c.seq, c.attempt + 1, "none")

\* perform returns, fails or times out.  A lost lease skips the settlement.
Perform(w) ==
    /\ up
    /\ pc[w] = "run"
    /\ IF lost[w]
       THEN Release(w)
       ELSE \E plan \in {"Succeeded", "Deferred", "Failed", "Rejected"} :
              /\ plan = "Deferred" => Cardinality(Defers(ctx[w].job)) < MaxDefers
              /\ pc' = [pc EXCEPT ![w] = "ack"]
              /\ cmd' = [cmd EXCEPT ![w] = AckCommand(ctx[w], plan)]
              /\ UNCHANGED <<ctx, seen, lost>>
    /\ UNCHANGED <<db, due, proc>>

\* Mutant: the settlement of a superseded claim is let through.
HoldsAnyClaim(w) == agg[ctx[w].job].status = "claimed"

\* The state fence of JobState::transition.
HoldsClaim(w) ==
    /\ agg[ctx[w].job].status = "claimed"
    /\ agg[ctx[w].job].claim = ctx[w].seq

\* Store::send loads the aggregate and asks it; a fenced settlement is dropped.
AckLoad(w) ==
    /\ up
    /\ pc[w] \in {"ack", "retry"}
    /\ IF HoldsClaim(w)
       THEN /\ pc' = [pc EXCEPT ![w] = "loaded"]
            /\ seen' = [seen EXCEPT ![w] = [version |-> Len(events[ctx[w].job]),
                                            state |-> agg[ctx[w].job]]]
            /\ UNCHANGED <<ctx, cmd, lost>>
       ELSE Release(w)
    /\ UNCHANGED <<db, due, proc>>

\* Mutant: the commit does not compare the stream version.
CommitAlwaysExpected(w) == TRUE

\* persist passes no expected version: the primary key refuses a sequence that is
\* taken, and a job's events are never deleted, so a stream has taken every
\* sequence up to its length.
CommitExpected(w) == Len(events[ctx[w].job]) = seen[w].version

\* The commit at the loaded version plus one; a conflict counts as fenced.
AckCommit(w) ==
    /\ up
    /\ pc[w] = "loaded"
    /\ IF CommitExpected(w)
       THEN /\ AppendEvent(ctx[w].job, cmd[w])
            /\ IF cmd[w].type \in {"RetryScheduled", "Rescheduled"}
               THEN due' = [due EXCEPT ![ctx[w].job] = FALSE]
               ELSE UNCHANGED due
            /\ pc' = [pc EXCEPT ![w] = "view"]
            /\ UNCHANGED <<ctx, cmd, seen, lost>>
       ELSE Release(w) /\ UNCHANGED <<events, agg, due>>
    /\ UNCHANGED <<row, proc>>

\* The load or the commit fails in the database: sleep, then send again,
\* whatever became of the lease meanwhile.
AckTransient(w) ==
    /\ up
    /\ pc[w] \in {"ack", "loaded"}
    /\ pc' = [pc EXCEPT ![w] = "retry"]
    /\ seen' = [seen EXCEPT ![w] = NoSeen]
    /\ UNCHANGED <<db, due, ctx, cmd, lost, proc>>

\* Projection::react, first half: load_with_context.
ReactLoad(w) ==
    /\ up
    /\ pc[w] = "view"
    /\ pc' = [pc EXCEPT ![w] = "viewed"]
    /\ seen' = [seen EXCEPT ![w] = [version |-> row[ctx[w].job].version,
                                    state |-> row[ctx[w].job].state]]
    /\ UNCHANGED <<db, due, ctx, cmd, lost, proc>>

\* Mutant: the payload is written without advancing the version.
ReactedSameVersion(r, s, e) ==
    [version |-> s.version, state |-> Apply(s.state, e), lease |-> r.lease]

\* The updated row: version and payload, never the lease column.
Reacted(r, s, e) ==
    [version |-> s.version + 1, state |-> Apply(s.state, e), lease |-> r.lease]

\* Second half: update_view, optimistic on the version; a conflict reloads.
ReactUpdate(w) ==
    /\ up
    /\ pc[w] = "viewed"
    /\ IF row[ctx[w].job].version = seen[w].version
       THEN /\ row' = [row EXCEPT ![ctx[w].job] = Reacted(@, seen[w], cmd[w])]
            /\ Release(w)
       ELSE /\ pc' = [pc EXCEPT ![w] = "view"]
            /\ UNCHANGED <<row, ctx, cmd, seen, lost>>
    /\ UNCHANGED <<events, agg, due, proc>>

\* The reactor gives up ("View update lost"): the send still succeeds.
ReactLost(w) ==
    /\ up
    /\ ViewFaults
    /\ pc[w] \in {"view", "viewed"}
    /\ Release(w)
    /\ UNCHANGED <<db, due, proc>>

-----------------------------------------------------------------------------
(* Lease renewal, time, crash and restart.                                 *)

\* Mutant: renewal also asks for a lease that has not expired.
RowHeldUnexpired(j, seq) ==
    /\ row[j].version = seq
    /\ row[j].state.status = "claimed"
    /\ row[j].lease = "live"

\* The WHERE clause of renew_job.
RowHeld(j, seq) ==
    /\ row[j].version = seq
    /\ row[j].state.status = "claimed"

\* One tick of renew_loop; a failed UPDATE changes nothing and is not a step.
Renew(w) ==
    /\ up
    /\ pc[w] # "idle" /\ ~lost[w]
    /\ IF RowHeld(ctx[w].job, ctx[w].seq)
       THEN row' = [row EXCEPT ![ctx[w].job].lease = "live"] /\ UNCHANGED lost
       ELSE lost' = [lost EXCEPT ![w] = TRUE] /\ UNCHANGED row
    /\ UNCHANGED <<events, agg, due, pc, ctx, cmd, seen, proc>>

\* The execution unwinds (perform panics): neither the settlement nor
\* cancel.cancel() is reached, and the spawned renew_loop lives on, detached.
Panic(w) ==
    /\ up
    /\ Panics
    /\ pc[w] = "run"
    /\ orphans' = IF lost[w] THEN orphans
                  ELSE orphans \cup {[job |-> ctx[w].job, seq |-> ctx[w].seq]}
    /\ Release(w)
    /\ UNCHANGED <<db, due, up, crashes>>

OrphanRenew(o) ==
    /\ up
    /\ IF RowHeld(o.job, o.seq)
       THEN row' = [row EXCEPT ![o.job].lease = "live"] /\ UNCHANGED orphans
       ELSE orphans' = orphans \ {o} /\ UNCHANGED row
    /\ UNCHANGED <<events, agg, due, slots, up, crashes>>

BecomesDue(j) ==
    /\ events[j] # << >> /\ ~due[j]
    /\ due' = [due EXCEPT ![j] = TRUE]
    /\ UNCHANGED <<db, slots, proc>>

LeaseExpires(j) ==
    /\ row[j].lease = "live"
    /\ row' = [row EXCEPT ![j].lease = "expired"]
    /\ UNCHANGED <<events, agg, due, slots, proc>>

\* Workers, reactors in flight and renewals die with the process.
Crash ==
    /\ up /\ crashes < MaxCrashes
    /\ up' = FALSE
    /\ crashes' = crashes + 1
    /\ orphans' = {}
    /\ pc' = [w \in Worker |-> "idle"]
    /\ ctx' = [w \in Worker |-> NoCtx]
    /\ cmd' = [w \in Worker |-> NoCmd]
    /\ seen' = [w \in Worker |-> NoSeen]
    /\ lost' = [w \in Worker |-> FALSE]
    /\ UNCHANGED <<db, due>>

\* Projection::catch_up: missed events are folded onto the stored payload; the
\* upsert leaves the lease column alone.
CaughtUp(j) ==
    IF row[j].version < Len(events[j])
    THEN [version |-> Len(events[j]),
          state |-> Replay(row[j].state, events[j], row[j].version),
          lease |-> row[j].lease]
    ELSE row[j]

\* Projection::rebuild_all: the row is deleted and folded anew from sequence 1,
\* with a NULL lease.
Rebuilt(j) ==
    IF events[j] = << >> THEN NoRow
    ELSE [version |-> Len(events[j]), state |-> agg[j], lease |-> "null"]

\* JobRuntime::build, before any worker polls.
Restart ==
    /\ ~up
    /\ up' = TRUE
    /\ \E changed \in BOOLEAN :
         /\ changed => Upgrades
         /\ row' = [j \in Job |-> IF changed THEN Rebuilt(j) ELSE CaughtUp(j)]
    /\ UNCHANGED <<events, agg, due, slots, orphans, crashes>>

-----------------------------------------------------------------------------
Settle(w) ==
    \/ Perform(w) \/ AckLoad(w) \/ AckCommit(w) \/ AckTransient(w)
    \/ ReactLoad(w) \/ ReactUpdate(w) \/ ReactLost(w)

Next ==
    \/ \E j \in Job : Enqueue(j) \/ BecomesDue(j) \/ LeaseExpires(j)
    \/ \E w \in Worker, j \in Job : Claim(w, j) \/ Abandon(w, j)
    \/ \E w \in Worker : Settle(w) \/ Renew(w) \/ Panic(w)
    \/ \E o \in orphans : OrphanRenew(o)
    \/ Crash
    \/ Restart

Spec == Init /\ [][Next]_vars

\* A renewal that still finds its row may keep the lease alive for ever.
Renewed(j) ==
    /\ up
    /\ \/ \E w \in Worker : /\ pc[w] # "idle" /\ ~lost[w] /\ ctx[w].job = j
                            /\ RowHeld(j, ctx[w].seq)
       \/ \E o \in orphans : o.job = j /\ RowHeld(j, o.seq)

\* Time passes, performs end (execution_timeout), the database recovers, a
\* crashed process is restarted, and a runnable job is polled again and again.
Fairness ==
    /\ \A j \in Job :
         /\ WF_vars(BecomesDue(j))
         /\ WF_vars(LeaseExpires(j) /\ ~Renewed(j))
         /\ SF_vars(\E w \in Worker : Claim(w, j) \/ Abandon(w, j))
    /\ \A w \in Worker :
         /\ WF_vars(Perform(w)) /\ WF_vars(AckLoad(w)) /\ SF_vars(AckCommit(w))
         /\ WF_vars(ReactLoad(w)) /\ WF_vars(ReactUpdate(w)) /\ WF_vars(Renew(w))
    /\ WF_vars(\E o \in orphans : OrphanRenew(o))
    /\ WF_vars(Restart)

FairSpec == Spec /\ Fairness

-----------------------------------------------------------------------------
(* Properties.                                                             *)

\* Every variable has its type, and no job is claimed more than max_claims times
\* between two deferrals.
TypeOK ==
    /\ events \in [Job -> Seq(Event)]
    /\ agg \in [Job -> State] /\ row \in [Job -> Row]
    /\ due \in [Job -> BOOLEAN]
    /\ pc \in [Worker -> Phase]
    /\ ctx \in [Worker -> [job : Job, seq : Nat, attempt : Nat]]
    /\ cmd \in [Worker -> Event]
    /\ seen \in [Worker -> [version : Nat, state : State]]
    /\ lost \in [Worker -> BOOLEAN]
    /\ orphans \subseteq [job : Job, seq : Nat]
    /\ up \in BOOLEAN /\ crashes \in 0 .. MaxCrashes
    /\ \A j \in Job : agg[j].claims <= MaxClaims

\* JobState::evolve never meets an event it cannot fold: whatever the order of
\* claims, stale settlements, crashes and rebuilds, no stream is corrupt.
StreamFolds == \A j \in Job : agg[j].status # "failed"

\* The fence: a settlement is recorded only directly after the Claimed event of
\* the claim that decided it, so a superseded execution never records an outcome
\* and no claim records two.
SettlementFenced ==
    \A j \in Job : \A n \in DOMAIN events[j] :
        (events[j][n].type \in Settlement /\ events[j][n].reason # "Abandoned") =>
            /\ n > 1
            /\ events[j][n - 1].type = "Claimed"
            /\ events[j][n - 1].claim = events[j][n].claim

\* The job_queue row is the fold of a prefix of the stream that misses at most
\* the last event, its version is the sequence of the last event applied, and
\* catch_up heals it ("event committed, react skipped").
RowFollowsStream ==
    \A j \in Job :
        /\ row[j].version \in {Len(events[j]) - 1, Len(events[j])}
        /\ Replay(row[j].state, events[j], row[j].version) = agg[j]

\* At most max_attempts failures are ever recorded, and a job is dead-lettered as
\* RetriesExhausted only once that many were.  A budget of zero is one of one:
\* plan_ack counts the failure at hand before it asks.
AttemptBudget ==
    \A j \in Job :
        LET budget == IF MaxAttempts = 0 THEN 1 ELSE MaxAttempts
            failures == {n \in DOMAIN events[j] : \/ events[j][n].type = "RetryScheduled"
                                                  \/ events[j][n].reason = "RetriesExhausted"}
        IN  /\ Cardinality(failures) <= budget
            /\ (\E n \in failures : events[j][n].type = "Dead")
                   => Cardinality(failures) = budget

\* An execution told that its lease is lost skips its settlement; that is safe,
\* because the claim after it, or an abandonment, is already in the stream.
SkippedAckIsOwned ==
    \A w \in Worker : (pc[w] = "run" /\ lost[w]) =>
        /\ Len(events[ctx[w].job]) > ctx[w].seq
        /\ events[ctx[w].job][ctx[w].seq + 1].type \in {"Claimed", "Dead"}

\* A finished job stays finished: neither its stream nor its row leaves a
\* terminal state, through late renewals, stale settlements and rebuilds.
NoResurrection ==
    [][\A j \in Job :
         /\ agg[j].status \in {"done", "dead"} => events'[j] = events[j]
         /\ row[j].state.status \in {"done", "dead"} => row'[j].state = row[j].state]_vars

\* Every enqueued job eventually reaches a terminal state: retries, steals,
\* crashes and resent settlements come to an end.  That a job defers at most
\* MaxDefers times is a bound of the model the property needs: a defer resets the
\* claim budget, and the code lets a poller defer for ever (job.rs:181-184).
EveryJobSettles ==
    \A j \in Job : (agg[j].status # "none") ~> (agg[j].status \in {"done", "dead"})

\* A job waiting for its first run or for a retry is picked up in the end.
PendingJobRuns ==
    \A j \in Job : (agg[j].status = "pending") ~> (agg[j].status # "pending")

\* The job of a worker that died is claimed again (or finished) in the end.
OrphanRecovered ==
    \A j \in Job :
        (agg[j].status = "claimed" /\ ~\E w \in Worker : pc[w] # "idle" /\ ctx[w].job = j)
            ~> (agg[j].status # "claimed" \/ \E w \in Worker : pc[w] # "idle" /\ ctx[w].job = j)

-----------------------------------------------------------------------------
(* The abstract specification: a job's status and the budgets it has spent. *)

Ledger ==
    [j \in Job |-> [status |-> agg[j].status, attempt |-> agg[j].attempt,
                    claims |-> agg[j].claims]]

Abstract == INSTANCE JobLifecycle WITH job <- Ledger

\* Claiming, executing, settling, losing views, crashing and rebuilding amount
\* to the one-step transitions of JobLifecycle: the attempt a stale context
\* carries, for one, is always the attempt of the stream it is recorded in.
RefinesLifecycle == Abstract!Spec

=============================================================================

# A TLA+ model of event-sorcery

event-sorcery is an event-sourcing library over SQLite.  Entities are folds of
event streams; commands are loaded, decided and committed through `cqrs-es`;
projections keep view rows beside the streams; durable jobs are themselves event
streams with a view row that workers poll, claim under a lease and settle.  A C
ABI and a Haskell binding expose the same engine.

Paths below are relative to the repository; `job.rs`, `job_backend.rs`,
`engine.rs`, `projection.rs` and the like are in `crates/event-sorcery/src/`.

## The system's parts

| part | source | state it changes | here |
|---|---|---|---|
| job aggregate, claim planning | `job.rs` | a job's stream and its fold | `JobQueue`, `JobLifecycle` |
| job worker backend | `job_backend.rs`, `job_store.rs`, `job_sqlite.rs` | execution slots, renewal tasks, lease column | `JobQueue`, `ClaimTokens` |
| storage engine | `engine.rs`, `sqlite_event_repository.rs`, `sqlite-es/event_repository.rs` | events, snapshots, job rows | `EventStore` |
| lifecycle, store | `lifecycle.rs`, `lib.rs` | none of its own | `EventStore`, `EntityStore` |
| schema registry, startup | `schema_registry.rs`, `wire.rs` | registry stream, snapshots, views | `EventStore`, `Projection` |
| projections | `projection.rs`, `sqlite-es/view_repository.rs` | view rows | `Projection` |
| reactors, busy retry, typed dependencies | `reactor.rs`, `dependency.rs` | none of its own | `Reactors`, `Projection` |
| dispatch | `dispatch.rs` | the dispatch machine of the origin entity | `Dispatch` |
| C ABI | `event-sorcery-ffi/src/lib.rs` | handle registry, claim registry | `StoreHandle`, `ClaimTokens`, `AbiRequests`, `Abi` |
| examples | `examples/` | `Order`, `SupportTicket`, `Inventory` | `Dispatch`, `Reactors` |
| Haskell binding, test support | `bindings/haskell/src`, `testing.rs` | | not modelled |

How they meet: `Abi` composes `EventStore` with the calls of the C ABI;
`Dispatch` runs on `JobLifecycle`, the abstract queue that `JobQueue` implements;
`ClaimTokens` puts the token registry over a durable job; `EventStore` implements
`EntityStore`.  `PROJECT.json` lists the components with their status, and the
hazards of the code at the lines where they bite, with the properties that cover
them.  Operators named as mutants in a comment are wrong on purpose: each stands
for a plausible bug that one of the properties must notice.

## Modules

**`JobQueue`** is the core.  Its state is the database (`events`, the fold `agg`
that loading a stream yields, the `job_queue` `row`), the clock as far as guards
read it (`due`, and the `lease` field of a row), one slot per concurrent
execution (`pc`, `ctx`, `cmd`, `seen`, `lost`), renewal tasks without an
execution (`orphans`) and the process (`up`, `crashes`).

| action | code |
|---|---|
| `Enqueue` | `Engine::enqueue_job`: event and seeded row in one transaction |
| `Claim`, `Abandon` | `poll`, `claim_job_as`, `plan_claim`, `claim_job_in_transaction`; a job whose arguments do not decode (`build_task`) is claimed and left |
| `Perform` | the middle of `AckService::call`: outcome, `ack_plan`, the `lost` check, `ack_command` |
| `AckLoad`, `AckCommit`, `AckTransient` | one turn of `ack`: load and fence, commit by compare-and-swap, a database error that sends again |
| `ReactLoad`, `ReactUpdate`, `ReactLost` | `Projection::react` on the committed event: load, optimistic update, giving up |
| `Renew`, `OrphanRenew` | a tick of `renew_loop` with and without an execution behind it |
| `Panic` | `AckService::call` unwinding before `cancel.cancel()` |
| `BecomesDue`, `LeaseExpires` | the clock passing `run_at`, `lease_until` |
| `Crash`, `Restart` | the process dies; `StoreBuilder::build` runs `catch_up`, or `rebuild_all` on a schema change |

What is abstracted.  Time is a pair of flags: a lease may expire whenever it is
live, and may be expired when written, because the code measures it from a clock
reading taken before the poll.  So the safety results do not depend on clocks or
on the renewal cadence.  A claim id is the sequence number of its `Claimed` event
(the id is a fresh ULID, the sequence is as unique within a stream).  Payloads,
kinds and error texts are dropped.  Polling is part of `Claim`: a poll that ends
in `Skip`, `Contended` or an error changes nothing.  A renewal whose `UPDATE`
fails changes nothing.  `SettlementVerdict::Rejected` has no action: it needs a
stream that does not fold, which `StreamFolds` excludes, or stored data that does
not decode.  Settlement events carry the claim of the command that produced them;
the code's events do not, and no guard reads it.

**`JobLifecycle`** is the abstract specification: a ledger of status, attempts
and claims per job in which every transition is one step.  `JobQueue` implements
it under the mapping `Ledger`.

**`MCJobQueue`** instantiates `JobQueue` for TLC, and the other `MC...` modules
their components.  Theorems are in the modules named `...Proofs` and in
`JobQueueFrames`; see Proofs.

**`EventStore`** is the database below entities: `rows`, `snap`, `jobs` and the
schema `registry` are durable, `sender` and `built` belong to processes.  A
`Store::send` is `LoadSnapshot`, `LoadEvents`, `Handle` and `Persist`, with others
in between; `CommitAt`, `StoreSnapshot`, `DiscardSnapshot` and `EnqueueJob` are the
engine's own operations; `CompactEvents`, `Deploy`, `Crash`, `Reconcile` and
`RecordVersion` are maintenance, deployment and startup.  One stream stands for an
aggregate type with one instance.  An entity is the number of events it has
absorbed, so an event lost or folded twice shows; payloads are either an entity's
JSON or the ABI's opaque bytes.  The rule when cqrs-es takes a snapshot is external.
`DiscardSnapshot` is only called where the documentation of the operation allows
it.  **`EntityStore`** is what is promised: version, state and jobs move together,
by commits alone.

**`AbiRequests`** is how the C ABI judges a request: an export is the sequence of
the faults it looks for, in the order of the code, and answers the class of the
first it meets.  **`Abi`** adds the data calls over `EventStore`, with native
programs as neighbours; a call is one step, but for a conflict, whose detail is
read in a second transaction.

**`StoreHandle`** has one step per critical section of open, call and close: the
registry mutex, the state mutex, and the `notify_all` outside both.
**`ClaimTokens`** has the claim registry with the durable operation between two
registry steps, leases as instants, the poll's predicate and its order.  It has no
clock: `now_ms` and the lease are arguments of each call of the C ABI, so callers may
disagree about the time, go back in it, and renew to an earlier lease.  Its polls
are for one job kind; the columns of finished jobs are normalised.

**`Projection`** has the view of an entity type, a retrying reactor before it, and
`StoreBuilder::build` step by step; a view holds the sequence of events folded into
it.  `damaged` names the entities whose commands overlapped or whose update was
given up since the last rebuild.  `send_command` is used while the service is down,
and an operator rebuilds while no command is in flight.  **`Reactors`** follows one
event from the command that causes it through the chain of handlers and the retry
loop; `MCProjection` explores it while the projection is at rest, as the two share
no variable.

**`Dispatch`** has the origin entity with its `DispatchedJob`, and executions that
submit or reconcile, deliver the verdict and settle, as separate steps, for the
three entities `Desk`, `Order` and `SupportTicket`.

## Runs

| run | shows |
|---|---|
| `queue` | all safety properties of the queue and the refinement of `JobLifecycle`, with two workers, one healthy and one poison job, lost view updates, panics, a crash and a restart that may rebuild |
| `live` | `EveryJobSettles`: two workers, one job, one crash; without lost view updates and panics, under which it fails (see Findings) |
| `event_store` | `Abi` over `EventStore`: a native sender, an ABI caller and engine users on one stream of either policy; native loads of both, native commands on `Retain` |
| `store_handle` | three threads open, use, close and reopen one cell; deadlock is checked |
| `claim_tokens` | two callers, two jobs (one unreadable), three tokens for two slots, any instants in the calls |
| `projection` | two writers, three events, three busy answers, a crash and a deployment; and the reactor of `Reactors` |
| `dispatch` | two workers, two jobs, three entity types, one failed delivery, timeout, deferral or crash |
| `lost_view`, `orphan`, `stale_writer`, `late_issue`, `concurrent_view` | violations, see Findings |

The properties, first of the queue:

- `TypeOK`: types, and at most `max_claims` claims between two deferrals.
- `StreamFolds`: no stream is ever corrupt for `JobState::evolve`.
- `SettlementFenced`: an outcome is recorded only directly after the claim that
  decided it, so a superseded execution records nothing and no claim two outcomes.
- `RowFollowsStream`: the row is the fold of the stream less at most its last
  event, at the right version, and replaying from there gives the aggregate.
- `AttemptBudget`: at most `max_attempts` recorded failures, and exactly that
  many when the job died of them.  A budget of 0, which the `u32` allows, counts as 1:
  `plan_ack` looks at it only after a failure.
- `SkippedAckIsOwned`: a settlement skipped for a lost lease is owned by a later
  event already in the stream.
- `NoResurrection`: a finished job never leaves its final state, in stream or row.
- `RefinesLifecycle`: the abstract ledger.
- `EveryJobSettles`: every enqueued job ends as done or dead.  It holds because the
  model bounds deferrals (`MaxDefers`): the code lets a job defer itself for ever
  (`job.rs:181-184`).

Of the event store and the ABI:

- `LoadIsFold`: a load, and the command decided on it, has exactly the events up to
  its sequence, although it takes two statements.  Exempt are the loads of a
  compactable stream that a compaction passes between the two: the field `whole` of
  a sender marks them, and the run has them (see Findings, Storage).
- `NeverSilentlyLost`: what a load would start from reaches the committed version
  without a gap; otherwise the load is refused.
- `ListedIffCommitted`: `all_ids` lists a stream whose events are all compacted.
- `ImplementsEntityStore`: compaction, snapshots, deployments, schema recovery,
  conflicts and crashes are invisible in version, state and jobs.
- `ConflictNotBehind`: the version a conflict reports is not older than the one
  that caused it.
- `PagedReadWhole`: paging with the last sequence read misses and repeats nothing
  but what compaction deleted.
- `OversizeIsResourceLimit`: the order of the decoder's checks keeps an oversize
  batch from being called malformed.

Of handles and claims:

- `ClosedIsDrained`, `DestroyedOnce`, `HandleIsAlive`, `OpenIsRegistered`: close
  waits for calls, one closer destroys, no pointer in a cell dangles, and a late
  closer leaves the successor alone.
- `CloseReturns`, `EngineReleased`: no wakeup is lost.
- `CapacityKept`, `OneCallPerToken`: slots and reservations add up, and a token in
  use belongs to one call and survives eviction and newer claims.
- `LeaseMirrored`: the registry's lease is the durable one while its claim owns the job.
- `DroppedIsTakeable`: a token evicted or retired as lapsed belongs to a claim that no
  longer owns its job, or that any claim at the same instant may take over.
- `PollAgreesWithPlan`: the SQL predicate and `plan_claim` accept the same rows, and
  a poll of one offers the job due first.

Of projections and reactors:

- `ViewIsFold`, `SettledIsCurrent`: undamaged views are the fold of their version's
  events, and current between commands.
- `RecordedIsRebuilt`: a recorded schema version means every view was rebuilt.
- `ViewCatchesUp`: every event reaches its view.
- `HandledOnce`: a reactor takes no event twice, through busy retries, overlapping
  commands and restarts.  That a busy attempt takes nothing is the contract of
  `IdempotentReactor` (`reactor.rs:98-104`), assumed here as it is by the code.
- `FallbackAfterFailure`: in every attempt the fallback of the event's own handler runs
  exactly when that handler has failed.
- `RetryBounded`, `AcceptedApplies`: only busy databases are retried, within the
  documented budget; what the inventory accepts it can apply.

Of dispatch:

- `ConfirmedIsProof`, `DoneIsConfirmed`: a confirmed verdict is true, and delivered
  before the job is done.
- `NoBlindResubmit`: at most one execution calls without asking first.
- `StatusFollowsVerdict`: the entity's status keeps step with its machine.
- `DispatchSettles`: the verdict arrives, unless the job is dead.
  `Desk` stands for any entity that is nothing but its dispatch machine.

Bounds.  In the queue, two attempts and two claims make retry, exhaustion, steal
and abandonment all reachable; two workers are one holder and one thief; two jobs
separate the poison case; one deferral and one crash each give every action a
before and an after.  In the event store two events and a snapshot size of two give
compaction with and without a tail, and one deployment every mismatch of form and
version.  Three threads are a call, a destroyer and a joiner, or a closer and its
successor.  Three tokens for two slots make eviction happen; four instants
order two leases and the two readings that judge them in every way.  One retry and three busy answers exhaust a retry and
leave one for the next event.  Constants named `Max...` in comments as bounds limit
the model only.  `Width` stands for the 64 bits of a delay, `MaxUnits` for
`u32::MAX`.

In `event_store` native senders load streams of either policy but send commands to
`Retain` streams only: commands on compactable ones are the subject of `stale_writer`,
and what a handler decides on a torn load (below) would hide the rest.

Fairness.  `live`, `lost_view`, `orphan`.  Weak: time passes, a perform ends
(`execution_timeout`), loads, view updates and renewal ticks happen, a dead process
is restarted, and an unrenewed lease runs out.  Strong: a job that is claimable
again and again is claimed (workers poll at a fixed interval for as long as they
live), and a commit that is retried succeeds in the end (the database recovers).  A
lease that a live task renews need not expire.  `store_handle`: a thread in a call
goes on, nobody need start one.  `projection`: startup and commands in progress go
on.  `dispatch`: executions go on, and a job nobody executes is not passed over for
ever (strong, because `poll_order`, `job_backend.rs:818`, sorts by due time and a
refused job comes back later); that deliveries do not fail for ever is the bound on
faults.

## Findings

The first two are about jobs that stop until the next start of the process.

1. `AckService::call` cancels its renewal task only when control reaches
   `cancel.cancel()` (`job_backend.rs:917`).  When `perform` unwinds and
   the process survives it, the task spawned at line 887 goes on renewing.  `docs/migrating-to-durable-jobs.md:29`
   promises re-claiming once the lease expires; it never does.  Run `orphan`.
2. `Projection::react` reports success when it gives up on a view update
   (`projection.rs:592`, `609`, `615`).  After a `RetryScheduled` event the row
   then stays claimed one version behind; its lease runs out, and each claim
   appends at an occupied sequence and is `Contended`.  The retry that
   `docs/migrating-to-durable-jobs.md:23` describes does not run.  `catch_up`
   heals the row, but only at startup.  Run `lost_view`.
3. `SqliteEventRepository::persist` commits without an expected version
   (`sqlite_event_repository.rs:122`), so `Store::send` is guarded by the events
   primary key alone.  After another sender has committed, snapshotted and
   compacted, a slower one commits a sequence the stream has used, behind the
   snapshot, where no load finds it: what the test at `engine.rs:1826` says must
   not happen.  Run `stale_writer`.
4. `ClaimReservation::issue` (`event-sorcery-ffi/src/lib.rs:1293`) drops every
   available token of its job.  A caller that retains its claim only after the
   lease has lapsed and another has claimed the job drops the owner's token, and
   keeps one that is fenced.  The comment at 1280-1285 says that nothing between
   winning a claim and handing out its token can strand the claim.  Run `late_issue`.
5. `Projection::react` folds its event onto whatever version it loads
   (`projection.rs:575`).  Two commands on one entity whose reactors overlap can
   fold in the wrong order, or lose the version-0 insert, at a version that looks
   current.  The comment at 540-541 calls the retries enough for any burst of
   concurrent writers.  Run `concurrent_view`.

Smaller divergences, seen while modelling and without a run.  Jobs:

- the migration of `job_queue` says `lease_until` is NULL on pending and terminal
  rows; the reactor never clears it, as `plan_claim`'s comment says;
- the settlement is retried without regard to the lease, although `ack` says
  "while the lease is held": the fence makes that harmless;
- `job.rs:518` says the claim budget only catches claims with no outcome; claims
  that ended in a recorded retry count as well.

Dispatch:

- a job that dies by its claim budget, or times out on its last attempt, delivers no
  verdict, although `dispatch.rs:428-431` documents one; hence the second case of
  `DispatchSettles`;
- an execution that lost its lease before it called can still call after another was
  told `NotSubmitted` and called too;
- a crash between the delivery of a failure and the ack lets a later execution reach
  another verdict, which the machine then refuses;
- the examples' `reconcile` reports success for an unknown fate.

Storage:

- a native load of a compactable stream takes the snapshot and the events in two
  statements; a snapshot write and a compaction between them leave a gap.  The torn
  load ends `Failed`, or in a live state that lacks the deleted events, where
  `lib.rs:26-29` promises that "state is never silently lost".  Without its exemption
  `LoadIsFold` is violated in `event_store` within eight steps;
- registering a compactable type for the first time clears its snapshots, which may be
  all that is left of its streams: the refusal at `schema_registry.rs:208` looks for a
  version on record.  The instances have one on record before anything is compacted;
- discarding the snapshot of a fully compacted stream takes its version back to 0;
  the documentation leaves it to the caller not to.

C ABI:

- `StoreLease::drop` gives back its count before its field `inner` is dropped, so
  `es_close` may answer while a returning call still holds the engine
  (`EngineReleased` says it lets go in the end);
- `es_commit_with_job` with two events or more over the limit answers `DECODE`, where
  `SPEC.md:301` asks for `RESOURCE_LIMIT`; a used job id answers `CONFLICT` with the
  expected version as the actual one;
- the comment at `lib.rs:1197-1199` says a token is retired once "nothing is executing
  under" it.  With the instants of different callers that need not be so: an owner may
  renew to a lease that lies before the instant of a claim already answered `Skipped`,
  and its token is then retired.  `DroppedIsTakeable` says what does hold;
- a used id in `es_job_enqueue` and a refused `es_snapshot_store` answer `STORAGE`,
  although both are permanent, which the comment at `lib.rs:1767-1768` says must not
  surface as retryable storage;
- an invalid instant in `es_commit_with_job` is reported only if the commit does not
  conflict;
- a page whose rows exceed `MAX_STORED_EVENT_PAGE_BYTES` cannot be read at any page
  size that includes them.

Examples: `stock_alert.rs:1-3` promises an alert when stock falls to a threshold; the
code looks at the initial quantity only.

## Proofs

Every invariant, action property and refinement of a passing run is proved with
TLAPS, for every value of the constants; only the liveness properties are not.  Two
hypotheses of theorems, `Supported` and the one on `Budget`, are explained below; the
other assumptions are those the modules state (`...Assumption`): budgets, bounds and
capacities are naturals, some sets are finite, `None` is not one of the values it
stands beside.  TLC evaluates them in the runs.

| module | proves of | theorems |
|---|---|---|
| `JobQueueFrames`, `JobQueueProofs` | `JobQueue` | `TypeCorrect`, `StreamsFold`, `Fenced`, `RowFollows`, `SkippedAck`, `BudgetKept`, `Final` (no resurrection), `Refinement` (of `JobLifecycle`) |
| `EventStoreProofs`, `AbiProofs` | `EventStore`, `Abi` | `AbiLoadIsFold`, `AbiNeverSilentlyLost`, `AbiListedIffCommitted`, `AbiPagedReadWhole`, `AbiConflictNotBehind`, `AbiOversizeIsResourceLimit`, `AbiSequencesNeverReused`, `AbiImplementsEntityStore`, `PageHeaderExact` |
| `StoreHandleProofs` | `StoreHandle` | `CloseDrains`, `OneDestroyer`, `HandlesAlive`, `OpenReachable`, `CountNeverCorrupt` |
| `ClaimTokensProofs` | `ClaimTokens` | `CapacityHolds`, `TokensExclusive`, `LeasesMirrored`, `PollAgrees`, `DropsAreTakeable` |
| `ProjectionProofs` | `Projection` | `ViewsFold`, `ViewsCurrent`, `RowsReadable`, `ReactsOnce` |
| `DispatchProofs` | `Dispatch`, `Reactors` | `BlindOnce`, `ConfirmedProves`, `DoneAfterDelivery`, `StatusFollows`; `ExhaustiveIs`, `BackoffGrows`, `FallbackRuns`, `Accepts`, `Retries` |

Each follows from an inductive invariant that the properties alone do not give.  TLC
checked each of these invariants on the instance of its run before it was proved.

**The queue** (`IInv`).  It adds to the properties:

- `ClaimAtEnd`: the fold is claimed exactly when the stream ends in a `Claimed`
  event, and then holds that event's claim.  This is why the fence suffices.
- the row is current, or one settlement behind and still claimed (`RowCurrent`,
  `RowBehind`).  Hence a claim that wins its compare-and-swap has read the
  current state, and nobody is updating the row it overwrites.
- `ExecInv`: an execution's claim is the last event of the stream, or is followed
  by another claim or an abandonment, or was settled by this very execution,
  whose view update is then the only one in flight for the job.
- `CmdInv`: what a settlement about to be sent says of its attempt.
- `Exclusive`: no two executions hold the same claim.

`InvStep` has one lemma per action.  The refinement, `Final` and `BudgetKept` rest on
`StepAppends`: a step appends nothing, or one event that the state it is appended
to allows.  For the budget a second invariant, `Tallied`, ties the attempt counter of
the fold to the number of failures in the stream, a cardinality.

**The event store and the ABI** (`StoreInv`, `AbiInv`).  A stream is its compacted
part, which a snapshot covers, followed by rows without a gap up to the committed
version; a type that compacts has a version on record, so its snapshots are never
cleared; a command under way holds the fold of events that its stream has committed; a
load between its two statements still finds the events after its snapshot (`Covered`),
unless a compaction has passed it; an answer given still stands.  The refinement maps a stream to its version and to the
state a load would yield, both functions of that shape, so compaction, snapshots and
startup are stutters.

All but two of the ABI's theorems assume `Supported`: native programs send commands to
`Retain` streams, whatever they load, and a compactable type has a version on record
from the start.  Neither is a
convenience.  Without the first `stale_writer` is a counterexample (finding 3);
without the second, registering a compactable type clears the snapshots that may be
all there is of its streams (see the divergences under Storage).  `AbiOversizeIsResourceLimit` and
`PageHeaderExact` need neither.  `PageHeaderExact` says that for every length below
2^16 a CBOR reader gets back, from the array header of a page that the code writes by
hand in three forms, the number of events it was written for.

**Handles** (`IInv`).  `es_close` looks at the count of active calls alone before it
takes the engine, so the invariant makes the count exact (`CountInv`: the cardinality
of the set of calls between acquire and drop), gives a closing store exactly one
destroyer (`DestroyerInv`) and every phase of a call the state of its store
(`PhaseInv`).  `CountNeverCorrupt` shows that the decrement cannot underflow.

**Claims** (`IInv`).  A token in use belongs to one call, and a call's token is
retained (`TokenInv`); a claim belongs to one token or to one call about to issue it
(`SeqInv`).  `LeaseInv` says where the lease of an owner is written down at each
moment between the durable renewal and the registry's: in the call that has just
claimed or renewed (`CallLease`), otherwise in the token (`TokenLease`).  So what the
registry takes for lapsed at an instant has lapsed durably at that instant
(`DropsAreTakeable`), however old the answer that made the call retire it.  `PollAgrees` needs no
invariant beyond the types: it is equivalence of the two predicates.

**Projections** (`IInv`).  An entity whose commands never overlapped has at most one
under way (`AloneInv`); that command holds the entity's last events, and its view
lacks exactly those still to be applied (`ProgressInv`); at startup the rows to replay
are exactly the views behind, and a replay has folded a prefix (`StaleInv`,
`ReplayInv`); `FormInv` ties recorded, deployed and written forms; `HandledInv` keeps
what commands still have to hand over apart from what the reactor took.

**Reactors** (`ReactorsInv`, in `DispatchProofs`).  The inventory's quantity fits its width; a delivery's
last attempt ran exactly the handlers it should have, and the delays slept so far are
the beginning of the schedule, for a busy database only.  Below that are facts about
the operators: `ExhaustiveIs` (the chain of typed handlers runs the one of the event's
entity, or the fallback), `RetryableIsBusy` (the walk over an error's sources finds a
busy database wherever it is, short of a sealed error) and `BackoffGrows` (the delay,
whose doubling is checked for overflow, never shrinks and never exceeds the cap).
`Retries` assumes that the constant `Budget` is the sum of the schedule; that the sum
is the "~4.3s" of the comment at `reactor.rs:176`, 4270 ms, is what the run shows.

**Dispatch** (`IInv`).  The first execution of a job is alone in not having to ask,
and has not called (`FirstInv`); a success stands for a call that landed and, once it
is about to be acknowledged, for an origin that has taken it (`VerdictInv`).

Induction.  Folds over a stream, sums of delays and walks over handlers or error
chains are recursive functions.  The library's induction theorems cannot be used with
these provers, so `Least` derives from the well-foundedness of `<` that a set of
naturals has a least element, `UpTo` that a set closed under successor up to n
contains 0..n, and `SameFold` that two functions which satisfy the same recursion are
equal; each later induction is an instance of `UpTo` for a set.

Only model-checked: the liveness properties `EveryJobSettles`, `CloseReturns`,
`EngineReleased`, `ViewCatchesUp` and `DispatchSettles`, which are out of this prover's
reach, as is `ENABLED`; and the properties of the violation runs, which the code does
not have (`SequencesNeverReused` of `stale_writer` holds, and is proved, where
`Supported` does).

## Not modelled

SQLite itself is taken as serialisable transactions with a unique primary key; the
pool settings the code requires are assumed.  Formatting, CBOR, logging and
type-level plumbing have no model, nor has code that only reads: `stream_events`, the
paginated listing, filters by generated column, `vacuum`, which changes no row, and
the migrations, which only define tables.

- Job worker backend: how late the clock reading of a poll is, the scan limit with a
  backlog longer than it, the renewal cadence and the retry backoff, a floating-point
  computation.  Clock steps backwards are covered only in that a lease may expire at
  any time.
- Startup: two processes starting at once, and a `catch_up` or a command-line commit
  racing a live service.  `record_target`'s load and commit are one step.
- `sqlite-es`: the generic event repository, which serves only the registry's stream.
- Dispatch: a call that lands after its execution timed out.
- Haskell binding: its hard part is asynchronous exceptions under GHC's masking
  rules, a semantics of its own that neither the source nor TLA+ gives; the protocol
  it speaks is that of `StoreHandle`, `ClaimTokens` and `Abi`.
- Examples: `StockAlert` and `AuditLog`, which print or collect lines, and the `main`
  functions.  Test support is no part of the running system.

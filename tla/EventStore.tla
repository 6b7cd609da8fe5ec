----------------------------- MODULE EventStore -----------------------------
(***************************************************************************)
(* The event store of one SQLite database: the tables `events`,            *)
(* `snapshots` and the schema registry, and the programs that use them.    *)
(*                                                                         *)
(*   - native senders run Store::send: they load an aggregate (snapshot,   *)
(*     then the events after it, in two statements), let the lifecycle     *)
(*     handle the command, and commit events, snapshot and job intent in   *)
(*     one transaction;                                                    *)
(*   - engine callers commit at an expected version, store and discard     *)
(*     snapshots, and enqueue jobs (Engine, and the C ABI above it);       *)
(*   - maintenance compacts streams, deployments change the shape of a     *)
(*     stored state and the declared schema version, processes crash, and  *)
(*     StoreBuilder::build reconciles the registry on the way up.          *)
(*                                                                         *)
(* One stream stands for one aggregate type with one instance.  An entity  *)
(* is the number of events it has absorbed: folding an event twice, or     *)
(* losing one, shows.                                                      *)
(***************************************************************************)
EXTENDS Naturals, Sequences, FiniteSets, Functions

CONSTANTS Stream,        \* aggregate streams
          Sender,        \* native command senders
          Cli,           \* senders that use send_command, without a built store
          Job,           \* job ids
          NoJob,
          NativePolicy,  \* the compaction policies of the entities that native
                         \* programs send commands to; they load any
          Registered,    \* Registered[p]: the schema version a type of policy p
                         \* has on record when the database is first seen
          SnapshotSize,  \* SNAPSHOT_SIZE: events between automatic snapshots
          MaxEvents,     \* bound: events per stream
          MaxBatch,      \* bound: events per commit
          MaxDeploys     \* bound: deployments of a changed entity

ASSUME StoreAssumption ==
    /\ IsFiniteSet(Stream)
    /\ NativePolicy \subseteq {"Retain", "CompactAfterSnapshot"}
    /\ Registered \in [{"Retain", "CompactAfterSnapshot"} -> 0..1]
    /\ Cli \subseteq Sender
    /\ NoJob \notin Job
    /\ SnapshotSize \in Nat \ {0}
    /\ MaxEvents \in Nat
    /\ MaxBatch \in Nat \ {0}
    /\ MaxDeploys \in Nat

VARIABLES policy,    \* policy[s]: COMPACTION_POLICY, fixed for good
          rows,      \* rows[s]: the `events` rows of s, by sequence
          snap,      \* snap[s]: the `snapshots` row of s
          jobs,      \* jobs with an Enqueued event and a job_queue row
          registry,  \* the events of the schema registry, a singleton aggregate
          schema,    \* schema[s]: the deployed SCHEMA_VERSION
          shape,     \* shape[s]: the deployed form of the serialized state
          built,     \* built[s]: how far StoreBuilder::build has come
          sender     \* sender[w]: the load or command w is executing

vars == <<policy, rows, snap, jobs, registry, schema, shape, built, sender>>

-----------------------------------------------------------------------------
(***************************************************************************)
(* The lifecycle: an entity originates from its first event and evolves    *)
(* with the others; an event it cannot take fails it for good.             *)
(***************************************************************************)

Kind == {"open", "step"}

Uninitialized == [tag |-> "Uninitialized", n |-> 0]
Live(n) == [tag |-> "Live", n |-> n]
Failed == [tag |-> "Failed", n |-> 0]

Originate(e) == IF e = "open" THEN Live(1) ELSE Failed
Evolve(a, e) == IF e = "step" THEN Live(a.n + 1) ELSE Failed

Apply(a, e) == CASE a.tag = "Uninitialized" -> Originate(e)
                 [] a.tag = "Live" -> Evolve(a, e)
                 [] a.tag = "Failed" -> Failed

Replay(a, batch) ==
    LET fold[i \in 0..Len(batch)] == IF i = 0 THEN a ELSE Apply(fold[i - 1], batch[i])
    IN  fold[Len(batch)]

\* A binding's event is bytes in the engine's envelope: the native entity
\* cannot deserialize it, the binding's own fold takes it as the next event.
Opaque == "opaque"
Absorb(a, e) == IF e = Opaque THEN Live(a.n + 1) ELSE Apply(a, e)

-----------------------------------------------------------------------------
(***************************************************************************)
(* Reading and writing a stream.                                           *)
(***************************************************************************)

\* A row of `snapshots`: the sequence it covers, the state, and the form the
\* state is serialized in.
StoredSnapshot(last, state, form) == [last |-> last, state |-> state, shape |-> form]
NoSnapshot == StoredSnapshot(0, Uninitialized, 0)

Greatest(S) == CHOOSE x \in S \cup {0} : \A y \in S : y <= x

\* ORDER BY sequence.
Ascending(S) == CHOOSE f \in [1..Cardinality(S) -> S] :
                    \A i, k \in DOMAIN f : i < k => f[i] < f[k]

\* load_events: the rows after a sequence, in sequence order.
After(s, q) == LET seqs == Ascending({x \in DOMAIN rows[s] : x > q})
               IN  [i \in DOMAIN seqs |-> rows[s][seqs[i]]]

\* Mutant: the version is the greatest sequence among the events.
MaxRowsOnly(s) == Greatest(DOMAIN rows[s])

\* committed_stream_version: events can be compacted away, so the snapshot
\* remembers how far they went.
CommittedVersion(s) == Greatest(DOMAIN rows[s] \cup {snap[s].last})

\* get_snapshot: a Retain entity drops a snapshot it cannot deserialize and
\* replays from the start; a compactable one refuses to load at all.  The
\* envelope of a binding's snapshot is no form of the entity's state.
SnapshotReadable(s) == snap[s] = NoSnapshot \/ snap[s].shape = shape[s]
OpaqueShape == MaxDeploys + 2
LoadRefused(s) == ~SnapshotReadable(s) /\ policy[s] = "CompactAfterSnapshot"
UsableSnapshot(s) == IF SnapshotReadable(s) THEN snap[s] ELSE NoSnapshot

\* insert_serialized_events_batch: the rows of a batch after sequence q; the
\* UNIQUE key on (type, id, sequence) refuses a taken sequence.
Sequences(q, batch) == q + 1 .. q + Len(batch)
Taken(s, q, batch) == Sequences(q, batch) \cap DOMAIN rows[s] # {}
Insert(s, q, batch) ==
    [x \in DOMAIN rows[s] \cup Sequences(q, batch) |->
        IF x \in Sequences(q, batch) THEN batch[x - q] ELSE rows[s][x]]

\* Whether cqrs-es asks for a snapshot with this commit: the batch reaches
\* the next multiple of SNAPSHOT_SIZE.
SnapshotDue(q, batch) == (q + Len(batch)) \div SnapshotSize > q \div SnapshotSize

\* events_follow_version and the version check inside the transaction.
AtExpected(s, expected) == CommittedVersion(s) = expected

\* The per-job inserts of a commit: a job id already used refuses it all.
JobFree(j) == j = NoJob \/ j \notin jobs
WithJob(j) == jobs \cup ({j} \ {NoJob})

\* fx: what a handler may decide (ADR-0009), any events or exactly one job,
\* whose only event is the intent the framework writes itself.
Effect(batch, j) == j # NoJob => Len(batch) = 1

-----------------------------------------------------------------------------
(***************************************************************************)
(* SchemaRegistry: one aggregate for all types, without snapshots.         *)
(***************************************************************************)

VersionUpdated(s, v) == [name |-> s, version |-> v]

\* originate and evolve: the first event makes the map, later ones insert.
RegistryEvolve(versions, e) ==
    [s \in DOMAIN versions \cup {e.name} |-> IF s = e.name THEN e.version ELSE versions[s]]

\* load_registry: a replay of the whole log.
LoadRegistry ==
    LET fold[i \in 0..Len(registry)] ==
            IF i = 0 THEN <<>> ELSE RegistryEvolve(fold[i - 1], registry[i])
    IN  fold[Len(registry)]

Unregistered == 0
VersionOf(s) == IF s \in DOMAIN LoadRegistry THEN LoadRegistry[s] ELSE Unregistered

\* initialize and transition: a version already on record is uneventful.
Register(s, v) == IF VersionOf(s) = v THEN <<>> ELSE <<VersionUpdated(s, v)>>

-----------------------------------------------------------------------------
Idle == [pc |-> "idle"]

Init == /\ policy \in [Stream -> {"Retain", "CompactAfterSnapshot"}]
        /\ rows = [s \in Stream |-> <<>>]
        /\ snap = [s \in Stream |-> NoSnapshot]
        /\ jobs = {}
        /\ LET known == {VersionUpdated(s, Registered[policy[s]]) :
                             s \in {s \in Stream : Registered[policy[s]] # Unregistered}}
           IN  /\ registry \in [1..Cardinality(known) -> known]
               /\ Range(registry) = known
        /\ schema = [s \in Stream |-> 1]
        /\ shape = [s \in Stream |-> 1]
        /\ built = [s \in Stream |-> "no"]
        /\ sender = [w \in Sender |-> Idle]

Durable == <<rows, snap, jobs, registry>>
Program == <<policy, schema, shape, built>>

(***************************************************************************)
(* Store::send, send_command, and (up to Return) Store::load.              *)
(***************************************************************************)

\* get_snapshot, the first statement of load_aggregate.  `whole` is history: no
\* event the second statement is to read has been deleted since.
LoadSnapshot(w, s) ==
    /\ sender[w] = Idle
    /\ w \in Cli \/ built[s] = "ready"
    /\ ~LoadRefused(s)
    /\ sender' = [sender EXCEPT ![w] =
           [pc |-> "snapshot", stream |-> s, whole |-> TRUE,
            agg |-> UsableSnapshot(s).state, seq |-> UsableSnapshot(s).last]]
    /\ UNCHANGED <<Durable, Program>>

\* Mutant: the events after the newest snapshot, not after the one just read.
LoadEventsAfterNewest(w) ==
    LET c == sender[w]
        tail == After(c.stream, UsableSnapshot(c.stream).last)
    IN  /\ c.pc = "snapshot"
        /\ Opaque \notin Range(tail)
        /\ sender' = [sender EXCEPT ![w] =
               [pc |-> "loaded", stream |-> c.stream, whole |-> c.whole,
                agg |-> Replay(c.agg, tail),
                seq |-> Greatest(DOMAIN rows[c.stream] \cup {c.seq})]]
        /\ UNCHANGED <<Durable, Program>>

\* get_last_events, the second statement: whatever is there by then.
LoadEvents(w) ==
    LET c == sender[w]
        tail == After(c.stream, c.seq)
    IN  /\ c.pc = "snapshot"
        /\ Opaque \notin Range(tail)
        /\ sender' = [sender EXCEPT ![w] =
               [pc |-> "loaded", stream |-> c.stream, whole |-> c.whole,
                agg |-> Replay(c.agg, tail),
                seq |-> Greatest(DOMAIN rows[c.stream] \cup {c.seq})]]
        /\ UNCHANGED <<Durable, Program>>

\* A row of a binding among them fails the load.
LoadUndecodable(w) ==
    /\ sender[w].pc = "snapshot"
    /\ Opaque \in Range(After(sender[w].stream, sender[w].seq))
    /\ sender' = [sender EXCEPT ![w] = Idle]
    /\ UNCHANGED <<Durable, Program>>

\* Lifecycle::handle: the decision of initialize or transition, run through a
\* scratch copy so that no event the entity cannot take is ever committed.
\* A dispatch is one event and one job, buffered for the commit.
Handle(w, batch, j) ==
    LET c == sender[w]
    IN  /\ c.pc = "loaded"
        /\ c.agg.tag # "Failed"
        /\ Effect(batch, j)
        \* A dispatched job's id is a fresh UUID.
        /\ \A v \in Sender : sender[v].pc = "handled" => j \in {NoJob} \/ sender[v].job # j
        /\ JobFree(j)
        /\ Replay(c.agg, batch).tag # "Failed"
        /\ sender' = [sender EXCEPT ![w] =
               [pc |-> "handled", stream |-> c.stream, whole |-> c.whole, agg |-> c.agg,
                seq |-> c.seq, batch |-> batch, job |-> j]]
        /\ UNCHANGED <<Durable, Program>>

\* No commit follows: a plain load, a refused or an uneventful command.
Return(w) == /\ sender[w].pc = "loaded"
             /\ sender' = [sender EXCEPT ![w] = Idle]
             /\ UNCHANGED <<Durable, Program>>

\* SqliteEventRepository::persist -> commit_serialized, with no expected
\* version: events, snapshot and job in one transaction, or a conflict.
Persist(w) ==
    LET c == sender[w]
        s == c.stream
        last == c.seq + Len(c.batch)
    IN  /\ c.pc = "handled"
        /\ sender' = [sender EXCEPT ![w] = Idle]
        /\ ~Taken(s, c.seq, c.batch) /\ JobFree(c.job)
        /\ rows' = [rows EXCEPT ![s] = Insert(s, c.seq, c.batch)]
        /\ snap' = IF SnapshotDue(c.seq, c.batch)
                   THEN [snap EXCEPT ![s] = StoredSnapshot(last, Replay(c.agg, c.batch), shape[s])]
                   ELSE snap
        /\ jobs' = WithJob(c.job)
        /\ UNCHANGED <<registry, Program>>

\* The batch meets a taken sequence: the transaction rolls back, and the job
\* buffered for it is dropped with the command's scope.
PersistConflict(w) ==
    LET c == sender[w]
    IN  /\ c.pc = "handled"
        /\ Taken(c.stream, c.seq, c.batch) \/ ~JobFree(c.job)
        /\ sender' = [sender EXCEPT ![w] = Idle]
        /\ UNCHANGED <<Durable, Program>>

-----------------------------------------------------------------------------
(***************************************************************************)
(* The engine's own operations.                                            *)
(***************************************************************************)

\* The events an engine caller proposes at a version.  A native one folds its
\* own streams, so the first is the one that creates the entity; commit_opaque
\* wraps whatever a binding hands it.
Proposed(expected, k) == [i \in 1..k |-> IF expected + i = 1 THEN "open" ELSE "step"]
Wrapped(k) == [i \in 1..k |-> Opaque]

\* Whether commit_serialized accepts: Engine::commit with at_expected_version,
\* and commit_opaque.
CommitAccepted(s, expected, batch, j) ==
    AtExpected(s, expected) /\ ~Taken(s, expected, batch) /\ JobFree(j)

CommitAt(s, expected, batch, j) ==
    /\ CommitAccepted(s, expected, batch, j)
    /\ rows' = [rows EXCEPT ![s] = Insert(s, expected, batch)]
    /\ jobs' = WithJob(j)
    /\ UNCHANGED <<snap, registry, Program, sender>>

\* store_snapshot: refuses a stream with no commit, a sequence ahead of it,
\* and one behind the snapshot it has.  The state is the caller's fold.
SnapshotAccepted(s, q) == /\ CommittedVersion(s) > 0
                          /\ q <= CommittedVersion(s)
                          /\ ~(snap[s] # NoSnapshot /\ snap[s].last > q)

StoreSnapshot(s, q, form) ==
    /\ SnapshotAccepted(s, q)
    /\ snap' = [snap EXCEPT ![s] =
           StoredSnapshot(q, IF q = 0 THEN Uninitialized ELSE Live(q), form)]
    /\ UNCHANGED <<rows, jobs, registry, Program, sender>>

\* discard_snapshot.  The guide forbids it for a compactable entity
\* (docs/cqrs.md), the engine does not look.
DiscardSnapshot(s) ==
    /\ snap[s] # NoSnapshot
    /\ policy[s] = "Retain"
    /\ snap' = [snap EXCEPT ![s] = NoSnapshot]
    /\ UNCHANGED <<rows, jobs, registry, Program, sender>>

\* enqueue_job: event and row together, refused for a used id.
EnqueueJob(j) == /\ JobFree(j)
                 /\ jobs' = WithJob(j)
                 /\ UNCHANGED <<rows, snap, registry, Program, sender>>

-----------------------------------------------------------------------------
(***************************************************************************)
(* Maintenance, deployment and startup.                                    *)
(***************************************************************************)

\* Mutant: the policy is not looked at.
CompactsRetained(s) == TRUE

\* Compaction deletes an event that a load between its two statements needs.
Overtakes(s, c) ==
    /\ c.pc = "snapshot" /\ c.stream = s
    /\ \E x \in DOMAIN rows[s] : c.seq < x /\ x <= snap[s].last

\* compact_events: delete what the snapshot covers; a no-op under Retain.
Compacts(s) == policy[s] # "Retain"
CompactEvents(s) ==
    LET kept == {x \in DOMAIN rows[s] : x > snap[s].last}
    IN  /\ Compacts(s)
        /\ kept # DOMAIN rows[s]
        /\ rows' = [rows EXCEPT ![s] = [x \in kept |-> rows[s][x]]]
        /\ sender' = [w \in Sender |->
               IF Overtakes(s, sender[w]) THEN [sender[w] EXCEPT !.whole = FALSE] ELSE sender[w]]
        /\ UNCHANGED <<snap, jobs, registry, Program>>

\* The process dies: in-flight commands are gone, stores must be rebuilt.
Down == /\ sender' = [w \in Sender |-> Idle]
        /\ built' = [s \in Stream |-> "no"]
        /\ UNCHANGED <<Durable, policy>>

Crash == /\ Down
         /\ <<sender', built'>> # <<sender, built>>
         /\ UNCHANGED <<schema, shape>>

\* A deployment changes how an entity's state serializes, and bumps
\* SCHEMA_VERSION unless the developer forgot.
Deploy(s) == /\ shape[s] <= MaxDeploys
             /\ Down
             /\ shape' = [shape EXCEPT ![s] = @ + 1]
             /\ \E bump \in {0, 1} : schema' = [schema EXCEPT ![s] = @ + bump]

\* Mutant: any changed version clears the snapshots.
ClearRefusedNever(s) == FALSE

\* Reconciler::reconcile_target: an unchanged version clears nothing; a
\* compactable entity with a recorded version is refused; any other change
\* clears the type's snapshots.
ClearRefused(s) == VersionOf(s) # Unregistered /\ policy[s] = "CompactAfterSnapshot"
Reconcile(s) ==
    /\ built[s] = "no"
    /\ VersionOf(s) = schema[s] \/ ~ClearRefused(s)
    /\ snap' = IF VersionOf(s) = schema[s] THEN snap
               ELSE [snap EXCEPT ![s] = NoSnapshot]
    /\ built' = [built EXCEPT ![s] = "reconciled"]
    /\ UNCHANGED <<policy, rows, jobs, registry, schema, shape, sender>>

\* Reconciler::record_target, then the store is handed out.
RecordVersion(s) ==
    /\ built[s] = "reconciled"
    /\ registry' = registry \o Register(s, schema[s])
    /\ built' = [built EXCEPT ![s] = "ready"]
    /\ UNCHANGED <<policy, rows, snap, jobs, schema, shape, sender>>

\* StoreBuilder::build: in this order, for every type, before its first use.
Build(s) == Reconcile(s) \/ RecordVersion(s)

-----------------------------------------------------------------------------
\* Bounds: no stream grows past MaxEvents; native commands go to the streams of
\* NativePolicy.
Room(s, q, k) == q + k <= MaxEvents

Command(w) ==
    \/ \E s \in Stream : LoadSnapshot(w, s)
    \/ LoadEvents(w)
    \/ LoadUndecodable(w)
    \/ \E batch \in UNION {[1..k -> Kind] : k \in 1..MaxBatch}, j \in Job \cup {NoJob} :
          /\ sender[w].pc = "loaded"
          /\ policy[sender[w].stream] \in NativePolicy
          /\ Room(sender[w].stream, sender[w].seq, Len(batch))
          /\ Handle(w, batch, j)
    \/ Return(w)
    \/ Persist(w)
    \/ PersistConflict(w)

Maintain(s) == \/ CompactEvents(s)
               \/ Deploy(s)
               \/ Build(s)

\* Mutant: ids are listed from the events alone.
AllIdsByEvents == {s \in Stream : DOMAIN rows[s] # {}}

\* load_all_ids and count_aggregates: a stream compacted to nothing is still
\* known by its snapshot.
AllIds == {s \in Stream : DOMAIN rows[s] # {} \/ snap[s] # NoSnapshot}

\* The native store; Abi adds the engine's other callers.
Next == \/ \E w \in Sender : Command(w)
        \/ \E s \in Stream : Maintain(s)
        \/ Crash

Spec == Init /\ [][Next]_vars

-----------------------------------------------------------------------------
(***************************************************************************)
(* What must hold.                                                         *)
(***************************************************************************)

\* What the durable rows still say about a stream: its snapshot, whatever
\* form it is serialized in, and the events after it.
DurableState(s) ==
    LET tail == After(s, snap[s].last)
        fold[i \in 0..Len(tail)] == IF i = 0 THEN snap[s].state ELSE Absorb(fold[i - 1], tail[i])
    IN  fold[Len(tail)]

\* A load yields the entity its stream's first events fold to, each absorbed
\* exactly once up to the sequence it reports, whatever commits, snapshot
\* writes, discards, schema recovery and deployments fall between its two
\* statements.  The one thing that can tear it is compaction passing it there,
\* deleting events it had yet to read: a Retain entity is never exposed to that,
\* a compactable one is, and its torn load is not noticed.
LoadIsFold ==
    \A w \in Sender :
        /\ sender[w].pc \in {"loaded", "handled"}
        /\ policy[sender[w].stream] = "Retain" \/ sender[w].whole
        => sender[w].agg = IF sender[w].seq = 0 THEN Uninitialized ELSE Live(sender[w].seq)

\* A load that is not refused never silently starts from less than the whole
\* history (lib.rs:26-30): the snapshot it would use and the events after it
\* reach the committed version with nothing missing between.
NeverSilentlyLost ==
    \A s \in Stream : ~LoadRefused(s) =>
        UsableSnapshot(s).last + 1 .. CommittedVersion(s) \subseteq DOMAIN rows[s]

\* Listing ids misses no entity and invents none: a stream is listed exactly
\* when it has committed, also when compaction left it no event at all.
ListedIffCommitted == AllIds = {s \in Stream : CommittedVersion(s) > 0}

\* The store implements EntityStore: a commit is the only thing that moves a
\* stream, and compaction, snapshot writes, discards, deployments, schema
\* recovery, conflicts and crashes are invisible in version, state and jobs.
Entities == INSTANCE EntityStore
              WITH version <- [s \in Stream |-> CommittedVersion(s)],
                   state <- [s \in Stream |-> DurableState(s)],
                   jobs <- jobs
ImplementsEntityStore == Entities!Spec

\* A sequence number is assigned once: a commit only ever adds rows beyond
\* the version the stream has reached, compacted or not (engine.rs:1826-1828).
SequencesNeverReused ==
    [][\A s \in Stream :
          \A x \in DOMAIN rows'[s] \ DOMAIN rows[s] : x > CommittedVersion(s)]_vars
=============================================================================

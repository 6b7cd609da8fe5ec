----------------------------- MODULE Projection -----------------------------
(***************************************************************************)
(* The materialized view of an entity type, the reactors that run with it, *)
(* and the startup that brings it up to date.                              *)
(*                                                                         *)
(* A command commits its events and then hands them, event by event, to    *)
(* every query of the framework: the reactors registered with the builder, *)
(* here one wrapped in RetryOnBusy, and last the projection.  Nothing ties *)
(* the view to the commit: a process can die between the two, an update    *)
(* can meet a busy database, and a deployment can change the form views    *)
(* are stored in.  StoreBuilder::build repairs all that before it hands    *)
(* the store out.                                                          *)
(*                                                                         *)
(* What a view holds is the sequence of the events folded into it.         *)
(***************************************************************************)
EXTENDS Naturals, Sequences, Functions

CONSTANTS Id,          \* entities of the type
          Writer,      \* concurrent users of the store
          MaxRetries,  \* RETRY_MAX_ATTEMPTS
          MaxEvents,   \* bound: events per entity
          MaxBatch,    \* bound: events per command
          MaxBusy,     \* bound: SQLITE_BUSY answers
          MaxCrashes,  \* bound: crashes
          MaxDeploys   \* bound: deployments

ASSUME ProjectionAssumption ==
    /\ MaxRetries \in Nat /\ MaxEvents \in Nat /\ MaxBusy \in Nat
    /\ MaxBatch \in Nat \ {0}
    /\ MaxCrashes \in Nat /\ MaxDeploys \in Nat

VARIABLES events,      \* events[i]: how many events i has
          view,        \* view[i]: its row in the view table
          registry,    \* the schema version on record
          deployed,    \* the running program: its schema version and view form
          stage,       \* how far StoreBuilder::build has come
          stale,       \* the rows catch_up still has to replay
          replay,      \* the replay in progress
          writer,      \* writer[w]: the command w is finishing
          handled,     \* handled[i]: the events of i the reactor took, in order
          faults,      \* busy answers and crashes so far
          damaged      \* entities that, since their view was last rebuilt, had
                       \* two commands overlap or an update given up

vars == <<events, view, registry, deployed, stage, stale, replay, writer, handled, faults,
          damaged>>
database == <<events, view, registry>>
startup == <<stage, stale, replay>>

-----------------------------------------------------------------------------
NoRow == [version |-> 0, seen |-> <<>>, form |-> 0]
Exists(i) == view[i] # NoRow

\* from_str of the stored payload: fails for another program's form.
Readable(i) == ~Exists(i) \/ view[i].form = deployed.form

Idle == [pc |-> "idle"]
NoReplay == [pc |-> "none"]

\* The sequences lo + 1 .. hi, in order.
Between(lo, hi) == [x \in 1..(hi - lo) |-> lo + x]

Init == /\ events = [i \in Id |-> 0]
        /\ view = [i \in Id |-> NoRow]
        /\ registry = 0
        /\ deployed = [schema |-> 1, form |-> 1]
        /\ stage = "down"
        /\ stale = {}
        /\ replay = NoReplay
        /\ writer = [w \in Writer |-> Idle]
        /\ handled = [i \in Id |-> <<>>]
        /\ faults = [busy |-> 0, crashes |-> 0]
        /\ damaged = {}

Busy == /\ faults.busy < MaxBusy
        /\ faults' = [faults EXCEPT !.busy = @ + 1]

-----------------------------------------------------------------------------
(***************************************************************************)
(* CqrsFramework::execute after the decision: commit, then the queries.    *)
(***************************************************************************)

\* Store::send commits k events of entity i.
Commit(w, i, k) ==
    /\ stage = "ready"
    /\ writer[w] = Idle
    /\ events[i] + k <= MaxEvents
    /\ events' = [events EXCEPT ![i] = @ + k]
    /\ LET batch == Between(events[i], events[i] + k)
       IN  writer' = [writer EXCEPT ![w] =
              [pc |-> "react", id |-> i, batch |-> batch, todo |-> batch, tries |-> 0]]
    /\ damaged' = damaged \cup
          {j \in {i} : \E v \in Writer : writer[v] # Idle /\ writer[v].id = i}
    /\ UNCHANGED <<view, registry, deployed, startup, handled, faults>>

\* send_command: a framework of its own, with no queries.
CliCommit(i) ==
    /\ stage = "down"
    /\ events[i] < MaxEvents
    /\ events' = [events EXCEPT ![i] = @ + 1]
    /\ UNCHANGED <<view, registry, deployed, startup, writer, handled, faults, damaged>>

\* Mutant: a query that had to retry gets its whole batch again.
AdvanceRestarts(c) ==
    IF c.pc = "react" /\ Len(c.todo) = 1 /\ c.tries > 0
    THEN [c EXCEPT !.todo = c.batch, !.tries = 0]
    ELSE IF Len(c.todo) > 1 THEN [c EXCEPT !.todo = Tail(@), !.tries = 0,
                                           !.pc = IF @ = "react" THEN "react" ELSE "load"]
    ELSE IF c.pc = "react" THEN [c EXCEPT !.todo = c.batch, !.pc = "load", !.tries = 0]
    ELSE Idle

\* ReactorBridge::dispatch: on to the next event, whatever became of this
\* one; after the last, on to the next query.
Advance(c) ==
    IF Len(c.todo) > 1 THEN [pc |-> IF c.pc = "react" THEN "react" ELSE "load",
                             id |-> c.id, batch |-> c.batch, todo |-> Tail(c.todo), tries |-> 0]
    ELSE IF c.pc = "react" THEN [c EXCEPT !.todo = c.batch, !.pc = "load", !.tries = 0]
    ELSE Idle

\* retry_with_backoff and the loop of Projection::react: the same event once
\* more, while the budget lasts; then it is given up with a log line.
Retried(c) == c.tries < MaxRetries
Retry(w, pc) ==
    writer' = [writer EXCEPT ![w] =
        IF Retried(@) THEN [pc |-> pc, id |-> @.id, batch |-> @.batch, todo |-> @.todo,
                            tries |-> @.tries + 1]
        ELSE Advance(@)]

\* RetryOnBusy::react: the inner reactor takes the event, or fails for good.
React(w) ==
    LET c == writer[w]
    IN  /\ c.pc = "react"
        /\ \/ handled' = [handled EXCEPT ![c.id] = Append(@, Head(c.todo))]
           \/ UNCHANGED handled
        /\ writer' = [writer EXCEPT ![w] = Advance(c)]
        /\ UNCHANGED <<database, deployed, startup, faults, damaged>>

\* A busy attempt has taken nothing: not the code but the contract of
\* IdempotentReactor says so.
ReactBusy(w) ==
    /\ writer[w].pc = "react"
    /\ Busy
    /\ Retry(w, "react")
    /\ UNCHANGED <<database, deployed, startup, handled, damaged>>

\* Projection::react, the load: a payload of another form is an error that no
\* retry helps, and the event passes the view by.
LoadView(w) ==
    LET c == writer[w]
    IN  /\ c.pc = "load"
        /\ writer' = [writer EXCEPT ![w] =
              IF Readable(c.id)
              THEN [pc |-> "update", id |-> c.id, batch |-> c.batch, todo |-> c.todo,
                    tries |-> c.tries, version |-> view[c.id].version,
                    seen |-> Append(view[c.id].seen, Head(c.todo))]
              ELSE Advance(c)]
        /\ UNCHANGED <<database, deployed, startup, handled, faults, damaged>>

\* update_view writes: version 0 inserts a row that must not exist, any other
\* updates the row still at that version.
RowAtVersion(i, version) == IF version = 0 THEN ~Exists(i) ELSE view[i].version = version

UpdateView(w) ==
    LET c == writer[w]
    IN  /\ c.pc = "update"
        /\ RowAtVersion(c.id, c.version)
        /\ view' = [view EXCEPT ![c.id] =
              [version |-> c.version + 1, seen |-> c.seen, form |-> deployed.form]]
        /\ writer' = [writer EXCEPT ![w] = Advance(c)]
        /\ UNCHANGED <<events, registry, deployed, startup, handled, faults, damaged>>

\* The row moved: an update that touches no row is a conflict and is tried
\* again from the load; an insert that finds a row is a plain database error,
\* and the event passes the view by.
UpdateRefused(w) ==
    LET c == writer[w]
    IN  /\ c.pc = "update"
        /\ ~RowAtVersion(c.id, c.version)
        /\ IF c.version = 0 THEN writer' = [writer EXCEPT ![w] = Advance(c)]
                            ELSE Retry(w, "load")
        /\ damaged' = damaged \cup {c.id}
        /\ UNCHANGED <<database, deployed, startup, handled, faults>>

ViewBusy(w) ==
    /\ writer[w].pc \in {"load", "update"}
    /\ Busy
    /\ Retry(w, "load")
    /\ damaged' = IF Retried(writer[w]) THEN damaged ELSE damaged \cup {writer[w].id}
    /\ UNCHANGED <<database, deployed, startup, handled>>

-----------------------------------------------------------------------------
(***************************************************************************)
(* StoreBuilder::build, catch_up and the rebuilds.                         *)
(***************************************************************************)

\* Reconciler::reconcile: a changed schema version rebuilds every view, an
\* unchanged one only catches up.
Reconcile ==
    /\ stage = "down"
    /\ stage' = IF registry = deployed.schema THEN "catch_up" ELSE "rebuild"
    /\ UNCHANGED <<database, deployed, stale, replay, writer, handled, faults, damaged>>

\* rebuild_all deletes the rows; the replay follows.
RebuildAll ==
    /\ stage = "rebuild"
    /\ view' = [i \in Id |-> NoRow]
    /\ damaged' = {}
    /\ stage' = "catch_up"
    /\ UNCHANGED <<events, registry, deployed, stale, replay, writer, handled, faults>>

\* An operator rebuilds one view, while nobody sends commands.
Rebuild(i) ==
    /\ stage = "ready"
    /\ \A w \in Writer : writer[w] = Idle
    /\ Exists(i)
    /\ view' = [view EXCEPT ![i] = NoRow]
    /\ damaged' = damaged \ {i}
    /\ stage' = "catch_up"
    /\ UNCHANGED <<events, registry, deployed, stale, replay, writer, handled, faults>>

\* Mutant: the query starts from the view table.
BehindInner(i) == Exists(i) /\ events[i] > view[i].version

\* catch_up's query, driven from the events table so that an entity without
\* a row is found too.
Behind(i) == events[i] > view[i].version
FindStale ==
    /\ stage = "catch_up"
    /\ stale' = {[id |-> i, version |-> view[i].version, max |-> events[i]] :
                    i \in {i \in Id : Behind(i)}}
    /\ stage' = "replay"
    /\ UNCHANGED <<database, deployed, replay, writer, handled, faults, damaged>>

\* Mutant: the replay goes on from the version of a row it could not read.
ReplayFromStale(r) == r.version

\* replay_missed_events: a missing or unreadable row starts from nothing, so
\* its replay starts from the first event.
ReplayFrom(r) == IF Exists(r.id) /\ Readable(r.id) THEN r.version ELSE 0
ReplayLoad(r) ==
    /\ stage = "replay"
    /\ replay = NoReplay
    /\ r \in stale
    /\ replay' = [pc |-> "fetch", row |-> r, from |-> ReplayFrom(r),
                  seen |-> IF Exists(r.id) /\ Readable(r.id) THEN view[r.id].seen ELSE <<>>]
    /\ UNCHANGED <<database, deployed, stage, stale, writer, handled, faults, damaged>>

\* Its second query: every event after that, however many there are by now.
ReplayFetch ==
    /\ replay.pc = "fetch"
    /\ replay' = [pc |-> "write", row |-> replay.row,
                  seen |-> replay.seen \o Between(replay.from, events[replay.row.id])]
    /\ UNCHANGED <<database, deployed, stage, stale, writer, handled, faults, damaged>>

\* The row is written at the version the first query saw, past the lock.
ReplayWrite ==
    /\ replay.pc = "write"
    /\ view' = [view EXCEPT ![replay.row.id] =
          [version |-> replay.row.max, seen |-> replay.seen, form |-> deployed.form]]
    /\ stale' = stale \ {replay.row}
    /\ replay' = NoReplay
    /\ UNCHANGED <<events, registry, deployed, stage, writer, handled, faults, damaged>>

\* Mutant: the version is recorded before the views are repaired.
RecoveredEarly == stage \in {"rebuild", "catch_up", "replay"} /\ replay = NoReplay

\* record_version, only when every view has been repaired.
Recovered == stage = "replay" /\ stale = {} /\ replay = NoReplay
RecordVersion ==
    /\ Recovered
    /\ registry' = deployed.schema
    /\ stage' = "ready"
    /\ UNCHANGED <<events, view, deployed, stale, replay, writer, handled, faults, damaged>>

-----------------------------------------------------------------------------
\* The process dies: commands lose the queries they had not reached.
Die == /\ stage' = "down"
       /\ stale' = {}
       /\ replay' = NoReplay
       /\ writer' = [w \in Writer |-> Idle]
       /\ UNCHANGED <<database, handled, damaged>>

Crash == /\ stage # "down"
         /\ faults.crashes < MaxCrashes
         /\ faults' = [faults EXCEPT !.crashes = @ + 1]
         /\ Die
         /\ UNCHANGED deployed

\* A deployment changes the form of the payload; SCHEMA_VERSION is bumped
\* with it, unless the developer forgot.
Deploy == /\ deployed.form <= MaxDeploys
          /\ Die
          /\ \E bump \in {0, 1} :
                deployed' = [schema |-> deployed.schema + bump, form |-> deployed.form + 1]
          /\ UNCHANGED faults

-----------------------------------------------------------------------------
Dispatch(w) == \/ React(w) \/ ReactBusy(w)
               \/ LoadView(w) \/ UpdateView(w) \/ UpdateRefused(w) \/ ViewBusy(w)

Recovery == \/ Reconcile \/ RebuildAll \/ FindStale
            \/ \E r \in stale : ReplayLoad(r)
            \/ ReplayFetch \/ ReplayWrite \/ RecordVersion

Next == \/ \E w \in Writer, i \in Id, k \in 1..MaxBatch : Commit(w, i, k)
        \/ \E i \in Id : CliCommit(i) \/ Rebuild(i)
        \/ \E w \in Writer : Dispatch(w)
        \/ Recovery
        \/ Crash \/ Deploy

Spec == Init /\ [][Next]_vars

\* The process is always started again and its tasks are scheduled.
Fairness == WF_vars(Recovery) /\ \A w \in Writer : WF_vars(Dispatch(w))
FairSpec == Spec /\ Fairness

-----------------------------------------------------------------------------
\* A view at version v is the fold of the first v events, each once and in
\* order, whatever commits, crashes, busy answers, replays and rebuilds came
\* between, as long as commands on the entity do not overlap and no update
\* of it is given up; a rebuild makes good a view that was damaged so.
ViewIsFold == \A i \in Id \ damaged : view[i].seen = Between(0, view[i].version)

\* Retries make concurrent commands safe (projection.rs:540-541, "enough for
\* any realistic burst of concurrent writers on the same aggregate"): with no
\* fault at all, a view is the fold of the first events of its entity.
ConcurrentIsFold == \A i \in Id : view[i].seen = Between(0, view[i].version)

\* What load and load_all answer: the rows that are there and deserialize.
Answered(i) == Exists(i) /\ Readable(i)
LoadAll == {i \in Id : Answered(i)}

\* Between commands the view is current: whoever sends a command and reads
\* the projection finds its events, and after startup everyone finds
\* everything, but for rows in a form the program cannot read and for damaged
\* entities: those that, since their view was last rebuilt, had two commands
\* overlap or an update given up.
SettledIsCurrent ==
    stage = "ready" /\ (\A w \in Writer : writer[w] = Idle) =>
        \A i \in Id \ damaged : Readable(i) => view[i].version = events[i]

\* A schema version on record means every view was rebuilt for it: rows that
\* do not deserialize exist only where a form changed under one version.
RecordedIsRebuilt ==
    stage = "ready" /\ deployed.schema = deployed.form => \A i \in Id : Readable(i)

\* The reactor takes no event of an entity twice, whatever a busy database
\* makes it try again, whoever commits at the same time and however often the
\* process starts: the repairs of startup replay into the view alone.
HandledOnce == \A i \in Id : IsInjective(handled[i])

\* Every committed event reaches the view, or the view is one the running
\* program cannot read.
ViewCatchesUp ==
    \A i \in Id, n \in 1..MaxEvents :
        events[i] >= n ~> (view[i].version >= n \/ ~Readable(i) \/ i \in damaged)
=============================================================================

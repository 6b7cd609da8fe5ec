-------------------------------- MODULE Abi --------------------------------
(***************************************************************************)
(* The data calls of the C ABI over the event store: es_load_stream,       *)
(* es_current_version, es_commit, es_commit_with_job, the snapshot and     *)
(* schema exports, es_job_enqueue and es_job_poll.  (Handles are the       *)
(* subject of StoreHandle, claims of ClaimTokens.)                         *)
(*                                                                         *)
(* A call judges its request (AbiRequests), runs one engine operation and  *)
(* answers OK or an error class.  A call is one step, but for the conflict *)
(* of a commit, whose detail is read back from the store afterwards.       *)
(* Native programs share the database: they send commands (EventStore) and *)
(* use the engine without the ABI.                                         *)
(***************************************************************************)
EXTENDS EventStore, AbiRequests

CONSTANTS Caller,        \* threads of the binding
          MaxPage,       \* MAX_LIST_ITEMS: rows of one es_load_stream answer
          MaxResponse    \* MAX_RESPONSE_BYTES, in chunks of an encoded page

ASSUME AbiAssumption == MaxPage \in Nat \ {0} /\ MaxResponse \in Nat

VARIABLES call,          \* call[c]: the conflict c is about to report, if any
          reply          \* reply[c]: the class and detail of c's last answer

abiVars == <<vars, call, reply>>

-----------------------------------------------------------------------------
\* No call in progress, or no answer yet.
None == [class |-> "OK"]

\* write_error, and ffi_call's success path.
Answer(c, class) == reply' = [reply EXCEPT ![c] = [class |-> class]]

Free(c) == call[c] = None

\* A request with faults is refused before the engine is asked.
RefusalClass == UNION {{ClassOf(FirstFault(export, {fault})) : fault \in Range(export)} :
                       export \in DataCalls}
Refuse(c) ==
    /\ Free(c)
    /\ \E class \in RefusalClass : Answer(c, class)
    /\ UNCHANGED <<vars, call>>

\* An es_commit of n events whose batch alone is at fault.
RefuseBatch(c, n) ==
    /\ Free(c)
    /\ BatchFaults(n) # {}
    /\ reply' = [reply EXCEPT ![c] =
           [class |-> ClassOf(FirstFault(es_commit, BatchFaults(n))), asked |-> n]]
    /\ UNCHANGED <<vars, call>>

\* Mutant: the page starts one sequence too late.
PageSkips(s, after) ==
    LET seqs == Ascending({x \in DOMAIN rows[s] : x > after + 1})
    IN  SubSeq(seqs, 1, IF Len(seqs) < MaxPage THEN Len(seqs) ELSE MaxPage)

\* load_events_page_bounded: the first rows after an exclusive checkpoint.
Page(s, after) ==
    LET seqs == Ascending({x \in DOMAIN rows[s] : x > after})
    IN  SubSeq(seqs, 1, IF Len(seqs) < MaxPage THEN Len(seqs) ELSE MaxPage)

\* encode_event_page: version and header, then one chunk per event, its size
\* what the stored event happens to need.  Native rows are rendered as their
\* JSON, a binding's as the bytes in its envelope.
EncodedPage(page, size) == Written(MaxResponse, <<1, 1>> \o [i \in DOMAIN page |-> size])

\* What c was given of s, if its last calls read s page after page.
Read(c, s) == IF "got" \in DOMAIN reply[c] /\ reply[c].stream = s THEN reply[c].got ELSE <<>>

\* es_load_stream, for the first page or the one after those c has read: a
\* page, or a refusal when it is too large in storage, in one payload or once
\* encoded.
LoadStream(c, s, read, size) ==
    LET page == Page(s, IF read = <<>> THEN 0 ELSE read[Len(read)])
        fits == EncodedPage(page, size).overflow = 0
    IN  /\ Free(c)
        /\ \/ /\ fits
              /\ reply' = [reply EXCEPT ![c] =
                     [class |-> "OK", stream |-> s, got |-> read \o page]]
           \/ ~fits /\ Answer(c, "RESOURCE_LIMIT")
           \/ page # <<>> /\ Answer(c, EngineClass("EventPageTooLarge"))
        /\ UNCHANGED <<vars, call>>

\* es_current_version.
GetVersion(c, s) ==
    /\ Free(c)
    /\ Answer(c, "OK")
    /\ UNCHANGED <<vars, call>>

\* commit_result: es_commit and es_commit_with_job at an expected version.
\* An instant out of range is met inside the transaction, after the version
\* and the batch and before the job's id.
Commit(c, s, expected, k, j, instant) ==
    LET batch == Wrapped(k)
    IN  /\ Free(c)
        /\ \/ /\ instant = "valid"
              /\ CommitAt(s, expected, batch, j)
              /\ Answer(c, "OK")
              /\ UNCHANGED call
           \/ /\ instant = "invalid"
              /\ CommitAccepted(s, expected, batch, NoJob)
              /\ Answer(c, EngineClass("InvalidInstant"))
              /\ UNCHANGED <<vars, call>>
           \/ /\ ~CommitAccepted(s, expected, batch, IF instant = "valid" THEN j ELSE NoJob)
              /\ call' = [call EXCEPT ![c] = [class |-> "CONFLICT", stream |-> s,
                                              seen |-> CommittedVersion(s)]]
              /\ UNCHANGED <<vars, reply>>

\* The conflict's detail: the stream version, read after the transaction.
ReportConflict(c) ==
    /\ ~Free(c)
    /\ reply' = [reply EXCEPT ![c] =
           [class |-> "CONFLICT", seen |-> call[c].seen,
            actual |-> CommittedVersion(call[c].stream)]]
    /\ call' = [call EXCEPT ![c] = None]
    /\ UNCHANGED vars

\* es_snapshot_load, snapshot_to_wire: a native program's snapshot is not in
\* the envelope, and a stored payload may be over the ABI's limit.
LoadSnapshotBytes(c, s) ==
    /\ Free(c)
    /\ \/ snap[s] = NoSnapshot /\ Answer(c, "OK")
       \/ /\ snap[s] # NoSnapshot /\ snap[s].shape = OpaqueShape
          /\ Answer(c, "OK") \/ Answer(c, ClassOf("payload"))
       \/ /\ snap[s] # NoSnapshot /\ snap[s].shape # OpaqueShape
          /\ Answer(c, EngineClass("Json"))
    /\ UNCHANGED <<vars, call>>

\* Why store_snapshot_in_transaction refuses a snapshot.
SnapshotRefusal(s, q) == CASE CommittedVersion(s) = 0 -> "EmptySnapshotUpdate"
                           [] CommittedVersion(s) \in 1..q - 1 -> "SnapshotBeyondCurrentVersion"
                           [] OTHER -> "OptimisticLock"

\* es_snapshot_store: every engine refusal is reported as a storage failure.
SnapshotStore(c, s, q) ==
    /\ Free(c)
    /\ \/ /\ StoreSnapshot(s, q, OpaqueShape)
          /\ Answer(c, "OK")
       \/ /\ ~SnapshotAccepted(s, q)
          /\ Answer(c, EngineClass(SnapshotRefusal(s, q)))
          /\ UNCHANGED vars
    /\ UNCHANGED call

\* es_snapshot_discard.
SnapshotDiscard(c, s) ==
    /\ Free(c)
    /\ DiscardSnapshot(s)
    /\ Answer(c, "OK")
    /\ UNCHANGED call

\* es_schema_reconcile: the refusal to clear a compacted type's snapshots is
\* an invalid state, not a storage failure.
SchemaReconcile(c, s) ==
    /\ Free(c)
    /\ \/ /\ Reconcile(s)
          /\ Answer(c, "OK")
       \/ /\ built[s] = "no" /\ VersionOf(s) # schema[s] /\ ClearRefused(s)
          /\ Answer(c, EngineClass("CompactedSnapshotClear"))
          /\ UNCHANGED vars
    /\ UNCHANGED call

\* es_schema_record.
SchemaRecord(c, s) ==
    /\ Free(c)
    /\ RecordVersion(s)
    /\ Answer(c, "OK")
    /\ UNCHANGED call

\* es_job_enqueue: a used id is the backend's error, a storage failure.
JobEnqueue(c, j) ==
    /\ Free(c)
    /\ \/ /\ EnqueueJob(j)
          /\ Answer(c, "OK")
       \/ /\ ~JobFree(j)
          /\ Answer(c, JobRuntimeClass("Backend"))
          /\ UNCHANGED vars
    /\ UNCHANGED call

\* es_job_poll.
JobPoll(c) == /\ Free(c)
              /\ Answer(c, "OK")
              /\ UNCHANGED <<vars, call>>

\* A caller dies with its process; the store's other users go on.
Lose(c) == /\ ~Free(c)
           /\ call' = [call EXCEPT ![c] = None]
           /\ UNCHANGED <<vars, reply>>

\* A native program that uses the engine directly: Engine::commit at an
\* expected version, and store_snapshot with the entity's own JSON.
EngineCommit(s, expected, k) ==
    /\ CommitAt(s, expected, Proposed(expected, k), NoJob)
    /\ UNCHANGED <<call, reply>>
EngineSnapshot(s, q) ==
    /\ StoreSnapshot(s, q, shape[s])
    /\ UNCHANGED <<call, reply>>

-----------------------------------------------------------------------------
AbiInit == /\ Init
           /\ call = [c \in Caller |-> None]
           /\ reply = [c \in Caller |-> None]

\* A caller makes one call at a time.
Calls(c) ==
    \/ Refuse(c)
    \/ \E n \in 0..MaxCommitEvents + 1 : RefuseBatch(c, n)
    \/ \E s \in Stream, size \in {1, MaxResponse} :
          \E read \in {<<>>, Read(c, s)} : LoadStream(c, s, read, size)
    \/ \E s \in Stream : GetVersion(c, s)
    \/ \E s \in Stream, expected \in 0..MaxEvents, k \in 1..MaxBatch, j \in Job \cup {NoJob},
          instant \in {"valid", "invalid"} :
          /\ Room(s, expected, k)
          /\ instant = "invalid" => j # NoJob
          /\ Commit(c, s, expected, k, j, instant)
    \/ ReportConflict(c)
    \/ \E s \in Stream : LoadSnapshotBytes(c, s)
    \/ \E s \in Stream, q \in 0..MaxEvents : SnapshotStore(c, s, q)
    \/ \E s \in Stream : SnapshotDiscard(c, s) \/ SchemaReconcile(c, s) \/ SchemaRecord(c, s)
    \/ \E j \in Job : JobEnqueue(c, j)
    \/ JobPoll(c)
    \/ Lose(c)

Engines(s) ==
    \/ \E expected \in 0..MaxEvents, k \in 1..MaxBatch :
          Room(s, expected, k) /\ EngineCommit(s, expected, k)
    \/ \E q \in 0..MaxEvents : EngineSnapshot(s, q)

AbiNext == \/ Next /\ UNCHANGED <<call, reply>>
           \/ \E c \in Caller : Calls(c)
           \/ \E s \in Stream : Engines(s)

AbiSpec == AbiInit /\ [][AbiNext]_abiVars

-----------------------------------------------------------------------------
\* The version a conflict reports is never behind the one that refused the
\* commit (lib.rs:2189-2193), whatever compaction, snapshot writes, schema
\* recovery or other writers did between the two transactions.
ConflictNotBehind ==
    \A c \in Caller : reply[c].class = "CONFLICT" => reply[c].actual >= reply[c].seen

\* A batch over the limit is answered RESOURCE_LIMIT (SPEC.md:301) although
\* the decoder stops reading before its end, so that what it kept no longer
\* encodes to the request, which alone would be malformed input; one within
\* the limit is kept whole.  (For es_commit_with_job this is so up to one
\* event too many: beyond, the decoder meets an event where it expects the
\* job.)
OversizeIsResourceLimit ==
    \A c \in Caller : "asked" \in DOMAIN reply[c] =>
        /\ reply[c].asked \notin 1..MaxCommitEvents
        /\ reply[c].asked > MaxCommitEvents => reply[c].class = "RESOURCE_LIMIT"

\* Whoever reads a stream page after page from the last sequence it was given
\* gets every event once and in order, whatever is committed meanwhile and
\* however a page is cut: an event passed over is one that compaction has
\* deleted.
PagedReadWhole ==
    \A c \in Caller : "got" \in DOMAIN reply[c] /\ reply[c].got # <<>> =>
        LET got == reply[c].got
        IN  /\ \A n \in 2..Len(got) : got[n - 1] < got[n]
            /\ ((1..got[Len(got)]) \ Range(got)) \cap DOMAIN rows[reply[c].stream] = {}
=============================================================================

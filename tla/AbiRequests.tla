---------------------------- MODULE AbiRequests ----------------------------
(***************************************************************************)
(* How the C ABI judges a request and words its answer: what each export   *)
(* checks and in which order, the class every error is reported under, and *)
(* the framing of a page of events.                                        *)
(*                                                                         *)
(* A request is described by what is wrong with it: the set of its faults. *)
(* A helper that checks a request is the sequence of the faults it looks   *)
(* for, so an export is the concatenation of the helpers it calls, and the *)
(* answer to a faulty request is the class of the first fault met.         *)
(***************************************************************************)
EXTENDS Naturals, Sequences

CONSTANT MaxCommitEvents    \* MAX_COMMIT_EVENTS

ASSUME LimitAssumption == MaxCommitEvents \in Nat \ {0}

-----------------------------------------------------------------------------
\* AbiError, by the variants a request alone can cause.
MalformedInput == {"null", "cbor", "canonical", "version", "empty", "overflow", "jobid",
                   "instant", "policy", "zero", "sqlite", "private", "token", "reason"}
ResourceLimit == {"bytes", "count", "identifier", "payload", "text", "list", "timeout", "threads"}
InvalidState == {"out", "deadline"}

\* AbiError::code.
ClassOf(f) == CASE f \in MalformedInput -> "DECODE"
                [] f \in ResourceLimit -> "RESOURCE_LIMIT"
                [] f \in InvalidState -> "STATE"

\* From<EngineError>: what the engine refuses.
EngineClass(e) == CASE e = "EventPageTooLarge" -> "RESOURCE_LIMIT"
                    [] e = "InvalidInstant" -> "DECODE"
                    [] e = "CompactedSnapshotClear" -> "STATE"
                    [] OTHER -> "STORAGE"

\* job_runtime_error: what the job runtime refuses.
JobRuntimeClass(e) ==
    CASE e = "InvalidInstant" -> "DECODE"
      [] e \in {"AttemptExhausted", "InvalidClaimPolicy", "SettlementRefused"} -> "JOB_REFUSAL"
      [] e \in {"Backend", "Projection", "Aggregate"} -> "STORAGE"

-----------------------------------------------------------------------------
\* The helpers, in the words of the code.
require_version == <<"version">>
require_identifier_limit == <<"identifier">>
require_payload_limit == <<"payload">>
require_error_text_limit == <<"text">>
require_commit_event_count == <<"count">>
decode_claim_token == <<"token">>
dead_reason == <<"reason">>
parse_job_id == <<"jobid">>

\* Mutant: the canonical form is compared before the caller's own check.
DecodeCanonicalFirst(validate) == <<"null", "bytes", "cbor", "canonical">> \o validate

\* decode_validated: null pointers, the request limit, CBOR, the caller's
\* check, canonical form.
Decode(validate) == <<"null", "bytes", "cbor">> \o validate \o <<"canonical">>

commit_parts == require_version \o require_identifier_limit \o require_commit_event_count
                    \o <<"empty", "overflow">> \o require_payload_limit

decode_schema_target == Decode(<<>>) \o require_version \o require_identifier_limit \o <<"policy">>

decode_open_options ==
    Decode(<<>>) \o <<"version", "zero">> \o require_identifier_limit
        \o <<"timeout", "sqlite", "private", "threads">>

\* settle_claim_with.
SettleClaimWith(validate) ==
    <<"out">> \o Decode(<<>>) \o validate \o decode_claim_token

-----------------------------------------------------------------------------
\* The exports.  An output pointer is judged before the request, which was
\* decoded earlier but is looked at later.
es_open == <<"out">> \o decode_open_options
es_load_stream == <<"out">> \o Decode(<<>>) \o require_version \o require_identifier_limit
es_current_version == <<"out">> \o Decode(<<>>) \o require_version \o require_identifier_limit
es_commit == Decode(require_commit_event_count) \o commit_parts
es_commit_with_job ==
    Decode(require_commit_event_count) \o commit_parts \o require_identifier_limit
        \o require_payload_limit \o parse_job_id \o <<"instant">>
es_snapshot_load == <<"out">> \o Decode(<<>>) \o require_version \o require_identifier_limit
es_snapshot_store ==
    <<"out">> \o Decode(<<>>) \o require_version \o require_identifier_limit
        \o require_payload_limit
es_snapshot_discard == Decode(<<>>) \o require_version \o require_identifier_limit
es_schema_reconcile == <<"out">> \o decode_schema_target
es_schema_record == decode_schema_target
es_job_enqueue ==
    Decode(<<>>) \o require_version \o require_identifier_limit
        \o require_payload_limit \o parse_job_id \o <<"instant">>
es_job_poll ==
    <<"out">> \o Decode(<<>>) \o require_version \o require_identifier_limit \o <<"list">>
es_job_claim ==
    <<"out">> \o Decode(<<>>) \o require_version \o require_identifier_limit \o <<"zero">>
        \o parse_job_id \o <<"deadline">>
es_job_renew == <<"out">> \o Decode(<<>>) \o require_version \o decode_claim_token
es_job_ack == SettleClaimWith(require_version)
es_job_retry == SettleClaimWith(require_version \o require_error_text_limit)
es_job_defer == SettleClaimWith(require_version)
es_job_dead_letter ==
    SettleClaimWith(require_version \o require_error_text_limit \o dead_reason)

\* The data calls, whose effects are in module Abi.
DataCalls == {es_load_stream, es_current_version, es_commit, es_commit_with_job,
              es_snapshot_load, es_snapshot_store, es_snapshot_discard,
              es_schema_reconcile, es_schema_record, es_job_enqueue, es_job_poll}

\* The fault a call reports: the first its checks meet.
FirstFault(export, faults) ==
    export[CHOOSE i \in DOMAIN export :
               export[i] \in faults /\ \A k \in 1..i - 1 : export[k] \notin faults]

-----------------------------------------------------------------------------
\* CommitEventsVisitor::visit_seq on a batch of n events: it keeps at most the
\* limit and looks one element further, so a batch over the limit is noticed
\* without being read to its end.
CommitEvents(n) ==
    [values |-> IF n <= MaxCommitEvents THEN n ELSE MaxCommitEvents,
     observed |-> IF n <= MaxCommitEvents THEN n ELSE MaxCommitEvents + 1]

\* What is wrong with a well-formed request of n events once decoded: what
\* was kept encodes to the bytes of the request only if nothing was left out.
BatchFaults(n) ==
    {f \in {"count", "canonical", "empty"} :
        \/ f = "count" /\ CommitEvents(n).observed > MaxCommitEvents
        \/ f = "canonical" /\ CommitEvents(n).values # n
        \/ f = "empty" /\ n = 0}

-----------------------------------------------------------------------------
\* write_array_header: the CBOR head of a page of n events, n < 2^16.
ArrayHeader(n) == IF n <= 23 THEN <<128 + n>>
                  ELSE IF n <= 255 THEN <<152, n>>
                  ELSE <<153, n \div 256, n % 256>>

\* What a reader of CBOR makes of a head: major type 4, then the length in
\* the low five bits, in the next byte (24) or in the next two (25).
DecodedLength(head) ==
    LET low == head[1] % 32
    IN  IF low <= 23 THEN low
        ELSE IF low = 24 THEN head[2]
        ELSE head[2] * 256 + head[3]

\* BoundedResponseWriter: chunks are taken while they fit; the first that
\* does not is refused with the size it would have reached.
Written(limit, chunks) ==
    LET w[i \in 0..Len(chunks)] ==
            IF i = 0 THEN [bytes |-> 0, overflow |-> 0]
            ELSE IF w[i - 1].overflow # 0 THEN w[i - 1]
            ELSE IF w[i - 1].bytes + chunks[i] > limit
            THEN [bytes |-> w[i - 1].bytes, overflow |-> w[i - 1].bytes + chunks[i]]
            ELSE [bytes |-> w[i - 1].bytes + chunks[i], overflow |-> 0]
    IN  w[Len(chunks)]

=============================================================================

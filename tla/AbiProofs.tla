----------------------------- MODULE AbiProofs -----------------------------
(***************************************************************************)
(* What the event store and the C ABI over it guarantee for every number   *)
(* of streams, senders, callers and jobs and every bound: the theorems     *)
(* about AbiSpec.  The store's part of the argument is in EventStoreProofs; *)
(* this module adds the calls of the ABI and what their answers keep true  *)
(* once they are given.                                                    *)
(***************************************************************************)
EXTENDS Abi, EventStoreProofs

-----------------------------------------------------------------------------
(* The framing of an answer.                                               *)

\* The header write_array_header puts before a page (lib.rs:1912) is read back
\* by a CBOR reader as the number of events it was written for, at every
\* length it accepts, across the boundaries of its three forms.
THEOREM PageHeaderExact ==
    ASSUME NEW n \in Nat, n < 65536
    PROVE  DecodedLength(ArrayHeader(n)) = n
<1>1. CASE n <= 23
  <2>1. ArrayHeader(n) = <<128 + n>>
      BY <1>1 DEF ArrayHeader
  <2>2. (128 + n) % 32 = n
      BY <1>1
  <2> QED BY <1>1, <2>1, <2>2 DEF DecodedLength
<1>2. CASE n > 23 /\ n <= 255
  <2>1. ArrayHeader(n) = <<152, n>>
      BY <1>2 DEF ArrayHeader
  <2>2. 152 % 32 = 24
      OBVIOUS
  <2> QED BY <2>1, <2>2 DEF DecodedLength
<1>3. CASE n > 255
  <2>1. ArrayHeader(n) = <<153, n \div 256, n % 256>>
      BY <1>3 DEF ArrayHeader
  <2>2. 153 % 32 = 25
      OBVIOUS
  <2>3. (n \div 256) * 256 + (n % 256) = n
      OBVIOUS
  <2> QED BY <2>1, <2>2, <2>3 DEF DecodedLength
<1> QED BY <1>1, <1>2, <1>3

-----------------------------------------------------------------------------
(* The inductive invariant of the calls.                                   *)

\* What was read of a stream with rows r and version v, page after page:
\* sequences in order, none beyond the version, and no row left out.
Whole(r, v, got) ==
    /\ got \in Seq(Nat)
    /\ \A n \in 2..Len(got) : got[n - 1] < got[n]
    /\ got # <<>> => /\ got[Len(got)] <= v
                     /\ ((1..got[Len(got)]) \ Range(got)) \cap DOMAIN r = {}

\* An answer that was given stays true of the store.
Standing(r) ==
    /\ r.class = "CONFLICT" => r.actual >= r.seen
    /\ "got" \in DOMAIN r =>
          /\ r.stream \in Stream
          /\ Whole(rows[r.stream], CommittedVersion(r.stream), r.got)

\* A conflict about to be reported saw a version its stream still has.
Pending(d) == d # None => /\ d.stream \in Stream /\ d.seen \in Nat
                          /\ d.seen <= CommittedVersion(d.stream)

ReplyInv == DOMAIN reply = Caller /\ \A c \in Caller : Standing(reply[c])
CallInv == DOMAIN call = Caller /\ \A c \in Caller : Pending(call[c])

AbiInv == StoreInv /\ ReplyInv /\ CallInv

-----------------------------------------------------------------------------
(* Reading page after page.                                                *)

\* load_events_page_bounded on a sound stream: a run of consecutive rows, the
\* first ones after the checkpoint, as many as a page takes.
LEMMA PageIs ==
    ASSUME StreamInv, NEW s \in Stream, NEW after \in Nat, after <= CommittedVersion(s)
    PROVE  \E m \in Nat, n \in Nat :
              /\ after <= m /\ m + n <= CommittedVersion(s)
              /\ (after + 1..m) \cap DOMAIN rows[s] = {}
              /\ Page(s, after) = [i \in 1..n |-> m + i]
<1>1. PICK lo \in Nat, v \in Nat : Sound(policy[s], rows[s], snap[s], lo, v) /\ CommittedVersion(s) = v
  BY Zenon, Version
<1>2. DOMAIN rows[s] = lo + 1..v /\ lo <= v
  BY <1>1 DEF Sound
<1>3. PICK m \in Nat : m = IF lo < after THEN after ELSE lo
  OBVIOUS
<1>4. after <= m /\ m <= v /\ lo <= m /\ (after < m => m = lo)
  BY <1>1, <1>2, <1>3
<1>5. (after + 1..m) \cap DOMAIN rows[s] = {}
  BY <1>2, <1>4
<1>6. {x \in DOMAIN rows[s] : x > after} = m + 1..v
  BY <1>1, <1>2, <1>3
<1>7. PICK seqs : seqs = [i \in 1..v - m |-> m + i]
  BY Zenon
<1>8. Ascending({x \in DOMAIN rows[s] : x > after}) = seqs
  BY Zenon, <1>4, <1>6, <1>7, AscendingInterval
<1>9. v - m \in Nat /\ Len(seqs) = v - m /\ \A i \in 1..v - m : seqs[i] = m + i
  BY <1>4, <1>7
<1>10. PICK n \in Nat : n = IF Len(seqs) < MaxPage THEN Len(seqs) ELSE MaxPage
  BY Zenon, <1>9, AbiAssumption
<1>11. n <= v - m /\ m + n <= v
  BY <1>4, <1>9, <1>10, AbiAssumption
<1>12. SubSeq(seqs, 1, n) = [i \in 1..n |-> seqs[i]]
  BY <1>9, <1>11
<1>13. SubSeq(seqs, 1, n) = [i \in 1..n |-> m + i]
  <2>1. \A i \in 1..n : seqs[i] = m + i
    BY <1>9, <1>11
  <2> QED
    BY Zenon, <1>12, <2>1
<1>14. Page(s, after) = SubSeq(seqs, 1, n)
  BY Zenon, <1>8, <1>10 DEF Page
<1> QED
  BY Zenon, <1>1, <1>4, <1>5, <1>11, <1>13, <1>14

\* One sequence after another.
LEMMA Concat ==
    ASSUME NEW S, NEW a \in Seq(S), NEW b \in Seq(S)
    PROVE  /\ a \o b \in Seq(S) /\ Len(a \o b) = Len(a) + Len(b)
           /\ \A i \in 1..Len(a) : (a \o b)[i] = a[i]
           /\ \A i \in 1..Len(b) : (a \o b)[Len(a) + i] = b[i]
           /\ Range(a \o b) = Range(a) \cup Range(b)
<1>1. Len(a) \in Nat /\ Len(b) \in Nat /\ DOMAIN a = 1..Len(a) /\ DOMAIN b = 1..Len(b)
  OBVIOUS
<1>2. a \o b \in Seq(S) /\ Len(a \o b) = Len(a) + Len(b) /\ DOMAIN (a \o b) = 1..Len(a) + Len(b)
  OBVIOUS
<1>3. \A i \in 1..Len(a) + Len(b) : (a \o b)[i] = IF i <= Len(a) THEN a[i] ELSE b[i - Len(a)]
  OBVIOUS
<1>4. \A i \in 1..Len(a) : i \in 1..Len(a) + Len(b) /\ i <= Len(a)
  BY <1>1
<1>5. \A i \in 1..Len(b) : /\ Len(a) + i \in 1..Len(a) + Len(b)
                           /\ ~(Len(a) + i <= Len(a)) /\ (Len(a) + i) - Len(a) = i
  BY <1>1
<1>6. \A i \in 1..Len(a) + Len(b) : ~(i <= Len(a)) => i - Len(a) \in 1..Len(b)
  BY <1>1
<1>7. \A i \in 1..Len(a) + Len(b) : i <= Len(a) => i \in 1..Len(a)
  BY <1>1
<1>8. \A i \in 1..Len(a) : (a \o b)[i] = a[i]
  BY Zenon, <1>3, <1>4
<1>9. \A i \in 1..Len(b) : (a \o b)[Len(a) + i] = b[i]
  BY Zenon, <1>3, <1>5
<1>10. ASSUME NEW x \in Range(a \o b) PROVE x \in Range(a) \cup Range(b)
  <2>1. PICK i \in 1..Len(a) + Len(b) : x = (a \o b)[i]
    BY Zenon, <1>2 DEF Range
  <2> QED
    BY Zenon, <1>1, <1>3, <1>6, <1>7, <2>1 DEF Range
<1>11. ASSUME NEW x \in Range(a) \cup Range(b) PROVE x \in Range(a \o b)
  <2>1. CASE x \in Range(a)
    <3>1. PICK i \in 1..Len(a) : x = a[i]
      BY Zenon, <1>1, <2>1 DEF Range
    <3>2. i \in DOMAIN (a \o b) /\ x = (a \o b)[i]
      BY Zenon, <1>2, <1>4, <1>8, <3>1
    <3> QED
      BY Zenon, <3>2 DEF Range
  <2>2. CASE x \in Range(b)
    <3>1. PICK i \in 1..Len(b) : x = b[i]
      BY Zenon, <1>1, <2>2 DEF Range
    <3>2. Len(a) + i \in DOMAIN (a \o b) /\ x = (a \o b)[Len(a) + i]
      BY Zenon, <1>2, <1>5, <1>9, <3>1
    <3> QED
      BY Zenon, <3>2 DEF Range
  <2> QED
    BY Zenon, <2>1, <2>2
<1> QED
  BY Zenon, <1>2, <1>8, <1>9, <1>10, <1>11

\* The next page continues what was read.
LEMMA WholeWithPage ==
    ASSUME NEW r, NEW v \in Nat, NEW got, Whole(r, v, got),
           NEW m \in Nat, NEW n \in Nat, NEW after \in Nat,
           got = <<>> => after = 0, got # <<>> => after = got[Len(got)],
           after <= m, m + n <= v, (after + 1..m) \cap DOMAIN r = {},
           NEW page, page = [i \in 1..n |-> m + i]
    PROVE  Whole(r, v, got \o page)
<1>2. page \in Seq(Nat) /\ Len(page) = n /\ \A i \in 1..n : page[i] = m + i
  OBVIOUS
<1>3. got \in Seq(Nat) /\ Len(got) \in Nat
  BY DEF Whole
<1>4. PICK all : all = got \o page
  BY Zenon
<1>5. /\ all \in Seq(Nat) /\ Len(all) = Len(got) + n
      /\ \A i \in 1..Len(got) : all[i] = got[i]
      /\ \A i \in 1..n : all[Len(got) + i] = m + i
  <2>1. /\ got \o page \in Seq(Nat) /\ Len(got \o page) = Len(got) + Len(page)
        /\ \A i \in 1..Len(got) : (got \o page)[i] = got[i]
        /\ \A i \in 1..Len(page) : (got \o page)[Len(got) + i] = page[i]
    <3>1. got \in Seq(Nat) /\ page \in Seq(Nat)
      BY Zenon, <1>2, <1>3
    <3> QED
      BY SMT, <3>1, Concat
  <2> QED
    BY Zenon, <1>2, <1>4, <2>1
<1>6. CASE n = 0
  <2>1. all = got
    BY <1>2, <1>3, <1>4, <1>6
  <2> QED
    BY Zenon, <1>4, <2>1
<1>7. CASE n # 0
  <2>1. all[Len(all)] = m + n /\ Len(all) # 0 /\ all # <<>>
    BY <1>3, <1>5, <1>7
  <2>2. ASSUME NEW i \in 2..Len(all) PROVE all[i - 1] < all[i]
    <3>1. CASE i <= Len(got)
      <4>1. i \in 2..Len(got) /\ i \in 1..Len(got) /\ i - 1 \in 1..Len(got)
        BY <1>3, <3>1
      <4> QED
        BY Zenon, <1>5, <4>1 DEF Whole
    <3>2. CASE i = Len(got) + 1
      <4>1. Len(got) \in 1..Len(got) /\ i - 1 = Len(got) /\ got # <<>>
        BY <1>3, <3>2
      <4>2. all[i] = m + 1
        BY <1>5, <1>7, <3>2
      <4>3. all[i - 1] = after
        BY Zenon, <1>5, <4>1
      <4> QED
        BY <4>2, <4>3
    <3>3. CASE i > Len(got) + 1
      <4>1. PICK j \in 2..n : i = Len(got) + j /\ i - 1 = Len(got) + (j - 1) /\ j - 1 \in 1..n /\ j \in 1..n
        <5>1. i - Len(got) \in 2..n
          BY <1>3, <1>5, <3>3
        <5>2. /\ i = Len(got) + (i - Len(got)) /\ i - 1 = Len(got) + ((i - Len(got)) - 1)
              /\ (i - Len(got)) - 1 \in 1..n /\ i - Len(got) \in 1..n
          BY SMTT(30), <1>3, <5>1
        <5> QED
          BY Zenon, <5>1, <5>2
      <4>2. all[i] = m + j /\ all[i - 1] = m + (j - 1)
        BY Zenon, <1>5, <4>1
      <4> QED
        BY <4>2
    <3> QED
      BY <1>3, <3>1, <3>2, <3>3
  <2>3. ASSUME NEW x \in 1..m + n, x \in DOMAIN r PROVE x \in Range(all)
    <3>1. CASE x > m
      <4>1. PICK j \in 1..n : x = m + j
        <5>1. x - m \in 1..n /\ x = m + (x - m)
          BY <3>1
        <5> QED
          BY Zenon, <5>1
      <4>2. Len(got) + j \in DOMAIN all
        BY <1>3, <1>5
      <4> QED
        BY Zenon, <1>5, <4>1, <4>2 DEF Range
    <3>2. CASE x <= m
      <4>1. x <= after
        BY <2>3, <3>2
      <4>2. got # <<>> /\ x \in 1..got[Len(got)]
        BY <4>1
      <4>3. x \in Range(got)
        BY Zenon, <2>3, <4>2 DEF Whole
      <4>4. PICK i \in DOMAIN got : x = got[i]
        BY Zenon, <4>3 DEF Range
      <4>5. i \in 1..Len(got) /\ i \in DOMAIN all
        <5>1. DOMAIN got = 1..Len(got) /\ DOMAIN all = 1..Len(got) + n
          BY <1>3, <1>5
        <5>2. 1..Len(got) \subseteq 1..Len(got) + n
          BY <1>3
        <5> QED
          BY Zenon, <5>1, <5>2
      <4> QED
        BY Zenon, <1>5, <4>4, <4>5 DEF Range
    <3> QED
      BY <3>1, <3>2
  <2>4. ((1..all[Len(all)]) \ Range(all)) \cap DOMAIN r = {}
    BY Zenon, <2>1, <2>3
  <2>5. all[Len(all)] <= v
    BY Zenon, <2>1
  <2>6. Whole(r, v, all)
    BY Zenon, <1>5, <2>2, <2>4, <2>5 DEF Whole
  <2> QED
    BY Zenon, <1>4, <2>6
<1> QED
  BY Zenon, <1>6, <1>7

\* What was read stays whole: later rows are beyond it.
LEMMA WholeKept ==
    ASSUME NEW r, NEW v \in Nat, NEW got, Whole(r, v, got),
           NEW r2, NEW v2 \in Nat, v <= v2, \A x \in DOMAIN r2 \ DOMAIN r : x > v
    PROVE  Whole(r2, v2, got)
<1>1. CASE got = <<>>
  BY Zenon, <1>1 DEF Whole
<1>2. CASE got # <<>>
  <2>1. got[Len(got)] \in Nat /\ got[Len(got)] <= v
    BY <1>2 DEF Whole
  <2>2. ASSUME NEW x \in (1..got[Len(got)]) \ Range(got), x \in DOMAIN r2 PROVE FALSE
    <3>1. x <= v
      BY <2>1
    <3>2. x \in DOMAIN r
      BY <2>2, <3>1
    <3> QED
      BY Zenon, <1>2, <2>2, <3>2 DEF Whole
  <2>3. got[Len(got)] <= v2
    BY <2>1
  <2> QED
    BY Zenon, <2>2, <2>3 DEF Whole
<1> QED
  BY Zenon, <1>1, <1>2


-----------------------------------------------------------------------------
(* The classes of the answers.                                             *)

Faults == MalformedInput \cup ResourceLimit \cup InvalidState

\* AbiError::code never answers CONFLICT.
LEMMA FaultClass ==
    ASSUME NEW f \in Faults
    PROVE  /\ ClassOf(f) # "CONFLICT"
           /\ f \in ResourceLimit => ClassOf(f) = "RESOURCE_LIMIT"
<1>1. CASE f \in MalformedInput
  BY <1>1 DEF ClassOf, MalformedInput, ResourceLimit, InvalidState
<1>2. CASE f \in ResourceLimit
  BY <1>2 DEF ClassOf, MalformedInput, ResourceLimit, InvalidState
<1>3. CASE f \in InvalidState
  BY <1>3 DEF ClassOf, MalformedInput, ResourceLimit, InvalidState
<1> QED
  BY Zenon, <1>1, <1>2, <1>3 DEF Faults

\* What an export finds wrong is one of the faults it looks for.
LEMMA FirstFaultIn ==
    ASSUME NEW export \in Seq(Faults), NEW faults, Range(export) \cap faults # {}
    PROVE  \E i \in 1..Len(export) : /\ FirstFault(export, faults) = export[i]
                                     /\ export[i] \in faults /\ export[i] \in Faults
                                     /\ \A k \in 1..i - 1 : export[k] \notin faults
<1> DEFINE T == {i \in 1..Len(export) : export[i] \in faults}
           First(i) == export[i] \in faults /\ \A k \in 1..i - 1 : export[k] \notin faults
<1>1. Len(export) \in Nat /\ DOMAIN export = 1..Len(export) /\ \A i \in 1..Len(export) : export[i] \in Faults
  OBVIOUS
<1>2. T \subseteq Nat
  BY <1>1
<1>3. T # {}
  BY Zenon, <1>1 DEF Range
<1>4. PICK n \in T : \A m \in T : ~(m < n)
  BY Zenon, <1>2, <1>3, Least
<1>5. First(n)
  <2>1. \A k \in 1..n - 1 : k \in 1..Len(export) /\ k < n
    BY <1>1, <1>4
  <2> QED
    BY Zenon, <1>4, <2>1
<1>6. PICK i : i = CHOOSE x \in DOMAIN export : First(x)
  BY Zenon
<1>7. i \in DOMAIN export /\ First(i)
  BY Zenon, <1>1, <1>4, <1>5, <1>6
<1>8. FirstFault(export, faults) = export[i]
  BY Zenon, <1>6 DEF FirstFault
<1> QED
  BY Zenon, <1>1, <1>7, <1>8

\* Sequences of checks put together are sequences of checks.
LEMMA Checks ==
    /\ \A a, b \in Seq(Faults) : a \o b \in Seq(Faults)
    /\ \A f \in Faults : <<f>> \in Seq(Faults)
    /\ <<>> \in Seq(Faults)
    /\ \A f, g \in Faults : <<f, g>> \in Seq(Faults)
  OBVIOUS

\* Each data call looks for faults that AbiError knows.
LEMMA CallsCheckFaults ==
    ASSUME NEW export \in DataCalls
    PROVE  export \in Seq(Faults)
<1>1. /\ "null" \in Faults /\ "bytes" \in Faults /\ "cbor" \in Faults /\ "canonical" \in Faults
      /\ "version" \in Faults /\ "empty" \in Faults /\ "overflow" \in Faults /\ "jobid" \in Faults
      /\ "instant" \in Faults /\ "policy" \in Faults /\ "count" \in Faults
      /\ "identifier" \in Faults /\ "payload" \in Faults /\ "list" \in Faults /\ "out" \in Faults
  BY Zenon DEF Faults, MalformedInput, ResourceLimit, InvalidState
<1>2. /\ require_version \in Seq(Faults) /\ require_identifier_limit \in Seq(Faults)
      /\ require_payload_limit \in Seq(Faults) /\ require_commit_event_count \in Seq(Faults)
      /\ parse_job_id \in Seq(Faults)
  BY Zenon, <1>1, Checks DEF require_version, require_identifier_limit, require_payload_limit,
                             require_commit_event_count, parse_job_id
<1>3. /\ <<"out">> \in Seq(Faults) /\ <<"instant">> \in Seq(Faults) /\ <<"policy">> \in Seq(Faults)
      /\ <<"list">> \in Seq(Faults) /\ <<"canonical">> \in Seq(Faults)
      /\ <<"empty", "overflow">> \in Seq(Faults)
  BY Zenon, <1>1, Checks
<1>4. <<"null", "bytes", "cbor">> \in Seq(Faults)
  BY <1>1
<1>5. ASSUME NEW validate \in Seq(Faults) PROVE Decode(validate) \in Seq(Faults)
  BY Zenon, <1>3, <1>4, Checks DEF Decode
<1>6. Decode(<<>>) \in Seq(Faults) /\ Decode(require_commit_event_count) \in Seq(Faults)
  BY Zenon, <1>2, <1>5, Checks
<1>7. commit_parts \in Seq(Faults) /\ decode_schema_target \in Seq(Faults)
  BY Zenon, <1>2, <1>3, <1>6, Checks DEF commit_parts, decode_schema_target
<1>8. /\ es_load_stream \in Seq(Faults) /\ es_current_version \in Seq(Faults)
      /\ es_commit \in Seq(Faults) /\ es_snapshot_load \in Seq(Faults)
      /\ es_snapshot_discard \in Seq(Faults) /\ es_schema_reconcile \in Seq(Faults)
      /\ es_schema_record \in Seq(Faults)
  BY Zenon, <1>2, <1>3, <1>6, <1>7, Checks
     DEF es_load_stream, es_current_version, es_commit, es_snapshot_load, es_snapshot_discard,
         es_schema_reconcile, es_schema_record
<1>9. /\ es_commit_with_job \in Seq(Faults) /\ es_snapshot_store \in Seq(Faults)
      /\ es_job_enqueue \in Seq(Faults) /\ es_job_poll \in Seq(Faults)
  BY Zenon, <1>2, <1>3, <1>6, <1>7, Checks
     DEF es_commit_with_job, es_snapshot_store, es_job_enqueue, es_job_poll
<1> QED
  BY Zenon, <1>8, <1>9 DEF DataCalls

\* A refused request is never answered CONFLICT.
LEMMA RefusedIsNoConflict ==
    ASSUME NEW class \in RefusalClass
    PROVE  class # "CONFLICT"
<1>1. PICK export \in DataCalls :
          \E fault \in Range(export) : class = ClassOf(FirstFault(export, {fault}))
  BY Zenon DEF RefusalClass
<1>2. PICK fault \in Range(export) : class = ClassOf(FirstFault(export, {fault}))
  BY Zenon, <1>1
<1>3. PICK faults : faults = {fault}
  BY Zenon
<1>4. export \in Seq(Faults) /\ Range(export) \cap faults # {}
  BY Zenon, <1>3, CallsCheckFaults
<1>5. FirstFault(export, faults) \in Faults
  <2>1. PICK i \in 1..Len(export) : /\ FirstFault(export, faults) = export[i]
                                    /\ export[i] \in faults /\ export[i] \in Faults
                                    /\ \A k \in 1..i - 1 : export[k] \notin faults
    BY Zenon, <1>4, FirstFaultIn
  <2> QED
    BY Zenon, <2>1
<1> QED
  BY Zenon, <1>2, <1>3, <1>5, FaultClass

\* Nor is anything the engine or the job runtime refuses in these calls.
LEMMA EngineIsNoConflict ==
    /\ \A e : EngineClass(e) # "CONFLICT"
    /\ JobRuntimeClass("Backend") # "CONFLICT"
    /\ ClassOf("payload") # "CONFLICT"
<1>1. ASSUME NEW e PROVE EngineClass(e) # "CONFLICT"
  BY DEF EngineClass
<1>2. JobRuntimeClass("Backend") = "STORAGE"
  BY DEF JobRuntimeClass
<1>3. "payload" \in Faults
  BY DEF Faults, ResourceLimit
<1> QED
  BY Zenon, <1>1, <1>2, <1>3, FaultClass


\* A batch over the limit is found to be too large before anything else is
\* noticed about it, also before its truncated form is compared with the
\* request; an empty batch is malformed.
LEMMA BatchRefusal ==
    ASSUME NEW n \in Nat, BatchFaults(n) # {}
    PROVE  /\ n \notin 1..MaxCommitEvents
           /\ ClassOf(FirstFault(es_commit, BatchFaults(n))) # "CONFLICT"
           /\ n > MaxCommitEvents => ClassOf(FirstFault(es_commit, BatchFaults(n))) = "RESOURCE_LIMIT"
<1>1. PICK B : B = BatchFaults(n)
  BY Zenon
<1>2. /\ "count" \in B <=> n > MaxCommitEvents
      /\ "canonical" \in B <=> n > MaxCommitEvents
      /\ "empty" \in B <=> n = 0
      /\ B \subseteq {"count", "canonical", "empty"}
  BY <1>1, LimitAssumption DEF BatchFaults, CommitEvents
<1>3. n > MaxCommitEvents \/ n = 0
  BY Zenon, <1>1, <1>2
<1>4. PICK validate, rest : /\ validate = Decode(require_commit_event_count) /\ rest = commit_parts
                            /\ es_commit = validate \o rest
  BY Zenon DEF es_commit
<1>5. PICK h, o, e, ho : /\ h = <<"null", "bytes", "cbor">> /\ o = <<"count">> /\ e = <<"canonical">>
                         /\ ho = h \o o /\ validate = ho \o e
  BY Zenon, <1>4 DEF Decode, require_commit_event_count
<1>6. /\ validate \in Seq(Faults) /\ Len(validate) \in Nat /\ 4 <= Len(validate)
      /\ validate[1] = "null" /\ validate[2] = "bytes" /\ validate[3] = "cbor" /\ validate[4] = "count"
  <2>1. /\ h \in Seq(Faults) /\ o \in Seq(Faults) /\ e \in Seq(Faults)
        /\ Len(h) = 3 /\ h[1] = "null" /\ h[2] = "bytes" /\ h[3] = "cbor" /\ Len(o) = 1 /\ o[1] = "count"
    BY <1>5 DEF Faults, MalformedInput, ResourceLimit
  <2>2. /\ ho \in Seq(Faults) /\ Len(ho) = Len(h) + Len(o)
        /\ \A i \in 1..Len(h) : ho[i] = h[i]
        /\ \A i \in 1..Len(o) : ho[Len(h) + i] = o[i]
    BY SMT, <1>5, <2>1, Concat
  <2>3. ho[1] = "null" /\ ho[2] = "bytes" /\ ho[3] = "cbor" /\ ho[4] = "count" /\ Len(ho) = 4
    BY <2>1, <2>2
  <2>4. /\ validate \in Seq(Faults) /\ Len(validate) = Len(ho) + Len(e)
        /\ \A i \in 1..Len(ho) : validate[i] = ho[i]
    BY SMT, <1>5, <2>1, <2>2, Concat
  <2> QED
    BY <2>1, <2>3, <2>4
<1>7. rest \in Seq(Faults) /\ "empty" \in Range(rest)
  <2>1. PICK a, b, ab, p :
            /\ a = require_version \o require_identifier_limit \o require_commit_event_count
            /\ b = <<"empty", "overflow">> /\ ab = a \o b /\ p = require_payload_limit
            /\ rest = ab \o p
    BY Zenon, <1>4 DEF commit_parts
  <2>2. b \in Seq(Faults) /\ p \in Seq(Faults) /\ "empty" \in Range(b)
    <3>1. b \in Seq(Faults) /\ p \in Seq(Faults) /\ 1 \in DOMAIN b /\ b[1] = "empty"
      BY <2>1 DEF Faults, MalformedInput, ResourceLimit, require_payload_limit
    <3> QED
      BY Zenon, <3>1 DEF Range
  <2>3. a \in Seq(Faults)
    <3>1. /\ require_version \in Seq(Faults) /\ require_identifier_limit \in Seq(Faults)
          /\ require_commit_event_count \in Seq(Faults)
      BY DEF Faults, MalformedInput, ResourceLimit, require_version, require_identifier_limit,
             require_commit_event_count
    <3> QED
      BY Zenon, <2>1, <3>1, Checks
  <2>4. ab = a \o b /\ rest = ab \o p
    BY Zenon, <2>1
  <2>5. ab \in Seq(Faults) /\ Range(ab) = Range(a) \cup Range(b)
    BY SMT, <2>2, <2>3, <2>4, Concat
  <2>6. rest \in Seq(Faults) /\ Range(rest) = Range(ab) \cup Range(p)
    <3>1. ab \in Seq(Faults) /\ p \in Seq(Faults)
      BY Zenon, <2>2, <2>5
    <3>2. ab \o p \in Seq(Faults) /\ Range(ab \o p) = Range(ab) \cup Range(p)
      BY SMT, <3>1, Concat
    <3> QED
      BY Zenon, <2>4, <3>2
  <2> QED
    BY Zenon, <2>2, <2>5, <2>6
<1>8. /\ es_commit \in Seq(Faults) /\ Range(es_commit) = Range(validate) \cup Range(rest)
      /\ \A i \in 1..Len(validate) : es_commit[i] = validate[i]
  BY SMT, <1>4, <1>6, <1>7, Concat
<1>9. /\ es_commit[1] = "null" /\ es_commit[2] = "bytes" /\ es_commit[3] = "cbor"
      /\ es_commit[4] = "count"
  BY <1>6, <1>8
<1>10. "count" \in Range(es_commit) /\ "empty" \in Range(es_commit)
  <2>1. 4 \in DOMAIN validate /\ validate[4] = "count"
    BY <1>6
  <2> QED
    BY Zenon, <1>7, <1>8, <2>1 DEF Range
<1>11. Range(es_commit) \cap B # {}
  BY Zenon, <1>2, <1>3, <1>10
<1>12. PICK i \in 1..Len(es_commit) :
           /\ FirstFault(es_commit, B) = es_commit[i] /\ es_commit[i] \in B /\ es_commit[i] \in Faults
           /\ \A k \in 1..i - 1 : es_commit[k] \notin B
  BY Zenon, <1>8, <1>11, FirstFaultIn
<1>13. ASSUME n > MaxCommitEvents PROVE ClassOf(es_commit[i]) = "RESOURCE_LIMIT"
  <2>1. i \in Nat /\ i # 0
    BY <1>8
  <2>2. i # 1 /\ i # 2 /\ i # 3
    BY Zenon, <1>2, <1>9, <1>12
  <2>3. ~(4 \in 1..i - 1)
    BY Zenon, <1>2, <1>9, <1>12, <1>13
  <2>4. i = 4
    BY <2>1, <2>2, <2>3
  <2>5. ClassOf("count") = "RESOURCE_LIMIT"
    <3>1. "count" \in ResourceLimit /\ "count" \in Faults
      BY Zenon DEF Faults, ResourceLimit
    <3> QED
      BY Zenon, <3>1, FaultClass
  <2> QED
    BY Zenon, <1>9, <2>4, <2>5
<1>14. n \notin 1..MaxCommitEvents
  BY <1>3, LimitAssumption
<1> QED
  BY Zenon, <1>1, <1>12, <1>13, <1>14, FaultClass

-----------------------------------------------------------------------------
(* Answers and pending conflicts under a step of the store.                *)

\* A step of the store takes no answer back.
LEMMA StandingKept ==
    ASSUME NEW r, Standing(r), StreamInv, StreamInv', StoreEffect
    PROVE  Standing(r)'
<1>1. ASSUME "got" \in DOMAIN r
      PROVE  r.stream \in Stream /\ Whole(rows'[r.stream], CommittedVersion(r.stream)', r.got)
  <2>1. PICK s \in Stream : s = r.stream
    BY Zenon, <1>1 DEF Standing
  <2>2. PICK v \in Nat, v2 \in Nat : v = CommittedVersion(s) /\ v2 = CommittedVersion(s)' /\ v <= v2
    BY Zenon, EffectGrows
  <2>3. \A x \in DOMAIN rows'[s] \ DOMAIN rows[s] : x > v
    BY Zenon, <2>2, EffectGrows
  <2>4. Whole(rows[s], v, r.got)
    BY Zenon, <1>1, <2>1, <2>2 DEF Standing
  <2>5. Whole(rows'[s], v2, r.got)
    BY SMT, <2>2, <2>3, <2>4, WholeKept
  <2> QED
    BY Zenon, <2>1, <2>2, <2>5
<1> QED
  BY Zenon, <1>1 DEF Standing

\* Nor does it take back the version a conflict saw.
LEMMA PendingKept ==
    ASSUME NEW d, Pending(d), StreamInv, StreamInv', StoreEffect
    PROVE  Pending(d)'
<1> SUFFICES ASSUME d # None PROVE Pending(d)'
  BY Zenon DEF Pending
<1>1. PICK s \in Stream, n \in Nat : s = d.stream /\ n = d.seen /\ n <= CommittedVersion(s)
  BY Zenon DEF Pending
<1>2. /\ CommittedVersion(s) \in Nat /\ CommittedVersion(s)' \in Nat
      /\ CommittedVersion(s) <= CommittedVersion(s)'
  BY Zenon, EffectGrows
<1>3. n <= CommittedVersion(s)'
  BY <1>1, <1>2
<1> QED
  BY Zenon, <1>1, <1>3 DEF Pending

\* An answer that only names a class.
LEMMA PlainStands ==
    ASSUME NEW class, class # "CONFLICT"
    PROVE  Standing([class |-> class])'
<1>1. PICK r : r = [class |-> class]
  BY Zenon
<1>2. r.class # "CONFLICT" /\ "got" \notin DOMAIN r
  BY <1>1
<1>3. Standing(r)'
  BY Zenon, <1>2 DEF Standing
<1> QED
  BY Zenon, <1>1, <1>3

\* What one call may do to the answers and to the conflicts under way.
Answers(c) == \/ reply' = reply
              \/ \E r : reply' = [reply EXCEPT ![c] = r] /\ Standing(r)'
Conflicts(c) == \/ call' = call
                \/ \E d : call' = [call EXCEPT ![c] = d] /\ Pending(d)'

\* Answers given before stay, and so does the new one.
LEMMA AbiKept ==
    ASSUME AbiInv, StoreInv', StoreEffect, NEW c \in Caller, Answers(c), Conflicts(c)
    PROVE  AbiInv'
<1>1. ReplyInv'
  <2>1. DOMAIN reply' = Caller
    BY Zenon DEF AbiInv, ReplyInv, Answers
  <2>2. ASSUME NEW d \in Caller, NEW r, r = reply'[d] PROVE Standing(r)'
    <3>1. PICK old : old = reply[d]
      BY Zenon
    <3>2. Standing(old)'
      <4>1. Standing(old) /\ StreamInv /\ StreamInv'
        BY Zenon, <3>1 DEF AbiInv, ReplyInv, StoreInv
      <4> QED
        BY Zenon, <4>1, StandingKept
    <3>3. CASE r = old
      BY Zenon, <3>2, <3>3
    <3>4. ASSUME NEW new, reply' = [reply EXCEPT ![c] = new], Standing(new)' PROVE Standing(r)'
      <4>1. r = old \/ r = new
        BY Zenon, <2>2, <3>1, <3>4 DEF AbiInv, ReplyInv
      <4> QED
        BY Zenon, <3>2, <3>4, <4>1
    <3> QED
      BY Zenon, <2>2, <3>1, <3>3, <3>4 DEF Answers
  <2> QED
    BY Zenon, <2>1, <2>2 DEF ReplyInv
<1>2. CallInv'
  <2>1. DOMAIN call' = Caller
    BY Zenon DEF AbiInv, CallInv, Conflicts
  <2>2. ASSUME NEW d \in Caller, NEW p, p = call'[d] PROVE Pending(p)'
    <3>1. PICK old : old = call[d]
      BY Zenon
    <3>2. Pending(old)'
      <4>1. Pending(old) /\ StreamInv /\ StreamInv'
        BY Zenon, <3>1 DEF AbiInv, CallInv, StoreInv
      <4> QED
        BY Zenon, <4>1, PendingKept
    <3>3. CASE p = old
      BY Zenon, <3>2, <3>3
    <3>4. ASSUME NEW new, call' = [call EXCEPT ![c] = new], Pending(new)' PROVE Pending(p)'
      <4>1. p = old \/ p = new
        BY Zenon, <2>2, <3>1, <3>4 DEF AbiInv, CallInv
      <4> QED
        BY Zenon, <3>2, <3>4, <4>1
    <3> QED
      BY Zenon, <2>2, <3>1, <3>3, <3>4 DEF Conflicts
  <2> QED
    BY Zenon, <2>1, <2>2 DEF CallInv
<1> QED
  BY Zenon, <1>1, <1>2 DEF AbiInv

-----------------------------------------------------------------------------
(* The calls.                                                              *)

\* ffi_call's success path and write_error, with any class but CONFLICT.
LEMMA PlainAnswer ==
    ASSUME NEW c, NEW class, class # "CONFLICT", Answer(c, class)
    PROVE  Answers(c)
<1>1. Standing([class |-> class])'
  BY Zenon, PlainStands
<1>2. PICK r : r = [class |-> class]
  BY Zenon
<1>3. Standing(r)' /\ reply' = [reply EXCEPT ![c] = r]
  BY Zenon, <1>1, <1>2 DEF Answer
<1> QED
  BY Zenon, <1>3 DEF Answers

\* An answer that leaves the store and the conflicts under way alone.
LEMMA AnswerStep ==
    ASSUME AbiInv, NEW c \in Caller, Answers(c), UNCHANGED <<vars, call>>
    PROVE  AbiInv' /\ StoreEffect
<1>1. StoreInv' /\ StoreEffect
  <2>1. StoreInv /\ UNCHANGED vars
    BY Zenon DEF AbiInv
  <2> QED
    BY Zenon, <2>1, StoreStutter
<1>2. Conflicts(c)
  BY Zenon DEF Conflicts
<1> QED
  BY Zenon, <1>1, <1>2, AbiKept

\* An answer to an operation of the engine that was carried out.
LEMMA EngineStep ==
    ASSUME AbiInv, NEW c \in Caller, StoreInv', StoreEffect, Answer(c, "OK"), call' = call
    PROVE  AbiInv' /\ StoreEffect
<1>1. Answers(c)
  <2>1. "OK" # "CONFLICT"
    OBVIOUS
  <2> QED
    BY Zenon, <2>1, PlainAnswer
<1>2. Conflicts(c)
  BY Zenon DEF Conflicts
<1> QED
  BY Zenon, <1>1, <1>2, AbiKept

\* A refused batch is no conflict.
LEMMA RefuseBatchStep ==
    ASSUME AbiInv, NEW c \in Caller, NEW n \in 0..MaxCommitEvents + 1, RefuseBatch(c, n)
    PROVE  AbiInv' /\ StoreEffect
<1>1. PICK class : class = ClassOf(FirstFault(es_commit, BatchFaults(n)))
  BY Zenon
<1>2. PICK r : r = [class |-> class, asked |-> n]
  BY Zenon
<1>3. BatchFaults(n) # {} /\ reply' = [reply EXCEPT ![c] = r] /\ UNCHANGED <<vars, call>>
  BY Zenon, <1>1, <1>2 DEF RefuseBatch
<1>4. n \in Nat
  BY LimitAssumption
<1>5. class # "CONFLICT"
  BY Zenon, <1>1, <1>3, <1>4, BatchRefusal
<1>6. r.class = class /\ "got" \notin DOMAIN r
  BY <1>2
<1>7. Standing(r)'
  BY Zenon, <1>5, <1>6 DEF Standing
<1>8. Answers(c)
  BY Zenon, <1>3, <1>7 DEF Answers
<1> QED
  BY Zenon, <1>3, <1>8, AnswerStep

\* es_load_stream: a page continues what the caller was given before.
LEMMA LoadStreamStep ==
    ASSUME AbiInv, NEW c \in Caller, NEW s \in Stream, NEW size,
           NEW read \in {<<>>, Read(c, s)}, LoadStream(c, s, read, size)
    PROVE  AbiInv' /\ StoreEffect
<1>1. PICK after : after = IF read = <<>> THEN 0 ELSE read[Len(read)]
  BY Zenon
<1>2. PICK page : page = Page(s, after)
  BY Zenon
<1>3. PICK r : r = [class |-> "OK", stream |-> s, got |-> read \o page]
  BY Zenon
<1>4. /\ \/ reply' = [reply EXCEPT ![c] = r]
         \/ Answer(c, "RESOURCE_LIMIT")
         \/ Answer(c, EngineClass("EventPageTooLarge"))
      /\ UNCHANGED <<vars, call>>
  BY Zenon, <1>1, <1>2, <1>3 DEF LoadStream
<1>5. PICK v \in Nat : v = CommittedVersion(s)
  <2>1. StreamInv
    BY Zenon DEF AbiInv, StoreInv
  <2> QED
    BY Zenon, <2>1, InvDurable
<1>6. Whole(rows[s], v, read)
  <2>1. CASE read = <<>>
    BY <2>1 DEF Whole
  <2>2. CASE read # <<>>
    <3>1. read = Read(c, s)
      BY Zenon, <2>2
    <3>2. "got" \in DOMAIN reply[c] /\ reply[c].stream = s /\ read = reply[c].got
      BY Zenon, <2>2, <3>1 DEF Read
    <3>3. Standing(reply[c])
      BY Zenon DEF AbiInv, ReplyInv
    <3> QED
      BY Zenon, <1>5, <3>2, <3>3 DEF Standing
  <2> QED
    BY Zenon, <2>1, <2>2
<1>7. after \in Nat /\ after <= v
  <2>1. CASE read = <<>>
    BY <1>1, <2>1
  <2>2. CASE read # <<>>
    BY <1>1, <1>6, <2>2 DEF Whole
  <2> QED
    BY Zenon, <2>1, <2>2
<1>8. PICK m \in Nat, n \in Nat :
          /\ after <= m /\ m + n <= v /\ (after + 1..m) \cap DOMAIN rows[s] = {}
          /\ page = [i \in 1..n |-> m + i]
  <2>1. StreamInv /\ after \in Nat /\ after <= CommittedVersion(s)
    BY Zenon, <1>5, <1>7 DEF AbiInv, StoreInv
  <2>2. \E m \in Nat, n \in Nat :
            /\ after <= m /\ m + n <= CommittedVersion(s)
            /\ (after + 1..m) \cap DOMAIN rows[s] = {}
            /\ Page(s, after) = [i \in 1..n |-> m + i]
    BY Zenon, <2>1, PageIs
  <2> QED
    BY Zenon, <1>2, <1>5, <2>2
<1>9. Whole(rows[s], v, read \o page)
  <2>1. PICK rw : rw = rows[s]
    BY Zenon
  <2>2. /\ Whole(rw, v, read) /\ (read = <<>> => after = 0) /\ (read # <<>> => after = read[Len(read)])
        /\ after <= m /\ m + n <= v /\ (after + 1..m) \cap DOMAIN rw = {}
    BY Zenon, <1>1, <1>6, <1>7, <1>8, <2>1
  <2>3. Whole(rw, v, read \o page)
    BY Zenon, <1>7, <1>8, <2>2, WholeWithPage
  <2> QED
    BY Zenon, <2>1, <2>3
<1>10. Standing(r)
  <2>1. /\ r.class # "CONFLICT"
        /\ r.stream = s /\ r.got = read \o page
    BY <1>3
  <2> QED
    BY Zenon, <1>5, <1>9, <2>1 DEF Standing
<1>11. Standing(r)'
  <2>1. StoreInv /\ UNCHANGED vars
    BY Zenon, <1>4 DEF AbiInv
  <2>2. StreamInv /\ StreamInv' /\ StoreEffect
    BY Zenon, <2>1, StoreStutter DEF StoreInv
  <2> QED
    BY Zenon, <1>10, <2>2, StandingKept
<1>12. Answers(c)
  <2>1. "RESOURCE_LIMIT" # "CONFLICT"
    OBVIOUS
  <2>2. CASE reply' = [reply EXCEPT ![c] = r]
    BY Zenon, <1>11, <2>2 DEF Answers
  <2> QED
    BY Zenon, <1>4, <2>1, <2>2, PlainAnswer, EngineIsNoConflict
<1> QED
  BY Zenon, <1>4, <1>12, AnswerStep

\* es_commit and es_commit_with_job: committed, refused for the instant, or
\* in conflict with the version the store has.
LEMMA CommitStep ==
    ASSUME AbiInv, NEW c \in Caller, NEW s \in Stream, NEW expected \in 0..MaxEvents,
           NEW k \in 1..MaxBatch, NEW j \in Job \cup {NoJob}, NEW instant, Room(s, expected, k),
           Commit(c, s, expected, k, j, instant)
    PROVE  AbiInv' /\ StoreEffect
<1>1. PICK batch : batch = Wrapped(k)
  BY Zenon
<1>2. expected \in Nat /\ k \in Nat \ {0}
  BY StoreAssumption
<1>3. Len(batch) = k /\ \A i \in 1..k : batch[i] = Opaque
  BY <1>1, <1>2 DEF Wrapped
<1>4. CASE CommitAt(s, expected, batch, j) /\ Answer(c, "OK") /\ call' = call
  <2>1. /\ StoreInv /\ BatchAt(expected, batch) /\ Len(batch) \in 1..MaxBatch
        /\ Room(s, expected, Len(batch))
    BY Zenon, <1>2, <1>3 DEF AbiInv, BatchAt
  <2>2. StoreInv' /\ StoreEffect
    BY Zenon, <1>2, <1>4, <2>1, CommitAtStep
  <2> QED
    BY Zenon, <1>4, <2>2, EngineStep
<1>5. CASE Answer(c, EngineClass("InvalidInstant")) /\ UNCHANGED <<vars, call>>
  <2>1. Answers(c)
    BY Zenon, <1>5, EngineIsNoConflict, PlainAnswer
  <2> QED
    BY Zenon, <1>5, <2>1, AnswerStep
<1>6. CASE /\ call' = [call EXCEPT ![c] = [class |-> "CONFLICT", stream |-> s,
                                           seen |-> CommittedVersion(s)]]
           /\ UNCHANGED <<vars, reply>>
  <2>1. StoreInv /\ UNCHANGED vars
    BY Zenon, <1>6 DEF AbiInv
  <2>2. StreamInv /\ StoreInv' /\ StreamInv' /\ StoreEffect
    BY Zenon, <2>1, StoreStutter DEF StoreInv
  <2>3. PICK d : d = [class |-> "CONFLICT", stream |-> s, seen |-> CommittedVersion(s)]
    BY Zenon
  <2>4. Pending(d)
    <3>1. PICK v \in Nat : v = CommittedVersion(s) /\ v <= v
      <4>1. PICK v \in Nat : v = CommittedVersion(s)
        BY Zenon, <2>2, InvDurable
      <4>2. v <= v
        OBVIOUS
      <4> QED
        BY Zenon, <4>1, <4>2
    <3>2. d.stream = s /\ d.seen = CommittedVersion(s)
      BY <2>3
    <3> QED
      BY Zenon, <3>1, <3>2 DEF Pending
  <2>5. Pending(d)'
    BY Zenon, <2>2, <2>4, PendingKept
  <2>6. Answers(c) /\ Conflicts(c)
    BY Zenon, <1>6, <2>3, <2>5 DEF Answers, Conflicts
  <2> QED
    BY Zenon, <2>2, <2>6, AbiKept
<1> QED
  BY Zenon, <1>1, <1>4, <1>5, <1>6 DEF Commit


\* The conflict's detail, read from the store after the transaction.
LEMMA ReportConflictStep ==
    ASSUME AbiInv, NEW c \in Caller, ReportConflict(c)
    PROVE  AbiInv' /\ StoreEffect
<1>1. PICK d : d = call[c]
  BY Zenon
<1>2. PICK r : r = [class |-> "CONFLICT", seen |-> d.seen, actual |-> CommittedVersion(d.stream)]
  BY Zenon
<1>3. /\ d # None /\ reply' = [reply EXCEPT ![c] = r] /\ call' = [call EXCEPT ![c] = None]
      /\ UNCHANGED vars
  BY Zenon, <1>1, <1>2 DEF ReportConflict, Free
<1>4. d.stream \in Stream /\ d.seen \in Nat /\ d.seen <= CommittedVersion(d.stream)
  BY Zenon, <1>1, <1>3 DEF AbiInv, CallInv, Pending
<1>5. CommittedVersion(d.stream) \in Nat
  <2>1. StreamInv
    BY Zenon DEF AbiInv, StoreInv
  <2> QED
    BY Zenon, <1>4, <2>1, InvDurable
<1>6. CommittedVersion(d.stream) >= d.seen
  BY <1>4, <1>5
<1>7. /\ r.actual = CommittedVersion(d.stream) /\ r.seen = d.seen
      /\ "got" \notin DOMAIN r
  BY <1>2
<1>8. Standing(r)'
  BY Zenon, <1>6, <1>7 DEF Standing
<1>9. Pending(None)'
  BY Zenon DEF Pending
<1>10. Answers(c) /\ Conflicts(c)
  BY Zenon, <1>3, <1>8, <1>9 DEF Answers, Conflicts
<1>11. StoreInv' /\ StoreEffect
  <2>1. StoreInv /\ UNCHANGED vars
    BY Zenon, <1>3 DEF AbiInv
  <2> QED
    BY Zenon, <2>1, StoreStutter
<1> QED
  BY Zenon, <1>10, <1>11, AbiKept

\* A caller that dies before the conflict is reported.
LEMMA LoseStep ==
    ASSUME AbiInv, NEW c \in Caller, Lose(c)
    PROVE  AbiInv' /\ StoreEffect
<1>1. Pending(None)'
  BY Zenon DEF Pending
<1>2. Answers(c) /\ Conflicts(c)
  BY Zenon, <1>1 DEF Lose, Answers, Conflicts
<1>3. StoreInv' /\ StoreEffect
  <2>1. StoreInv /\ UNCHANGED vars
    BY Zenon DEF AbiInv, Lose
  <2> QED
    BY Zenon, <2>1, StoreStutter
<1> QED
  BY Zenon, <1>2, <1>3, AbiKept

\* The calls that only read, and the refusals of the others.
LEMMA ReadStep ==
    ASSUME AbiInv, NEW c \in Caller, NEW class, Answer(c, class), UNCHANGED <<vars, call>>,
           class # "CONFLICT"
    PROVE  AbiInv' /\ StoreEffect
<1>1. Answers(c)
  BY Zenon, PlainAnswer
<1> QED
  BY Zenon, <1>1, AnswerStep

\* es_snapshot_load, es_current_version, es_job_poll and refused requests.
LEMMA QuietCalls ==
    ASSUME AbiInv, NEW c \in Caller,
           \/ Refuse(c) \/ JobPoll(c)
           \/ \E s \in Stream : GetVersion(c, s) \/ LoadSnapshotBytes(c, s)
    PROVE  AbiInv' /\ StoreEffect
<1>1. "OK" # "CONFLICT"
  OBVIOUS
<1>2. CASE Refuse(c)
  BY Zenon, <1>2, ReadStep, RefusedIsNoConflict DEF Refuse
<1>3. CASE JobPoll(c)
  BY Zenon, <1>1, <1>3, ReadStep DEF JobPoll
<1>4. ASSUME NEW s \in Stream, GetVersion(c, s) PROVE AbiInv' /\ StoreEffect
  BY Zenon, <1>1, <1>4, ReadStep DEF GetVersion
<1>5. ASSUME NEW s \in Stream, LoadSnapshotBytes(c, s) PROVE AbiInv' /\ StoreEffect
  BY Zenon, <1>1, <1>5, ReadStep, EngineIsNoConflict DEF LoadSnapshotBytes
<1> QED
  BY Zenon, <1>2, <1>3, <1>4, <1>5

\* es_snapshot_store and es_snapshot_discard.
LEMMA SnapshotCalls ==
    ASSUME AbiInv, NEW c \in Caller, NEW s \in Stream,
           (\E q \in 0..MaxEvents : SnapshotStore(c, s, q)) \/ SnapshotDiscard(c, s)
    PROVE  AbiInv' /\ StoreEffect
<1>1. StoreInv
  BY Zenon DEF AbiInv
<1>2. ASSUME NEW q \in 0..MaxEvents, SnapshotStore(c, s, q) PROVE AbiInv' /\ StoreEffect
  <2>1. q \in Nat
    BY StoreAssumption
  <2>2. CASE StoreSnapshot(s, q, OpaqueShape) /\ Answer(c, "OK") /\ call' = call
    <3>1. StoreInv' /\ StoreEffect
      BY Zenon, <1>1, <2>1, <2>2, StoreSnapshotStep
    <3> QED
      BY Zenon, <2>2, <3>1, EngineStep
  <2>3. CASE Answer(c, EngineClass(SnapshotRefusal(s, q))) /\ UNCHANGED <<vars, call>>
    BY Zenon, <2>3, ReadStep, EngineIsNoConflict
  <2> QED
    BY Zenon, <1>2, <2>2, <2>3 DEF SnapshotStore
<1>3. CASE SnapshotDiscard(c, s)
  <2>1. DiscardSnapshot(s) /\ Answer(c, "OK") /\ call' = call
    BY Zenon, <1>3 DEF SnapshotDiscard
  <2>2. StoreInv' /\ StoreEffect
    BY Zenon, <1>1, <2>1, DiscardSnapshotStep
  <2> QED
    BY Zenon, <2>1, <2>2, EngineStep
<1> QED
  BY Zenon, <1>2, <1>3

\* es_schema_reconcile and es_schema_record.
LEMMA SchemaCalls ==
    ASSUME AbiInv, NEW c \in Caller, NEW s \in Stream, SchemaReconcile(c, s) \/ SchemaRecord(c, s)
    PROVE  AbiInv' /\ StoreEffect
<1>1. StoreInv
  BY Zenon DEF AbiInv
<1>2. CASE Reconcile(s) /\ Answer(c, "OK") /\ call' = call
  <2>1. StoreInv' /\ StoreEffect
    BY Zenon, <1>1, <1>2, ReconcileStep
  <2> QED
    BY Zenon, <1>2, <2>1, EngineStep
<1>3. CASE Answer(c, EngineClass("CompactedSnapshotClear")) /\ UNCHANGED <<vars, call>>
  BY Zenon, <1>3, ReadStep, EngineIsNoConflict
<1>4. CASE SchemaRecord(c, s)
  <2>1. RecordVersion(s) /\ Answer(c, "OK") /\ call' = call
    BY Zenon, <1>4 DEF SchemaRecord
  <2>2. StoreInv' /\ StoreEffect
    BY Zenon, <1>1, <2>1, RecordVersionStep
  <2> QED
    BY Zenon, <2>1, <2>2, EngineStep
<1> QED
  BY Zenon, <1>2, <1>3, <1>4 DEF SchemaReconcile

\* es_job_enqueue.
LEMMA JobEnqueueStep ==
    ASSUME AbiInv, NEW c \in Caller, NEW j \in Job, JobEnqueue(c, j)
    PROVE  AbiInv' /\ StoreEffect
<1>1. CASE EnqueueJob(j) /\ Answer(c, "OK") /\ call' = call
  <2>1. StoreInv' /\ StoreEffect
    BY Zenon, <1>1, EnqueueJobStep DEF AbiInv
  <2> QED
    BY Zenon, <1>1, <2>1, EngineStep
<1>2. CASE Answer(c, JobRuntimeClass("Backend")) /\ UNCHANGED <<vars, call>>
  BY Zenon, <1>2, ReadStep, EngineIsNoConflict
<1> QED
  BY Zenon, <1>1, <1>2 DEF JobEnqueue


-----------------------------------------------------------------------------
(* Any step.                                                               *)

\* Any call of the C ABI.
LEMMA CallStep ==
    ASSUME AbiInv, NEW c \in Caller, Calls(c)
    PROVE  AbiInv' /\ StoreEffect
<1>1. CASE \/ Refuse(c) \/ JobPoll(c)
           \/ \E s \in Stream : GetVersion(c, s) \/ LoadSnapshotBytes(c, s)
  BY Zenon, <1>1, QuietCalls
<1>2. ASSUME NEW n \in 0..MaxCommitEvents + 1, RefuseBatch(c, n) PROVE AbiInv' /\ StoreEffect
  BY Zenon, <1>2, RefuseBatchStep
<1>3. ASSUME NEW s \in Stream, NEW size \in {1, MaxResponse}, NEW read \in {<<>>, Read(c, s)},
             LoadStream(c, s, read, size)
      PROVE  AbiInv' /\ StoreEffect
  BY Zenon, <1>3, LoadStreamStep
<1>4. ASSUME NEW s \in Stream, NEW expected \in 0..MaxEvents, NEW k \in 1..MaxBatch,
             NEW j \in Job \cup {NoJob}, NEW instant \in {"valid", "invalid"},
             Room(s, expected, k), Commit(c, s, expected, k, j, instant)
      PROVE  AbiInv' /\ StoreEffect
  BY Zenon, <1>4, CommitStep
<1>5. CASE ReportConflict(c)
  BY Zenon, <1>5, ReportConflictStep
<1>6. ASSUME NEW s \in Stream,
             (\E q \in 0..MaxEvents : SnapshotStore(c, s, q)) \/ SnapshotDiscard(c, s)
      PROVE  AbiInv' /\ StoreEffect
  BY Zenon, <1>6, SnapshotCalls
<1>7. ASSUME NEW s \in Stream, SchemaReconcile(c, s) \/ SchemaRecord(c, s)
      PROVE  AbiInv' /\ StoreEffect
  BY Zenon, <1>7, SchemaCalls
<1>8. ASSUME NEW j \in Job, JobEnqueue(c, j) PROVE AbiInv' /\ StoreEffect
  BY Zenon, <1>8, JobEnqueueStep
<1>9. CASE Lose(c)
  BY Zenon, <1>9, LoseStep
<1> QED
  BY Zenon, <1>1, <1>2, <1>3, <1>4, <1>5, <1>6, <1>7, <1>8, <1>9 DEF Calls

\* A step of the store itself, or of a native program on the engine.
LEMMA NativeKept ==
    ASSUME AbiInv, StoreInv', StoreEffect, UNCHANGED <<call, reply>>
    PROVE  AbiInv'
<1>1. ReplyInv'
  <2>1. ASSUME NEW d \in Caller, NEW r, r = reply[d] PROVE Standing(r)'
    <3>1. Standing(r) /\ StreamInv /\ StreamInv'
      BY Zenon, <2>1 DEF AbiInv, ReplyInv, StoreInv
    <3> QED
      BY Zenon, <3>1, StandingKept
  <2> QED
    BY Zenon, <2>1 DEF ReplyInv, AbiInv
<1>2. CallInv'
  <2>1. ASSUME NEW d \in Caller, NEW p, p = call[d] PROVE Pending(p)'
    <3>1. Pending(p) /\ StreamInv /\ StreamInv'
      BY Zenon, <2>1 DEF AbiInv, CallInv, StoreInv
    <3> QED
      BY Zenon, <3>1, PendingKept
  <2> QED
    BY Zenon, <2>1 DEF CallInv, AbiInv
<1> QED
  BY Zenon, <1>1, <1>2 DEF AbiInv

\* Engine::commit and store_snapshot of a native program.
LEMMA EnginesStep ==
    ASSUME AbiInv, NEW s \in Stream, Engines(s)
    PROVE  StoreInv' /\ StoreEffect /\ UNCHANGED <<call, reply>>
<1>1. StoreInv
  BY Zenon DEF AbiInv
<1>2. ASSUME NEW expected \in 0..MaxEvents, NEW k \in 1..MaxBatch, Room(s, expected, k),
             EngineCommit(s, expected, k)
      PROVE  StoreInv' /\ StoreEffect /\ UNCHANGED <<call, reply>>
  <2>1. PICK batch : batch = Proposed(expected, k)
    BY Zenon
  <2>2. expected \in Nat /\ k \in Nat \ {0}
    BY StoreAssumption
  <2>3. Len(batch) = k /\ \A i \in 1..k : batch[i] = Expected(expected + i)
    BY <2>1, <2>2 DEF Proposed, Expected
  <2>4. BatchAt(expected, batch) /\ Len(batch) \in 1..MaxBatch /\ Room(s, expected, Len(batch))
    BY Zenon, <1>2, <2>2, <2>3 DEF BatchAt
  <2>5. CommitAt(s, expected, batch, NoJob) /\ NoJob \in Job \cup {NoJob} /\ UNCHANGED <<call, reply>>
    BY Zenon, <1>2, <2>1 DEF EngineCommit
  <2> QED
    BY Zenon, <1>1, <2>2, <2>4, <2>5, CommitAtStep
<1>3. ASSUME NEW q \in 0..MaxEvents, EngineSnapshot(s, q)
      PROVE  StoreInv' /\ StoreEffect /\ UNCHANGED <<call, reply>>
  <2>1. q \in Nat
    BY StoreAssumption
  <2> QED
    BY Zenon, <1>1, <1>3, <2>1, StoreSnapshotStep DEF EngineSnapshot
<1> QED
  BY Zenon, <1>2, <1>3 DEF Engines

\* Whatever happens, the invariant is kept, and the streams and jobs see
\* nothing, a commit or a job.
LEMMA AbiNextStep ==
    ASSUME Supported, AbiInv, [AbiNext]_abiVars
    PROVE  AbiInv' /\ StoreEffect
<1>1. StoreInv
  BY Zenon DEF AbiInv
<1>2. CASE Next /\ UNCHANGED <<call, reply>>
  <2>1. StoreInv' /\ StoreEffect
    BY Zenon, <1>1, <1>2, StoreNext
  <2> QED
    BY Zenon, <1>2, <2>1, NativeKept
<1>3. ASSUME NEW s \in Stream, Engines(s) PROVE AbiInv' /\ StoreEffect
  <2>1. StoreInv' /\ StoreEffect /\ UNCHANGED <<call, reply>>
    BY Zenon, <1>3, EnginesStep
  <2> QED
    BY Zenon, <2>1, NativeKept
<1>4. CASE UNCHANGED abiVars
  <2>1. UNCHANGED vars /\ UNCHANGED <<call, reply>>
    BY Zenon, <1>4 DEF abiVars
  <2>2. StoreInv' /\ StoreEffect
    BY Zenon, <1>1, <2>1, StoreStutter
  <2> QED
    BY Zenon, <2>1, <2>2, NativeKept
<1> QED
  BY Zenon, <1>2, <1>3, <1>4, CallStep DEF AbiNext

\* A fresh database with no call made.
LEMMA AbiInitInv ==
    ASSUME Supported, AbiInit
    PROVE  AbiInv
<1>1. StoreInv
  BY Zenon, StoreInit DEF AbiInit
<1>2. None.class # "CONFLICT" /\ "got" \notin DOMAIN None
  BY DEF None
<1>3. Standing(None) /\ Pending(None)
  BY Zenon, <1>2 DEF Standing, Pending
<1>4. ReplyInv /\ CallInv
  BY Zenon, <1>3 DEF AbiInit, ReplyInv, CallInv
<1> QED
  BY Zenon, <1>1, <1>4 DEF AbiInv


-----------------------------------------------------------------------------
(* Answers to batches, whatever the state of the store.                    *)

Sized(r) == "asked" \in DOMAIN r =>
                /\ r.asked \notin 1..MaxCommitEvents
                /\ r.asked > MaxCommitEvents => r.class = "RESOURCE_LIMIT"
SizedInv == DOMAIN reply = Caller /\ \A c \in Caller : Sized(reply[c])

\* What a call answers: only a refused batch says how many events were asked.
LEMMA SizedAnswer ==
    ASSUME NEW c \in Caller, Calls(c)
    PROVE  reply' = reply \/ \E r : Sized(r) /\ reply' = [reply EXCEPT ![c] = r]
<1>1. ASSUME NEW class, Answer(c, class) PROVE \E r : Sized(r) /\ reply' = [reply EXCEPT ![c] = r]
  <2>1. "asked" \notin DOMAIN [class |-> class]
    OBVIOUS
  <2> QED
    BY Zenon, <1>1, <2>1 DEF Answer, Sized
<1>2. ASSUME NEW n \in 0..MaxCommitEvents + 1, RefuseBatch(c, n)
      PROVE  \E r : Sized(r) /\ reply' = [reply EXCEPT ![c] = r]
  <2>1. PICK class : class = ClassOf(FirstFault(es_commit, BatchFaults(n)))
    BY Zenon
  <2>2. PICK r : r = [class |-> class, asked |-> n]
    BY Zenon
  <2>3. BatchFaults(n) # {} /\ reply' = [reply EXCEPT ![c] = r]
    BY Zenon, <1>2, <2>1, <2>2 DEF RefuseBatch
  <2>4. n \in Nat
    BY LimitAssumption
  <2>5. n \notin 1..MaxCommitEvents /\ (n > MaxCommitEvents => class = "RESOURCE_LIMIT")
    BY Zenon, <2>1, <2>3, <2>4, BatchRefusal
  <2>6. r.class = class /\ r.asked = n
    BY <2>2
  <2> QED
    BY Zenon, <2>3, <2>5, <2>6 DEF Sized
<1>3. ASSUME NEW s, NEW read, NEW size, LoadStream(c, s, read, size)
      PROVE  \E r : Sized(r) /\ reply' = [reply EXCEPT ![c] = r]
  <2>1. PICK got : \/ reply' = [reply EXCEPT ![c] = [class |-> "OK", stream |-> s, got |-> got]]
                   \/ \E class : Answer(c, class)
    BY Zenon, <1>3 DEF LoadStream
  <2>2. PICK r : r = [class |-> "OK", stream |-> s, got |-> got]
    BY Zenon
  <2>3. "asked" \notin DOMAIN r
    BY <2>2
  <2> QED
    BY Zenon, <1>1, <2>1, <2>2, <2>3 DEF Sized
<1>4. CASE ReportConflict(c)
  <2>1. PICK r : r = [class |-> "CONFLICT", seen |-> call[c].seen,
                      actual |-> CommittedVersion(call[c].stream)]
    BY Zenon
  <2>2. "asked" \notin DOMAIN r
    BY <2>1
  <2> QED
    BY Zenon, <1>4, <2>1, <2>2 DEF ReportConflict, Sized
<1>5. ASSUME NEW s, NEW expected, NEW k, NEW j, NEW instant, Commit(c, s, expected, k, j, instant)
      PROVE  reply' = reply \/ \E class : Answer(c, class)
  BY Zenon, <1>5 DEF Commit
<1>6. CASE Refuse(c) \/ JobPoll(c) \/ \E s \in Stream : GetVersion(c, s) \/ LoadSnapshotBytes(c, s)
  BY Zenon, <1>1, <1>6 DEF Refuse, JobPoll, GetVersion, LoadSnapshotBytes
<1>7. ASSUME NEW s \in Stream,
             \/ \E q \in 0..MaxEvents : SnapshotStore(c, s, q)
             \/ SnapshotDiscard(c, s) \/ SchemaReconcile(c, s) \/ SchemaRecord(c, s)
      PROVE  \E class : Answer(c, class)
  BY Zenon, <1>7 DEF SnapshotStore, SnapshotDiscard, SchemaReconcile, SchemaRecord
<1>8. ASSUME NEW j \in Job, JobEnqueue(c, j) PROVE \E class : Answer(c, class)
  BY Zenon, <1>8 DEF JobEnqueue
<1>9. CASE Lose(c)
  BY Zenon, <1>9 DEF Lose
<1> QED
  BY Zenon, <1>1, <1>2, <1>3, <1>4, <1>5, <1>6, <1>7, <1>8, <1>9 DEF Calls

\* The answers stay what they were, and the new one says no less.
LEMMA SizedStep ==
    ASSUME SizedInv, [AbiNext]_abiVars
    PROVE  SizedInv'
<1>1. ASSUME reply' = reply PROVE SizedInv'
  BY Zenon, <1>1 DEF SizedInv
<1>2. ASSUME NEW c \in Caller, NEW r, Sized(r), reply' = [reply EXCEPT ![c] = r] PROVE SizedInv'
  BY Zenon, <1>2 DEF SizedInv
<1>3. ASSUME NEW s \in Stream, Engines(s) PROVE reply' = reply
  BY Zenon, <1>3 DEF Engines, EngineCommit, EngineSnapshot
<1>4. CASE UNCHANGED abiVars
  BY Zenon, <1>1, <1>4 DEF abiVars
<1> QED
  BY Zenon, <1>1, <1>2, <1>3, <1>4, SizedAnswer DEF AbiNext

-----------------------------------------------------------------------------
(* The theorems, for every instance in which native entities do not compact *)
(* and a compactable type is on record before its first use.               *)

\* The invariant the others rest on: every stream is sound, every command
\* under way works on a fold of events its stream still has, and every answer
\* given still stands.
THEOREM AbiSafety ==
    ASSUME Supported
    PROVE  AbiSpec => []AbiInv
<1>1. AbiInit => AbiInv
  BY Zenon, AbiInitInv
<1>2. AbiInv /\ [AbiNext]_abiVars => AbiInv'
  BY Zenon, AbiNextStep
<1> QED
  BY <1>1, <1>2, PTL DEF AbiSpec

\* Lifecycle::handle is only ever given the entity its stream's first events
\* fold to (LoadIsFold), however loads race with deployments, snapshot writes,
\* discards and commits; the one exception is a load of a compactable stream
\* that a compaction passes between its two statements.
THEOREM AbiLoadIsFold ==
    ASSUME Supported
    PROVE  AbiSpec => []LoadIsFold
<1>1. AbiInv => LoadIsFold
  BY Zenon, InvLoadIsFold DEF AbiInv
<1> QED
  BY <1>1, AbiSafety, PTL

\* A load that is not refused starts from the whole history (lib.rs:26-30).
THEOREM AbiNeverSilentlyLost ==
    ASSUME Supported
    PROVE  AbiSpec => []NeverSilentlyLost
<1>1. AbiInv => NeverSilentlyLost
  BY Zenon, InvNeverSilentlyLost DEF AbiInv
<1> QED
  BY <1>1, AbiSafety, PTL

\* load_all_ids lists a stream exactly when it has committed.
THEOREM AbiListedIffCommitted ==
    ASSUME Supported
    PROVE  AbiSpec => []ListedIffCommitted
<1>1. AbiInv => ListedIffCommitted
  BY Zenon, InvListedIffCommitted DEF AbiInv
<1> QED
  BY <1>1, AbiSafety, PTL

\* Whoever reads a stream page after page (es_load_stream) gets every event
\* once and in order.
THEOREM AbiPagedReadWhole ==
    ASSUME Supported
    PROVE  AbiSpec => []PagedReadWhole
<1>1. AbiInv => PagedReadWhole
  <2>1. SUFFICES ASSUME AbiInv, NEW c \in Caller, "got" \in DOMAIN reply[c], reply[c].got # <<>>
                 PROVE  /\ \A n \in 2..Len(reply[c].got) : reply[c].got[n - 1] < reply[c].got[n]
                        /\ ((1..reply[c].got[Len(reply[c].got)]) \ Range(reply[c].got))
                               \cap DOMAIN rows[reply[c].stream] = {}
    BY Zenon DEF PagedReadWhole
  <2>2. Standing(reply[c])
    BY Zenon, <2>1 DEF AbiInv, ReplyInv
  <2> QED
    BY Zenon, <2>1, <2>2 DEF Standing, Whole
<1> QED
  BY <1>1, AbiSafety, PTL

\* The version a conflict reports (lib.rs:2189-2193) is not behind the one
\* that refused the commit.
THEOREM AbiConflictNotBehind ==
    ASSUME Supported
    PROVE  AbiSpec => []ConflictNotBehind
<1>1. AbiInv => ConflictNotBehind
  BY Zenon DEF AbiInv, ReplyInv, Standing, ConflictNotBehind
<1> QED
  BY <1>1, AbiSafety, PTL

\* A batch over MAX_COMMIT_EVENTS is answered RESOURCE_LIMIT (SPEC.md:301);
\* this needs nothing of the store.
THEOREM AbiOversizeIsResourceLimit == AbiSpec => []OversizeIsResourceLimit
<1>1. AbiInit => SizedInv
  <2>1. "asked" \notin DOMAIN None
    BY DEF None
  <2> QED
    BY Zenon, <2>1 DEF AbiInit, SizedInv, Sized
<1>2. SizedInv /\ [AbiNext]_abiVars => SizedInv'
  BY Zenon, SizedStep
<1>3. SizedInv => OversizeIsResourceLimit
  BY Zenon DEF SizedInv, Sized, OversizeIsResourceLimit
<1> QED
  BY <1>1, <1>2, <1>3, PTL DEF AbiSpec

\* The event store, with the C ABI and native programs on it, implements the
\* abstract EntityStore: commits and jobs are all that callers can see of it.
THEOREM AbiImplementsEntityStore ==
    ASSUME Supported
    PROVE  AbiSpec => ImplementsEntityStore
<1>1. AbiInit /\ AbiInv => Entities!Init
  BY Zenon, EntitiesInit DEF AbiInit, AbiInv, StoreInv
<1>2. AbiInv /\ [AbiNext]_abiVars
          => [Entities!Next]_<<[s \in Stream |-> CommittedVersion(s)],
                               [s \in Stream |-> DurableState(s)], jobs>>
  <2>1. SUFFICES ASSUME AbiInv, [AbiNext]_abiVars
                 PROVE  [Entities!Next]_<<[s \in Stream |-> CommittedVersion(s)],
                                          [s \in Stream |-> DurableState(s)], jobs>>
    OBVIOUS
  <2>2. AbiInv' /\ StoreEffect
    BY Zenon, <2>1, AbiNextStep
  <2>3. StreamInv /\ StreamInv'
    BY Zenon, <2>1, <2>2 DEF AbiInv, StoreInv
  <2> QED
    BY Zenon, <2>2, <2>3, EntitiesNext
<1>3. ImplementsEntityStore
        <=> Entities!Init /\ [][Entities!Next]_<<[s \in Stream |-> CommittedVersion(s)],
                                                 [s \in Stream |-> DurableState(s)], jobs>>
  BY DEF ImplementsEntityStore, Entities!Spec
<1> QED
  BY <1>1, <1>2, <1>3, AbiSafety, PTL DEF AbiSpec

\* Where native entities do not compact, a sequence number is assigned once
\* (engine.rs:1826-1828): rows are only ever added beyond the version.
THEOREM AbiSequencesNeverReused ==
    ASSUME Supported
    PROVE  AbiSpec => SequencesNeverReused
<1>1. AbiInv /\ [AbiNext]_abiVars
          => [\A s \in Stream :
                 \A x \in DOMAIN rows'[s] \ DOMAIN rows[s] : x > CommittedVersion(s)]_vars
  <2>1. SUFFICES ASSUME AbiInv, [AbiNext]_abiVars, NEW s \in Stream
                 PROVE  \A x \in DOMAIN rows'[s] \ DOMAIN rows[s] : x > CommittedVersion(s)
    BY Zenon
  <2>2. AbiInv' /\ StoreEffect
    BY Zenon, <2>1, AbiNextStep
  <2>3. StreamInv /\ StreamInv'
    BY Zenon, <2>1, <2>2 DEF AbiInv, StoreInv
  <2> QED
    BY Zenon, <2>2, <2>3, EffectGrows
<1> QED
  BY <1>1, AbiSafety, PTL DEF AbiSpec, SequencesNeverReused

=============================================================================

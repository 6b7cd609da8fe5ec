----------------------------- MODULE ClaimTokens -----------------------------
(***************************************************************************)
(* The claim registry of an open store (event-sorcery-ffi): es_job_claim   *)
(* reserves a slot, claims the durable job, and retains the won claim      *)
(* under a fresh token; es_job_renew and the settlement calls take a token *)
(* out of circulation, act on the durable job, and put it back or retire   *)
(* it.  Registry steps hold the registry mutex; the durable operation      *)
(* between two of them does not.                                           *)
(*                                                                         *)
(* The durable job is the one of JobQueue, each operation a single step,   *)
(* with instants instead of the flags due and lease; its row follows its   *)
(* stream at once.  There is no clock: every instant is an argument of the *)
(* call, and callers may disagree about the time or run backwards.         *)
(***************************************************************************)
EXTENDS Naturals, FiniteSets

CONSTANTS
    Job,         \* job ids
    Caller,      \* threads of the binding
    Token,       \* claim tokens; each is minted once
    None,        \* no entry, no token, no job
    MaxActive,   \* MAX_ACTIVE_CLAIMS
    MaxClaims,   \* bound: the greatest max_claims argument
    Unreadable,  \* jobs whose stored payload is not opaque bytes
    MaxInstant   \* bound: the last instant, in milliseconds

ASSUME BoundAssumption ==
    MaxActive \in Nat /\ MaxClaims \in Nat \ {0} /\ MaxInstant \in Nat
ASSUME FiniteAssumption == IsFiniteSet(Token) /\ IsFiniteSet(Caller) /\ IsFiniteSet(Job)
ASSUME NoneAssumption == None \notin Token \cup Job \cup Nat /\ Unreadable \subseteq Job

VARIABLES
    job,           \* per job, its durable state
    retained,      \* per token, its RetainedClaim or None
    reservations,  \* slots promised to claims in flight
    minted,        \* tokens handed out by the random generator
    pc,            \* per caller, where its call stands
    call           \* per caller, the locals of its call

vars == <<job, retained, reservations, minted, pc, call>>

\* The instants a caller may pass, as far as the guards tell them apart.
Instant == 0 .. MaxInstant

Status == {"pending", "claimed", "done", "dead"}

\* `seq` counts claims and stands for claim_seq and claim_id of the last one; the
\* lease column of a row rebuilt from its events is NULL, here None.
DurableJob == [status : Status, seq : Nat, claims : Nat, runAt : Nat, lease : Nat \cup {None}]

\* A job nobody has claimed, and one an earlier process had claimed when its row
\* was rebuilt.
Enqueued == [status |-> "pending", seq |-> 0, claims |-> 0, runAt |-> 0, lease |-> None]
LeftBehind == [status |-> "claimed", seq |-> 1, claims |-> 1, runAt |-> 0, lease |-> None]

RetainedClaim == [job : Job, seq : Nat, lease : Nat,
                  state : {"Available", "Renewing", "Settling"}]

ASSUME EntryAssumption == None \notin RetainedClaim

\* `now` is the instant of a claim, `until` the lease a claim or a renewal asks for.
Locals == [now : Instant, until : Instant, job : Job \cup {None},
           token : Token \cup {None}, seq : Nat]

NoCall == [now |-> 0, until |-> 0, job |-> None, token |-> None, seq |-> 0]

Phase == {"idle",
          "claim",      \* reserved, the durable claim is next
          "won",        \* durably claimed, the token is not retained yet
          "unusable",   \* durably claimed, payload unreadable
          "lapsed",     \* Abandoned or Skipped, tokens to be retired
          "unreserve",  \* the reservation is about to be dropped
          "renew", "held", "gone",
          "settle", "settled",
          "restore"}    \* the operation failed, its guard is about to be dropped

Init ==
    /\ job \in [Job -> {Enqueued, LeftBehind}]
    /\ retained = [t \in Token |-> None]
    /\ reservations = 0
    /\ minted = {}
    /\ pc = [c \in Caller |-> "idle"]
    /\ call = [c \in Caller |-> NoCall]

Goto(c, phase) == pc' = [pc EXCEPT ![c] = phase]

Return(c) ==
    /\ Goto(c, "idle")
    /\ call' = [call EXCEPT ![c] = NoCall]

\* A guard that may be dropped a second time counts down to zero only.
release_reservation == IF reservations > 0 THEN reservations - 1 ELSE 0

Held == {t \in Token : retained[t] # None}

-----------------------------------------------------------------------------
(* es_job_poll, whose candidates a caller claims; it may claim any id.     *)

\* Mutant: the arm for rebuilt rows is missing.
PollPredicateWithoutNull(j, now) ==
    \/ job[j].status = "pending" /\ job[j].runAt <= now
    \/ job[j].status = "claimed" /\ job[j].lease # None /\ job[j].lease < now

\* poll_predicate, for jobs of one kind: three conjunctions of column tests, a
\* comparison with NULL being false.
PollPredicate(j, now) ==
    \/ job[j].status = "pending" /\ job[j].runAt <= now
    \/ job[j].status = "claimed" /\ job[j].lease # None /\ job[j].lease < now
    \/ job[j].status = "claimed" /\ job[j].lease = None

\* find, ordered by poll_order: the sets of candidates a poll may answer, as many
\* as the limit allows, none due before one that is left out.
Find(now, limit) ==
    LET due == {j \in Job : PollPredicate(j, now)}
    IN  {found \in SUBSET due :
            /\ Cardinality(found) = IF Cardinality(due) < limit THEN Cardinality(due) ELSE limit
            /\ \A j \in found, k \in due \ found : job[j].runAt <= job[k].runAt}

-----------------------------------------------------------------------------
(* es_job_claim.                                                           *)

\* Mutant: a lease that ends at this instant counts as lapsed.
ExpiredAtLease(t, now) ==
    /\ retained[t] # None
    /\ retained[t].state = "Available"
    /\ retained[t].lease <= now

\* RetainedClaim::is_expired.
Expired(t, now) ==
    /\ retained[t] # None
    /\ retained[t].state = "Available"
    /\ retained[t].lease < now

Oldest(t, now) ==
    /\ Expired(t, now)
    /\ \A u \in Token : Expired(u, now) => retained[t].lease <= retained[u].lease

\* Mutant: a full registry is only noticed one slot too late.
FullOffByOne == Cardinality(Held) + reservations > MaxActive

Full == Cardinality(Held) + reservations + 1 > MaxActive

\* The token is minted, then prepare_claim reserves a slot, evicting the token
\* that lapsed first if there is none free, or fails with RESOURCE_LIMIT.  The
\* lease_ms argument is positive.
ClaimPrepare(c, j, t, now, until) ==
    /\ pc[c] = "idle"
    /\ now < until
    /\ t \notin minted
    /\ minted' = minted \cup {t}
    /\ IF Full
       THEN \E old \in Token : /\ Oldest(old, now)
                               /\ retained' = [retained EXCEPT ![old] = None]
       ELSE UNCHANGED retained
    /\ reservations' = reservations + 1
    /\ call' = [call EXCEPT ![c] = [now |-> now, until |-> until, job |-> j, token |-> t, seq |-> 0]]
    /\ Goto(c, "claim")
    /\ UNCHANGED job

\* plan_claim's reading of the job_queue row: the state decides which column
\* counts, for a pending row may carry the lease of an earlier claim.
Runnable(j, now) ==
    CASE job[j].status = "pending" -> job[j].runAt <= now
      [] job[j].status = "claimed" -> job[j].lease # None => job[j].lease < now
      [] OTHER -> FALSE

\* A settlement is fenced by the claim sequence and id: it applies to the claim
\* that still owns the job.
Owner(j, seq) == job[j].status = "claimed" /\ job[j].seq = seq

\* The end of a job, as far as anything reads it.
Finished(j, status) ==
    [status |-> status, seq |-> job[j].seq, claims |-> 0, runAt |-> 0, lease |-> None]

\* JobRuntime::claim_job wins within the call's max_claims; the payload is read
\* next.
ClaimWon(c) ==
    /\ pc[c] = "claim"
    /\ LET j == call[c].job
       IN  /\ Runnable(j, call[c].now)
           /\ \E max_claims \in 1 .. MaxClaims : job[j].claims < max_claims
           /\ job' = [job EXCEPT ![j] = [status |-> "claimed", seq |-> job[j].seq + 1,
                                         claims |-> job[j].claims + 1, runAt |-> job[j].runAt,
                                         lease |-> call[c].until]]
           /\ call' = [call EXCEPT ![c] = [now |-> call[c].now, until |-> call[c].until, job |-> j,
                                           token |-> call[c].token, seq |-> job[j].seq + 1]]
           /\ Goto(c, IF j \in Unreadable THEN "unusable" ELSE "won")
    /\ UNCHANGED <<retained, reservations, minted>>

ClaimAbandoned(c) ==
    /\ pc[c] = "claim"
    /\ LET j == call[c].job
       IN  /\ Runnable(j, call[c].now)
           /\ \E max_claims \in 1 .. MaxClaims : job[j].claims >= max_claims
           /\ job' = [job EXCEPT ![j] = Finished(j, "dead")]
    /\ Goto(c, "lapsed")
    /\ UNCHANGED <<retained, reservations, minted, call>>

ClaimSkipped(c) ==
    /\ pc[c] = "claim"
    /\ ~Runnable(call[c].job, call[c].now)
    /\ Goto(c, "lapsed")
    /\ UNCHANGED <<job, retained, reservations, minted, call>>

\* Contended, or a database error: the reservation is dropped, nothing else.
ClaimFailed(c) ==
    /\ pc[c] = "claim"
    /\ Goto(c, "unreserve")
    /\ UNCHANGED <<job, retained, reservations, minted, call>>

\* dead_letter_unusable_claim: applied, fenced, or failed in the database.
DeadLetterUnusable(c) ==
    /\ pc[c] = "unusable"
    /\ \/ Owner(call[c].job, call[c].seq) /\ job' = [job EXCEPT ![call[c].job] = Finished(call[c].job, "dead")]
       \/ UNCHANGED job
    /\ Goto(c, "unreserve")
    /\ UNCHANGED <<retained, reservations, minted, call>>

\* Mutant: tokens another call is working with are dropped too.
SupersededInUse(t, j) == retained[t] # None /\ retained[t].job = j

\* What issue removes: the job's other available tokens.
Superseded(t, j) ==
    /\ retained[t] # None
    /\ retained[t].job = j
    /\ retained[t].state = "Available"

\* ClaimReservation::issue consumes the reservation and returns the token.
Issue(c) ==
    /\ pc[c] = "won"
    /\ retained' = [t \in Token |->
           IF t = call[c].token
           THEN [job |-> call[c].job, seq |-> call[c].seq, lease |-> call[c].until,
                 state |-> "Available"]
           ELSE IF Superseded(t, call[c].job) THEN None ELSE retained[t]]
    /\ reservations' = release_reservation
    /\ Return(c)
    /\ UNCHANGED <<job, minted>>

\* retire_expired_claims: the tokens of the job that lapsed before the claim's
\* instant, whatever has happened since the durable answer.
RetireExpired(c) ==
    /\ pc[c] = "lapsed"
    /\ retained' = [t \in Token |->
           IF Expired(t, call[c].now) /\ retained[t].job = call[c].job THEN None ELSE retained[t]]
    /\ Goto(c, "unreserve")
    /\ UNCHANGED <<job, reservations, minted, call>>

\* ClaimReservation::drop.
Unreserve(c) ==
    /\ pc[c] = "unreserve"
    /\ reservations' = release_reservation
    /\ Return(c)
    /\ UNCHANGED <<job, retained, minted>>

-----------------------------------------------------------------------------
(* es_job_renew and the four settlement calls.                             *)

InState(t, state) == retained[t] # None /\ retained[t].state = state

WithState(t, state) ==
    [job |-> retained[t].job, seq |-> retained[t].seq, lease |-> retained[t].lease, state |-> state]

Begin(c, t, state, phase, until) ==
    /\ retained' = [retained EXCEPT ![t] = WithState(t, state)]
    /\ call' = [call EXCEPT ![c] = [now |-> 0, until |-> until, job |-> retained[t].job,
                                    token |-> t, seq |-> retained[t].seq]]
    /\ Goto(c, phase)
    /\ UNCHANGED <<job, reservations, minted>>

\* begin_renewal: any token ever issued may be presented, only an available one
\* is accepted.  The new lease is any instant, also one before the old lease.
BeginRenewal(c, t, until) ==
    /\ pc[c] = "idle"
    /\ InState(t, "Available")
    /\ Begin(c, t, "Renewing", "renew", until)

\* renew_job: an UPDATE keyed on the claim sequence, to the instant asked for.
Renew(c) ==
    /\ pc[c] = "renew"
    /\ \/ /\ Owner(call[c].job, call[c].seq)
          /\ job' = [job EXCEPT ![call[c].job].lease = call[c].until]
          /\ Goto(c, "held")
       \/ /\ ~Owner(call[c].job, call[c].seq)
          /\ UNCHANGED job
          /\ Goto(c, "gone")
       \/ /\ UNCHANGED job     \* a database error
          /\ Goto(c, "restore")
    /\ UNCHANGED <<retained, reservations, minted, call>>

\* Mutant: the renewed lease is not noted down.
CompleteKeepsLease(c) ==
    /\ pc[c] = "held"
    /\ InState(call[c].token, "Renewing")
    /\ retained' = [retained EXCEPT ![call[c].token] = WithState(call[c].token, "Available")]
    /\ Return(c)
    /\ UNCHANGED <<job, reservations, minted>>

\* ClaimRenewal::complete; without its entry the call fails, changing nothing.
CompleteRenewal(c) ==
    /\ pc[c] = "held"
    /\ retained' = IF InState(call[c].token, "Renewing")
                   THEN [retained EXCEPT ![call[c].token] =
                            [job |-> call[c].job, seq |-> call[c].seq,
                             lease |-> call[c].until, state |-> "Available"]]
                   ELSE retained
    /\ Return(c)
    /\ UNCHANGED <<job, reservations, minted>>

\* begin_settlement.
BeginSettlement(c, t) ==
    /\ pc[c] = "idle"
    /\ InState(t, "Available")
    /\ Begin(c, t, "Settling", "settle", 0)

\* acknowledge, retry, defer or dead-letter the claim: applied, fenced, or
\* failed: in the database, or refused by the runtime for its instant, its
\* exhausted attempts or the claim's state.  Retry and defer choose the next
\* run_at, which may be past.
Settle(c) ==
    /\ pc[c] = "settle"
    /\ LET j == call[c].job
       IN  \/ /\ Owner(j, call[c].seq)
              /\ \/ \E status \in {"done", "dead"} :
                      job' = [job EXCEPT ![j] = Finished(j, status)]
                 \/ \E defer \in BOOLEAN, run_at \in Instant :
                      job' = [job EXCEPT ![j] =
                                [status |-> "pending", seq |-> job[j].seq,
                                 claims |-> IF defer THEN 0 ELSE job[j].claims,
                                 runAt |-> run_at, lease |-> job[j].lease]]
              /\ Goto(c, "settled")
           \/ ~Owner(j, call[c].seq) /\ UNCHANGED job /\ Goto(c, "settled")
           \/ UNCHANGED job /\ Goto(c, "restore")
    /\ UNCHANGED <<retained, reservations, minted, call>>

\* retire_claim: after a settlement, or a renewal that found the claim lost.
RetireClaim(c) ==
    /\ pc[c] \in {"settled", "gone"}
    /\ retained' = [retained EXCEPT ![call[c].token] = None]
    /\ Return(c)
    /\ UNCHANGED <<job, reservations, minted>>

\* The destructors of ClaimRenewal and ClaimSettlement put the token back, if it
\* is still in the state they left it in.
Restore(c) ==
    /\ pc[c] = "restore"
    /\ retained' = IF \E state \in {"Renewing", "Settling"} : InState(call[c].token, state)
                   THEN [retained EXCEPT ![call[c].token] = WithState(call[c].token, "Available")]
                   ELSE retained
    /\ Return(c)
    /\ UNCHANGED <<job, reservations, minted>>

-----------------------------------------------------------------------------
ClaimStep(c) ==
    \/ ClaimWon(c) \/ ClaimAbandoned(c) \/ ClaimSkipped(c) \/ ClaimFailed(c)
    \/ DeadLetterUnusable(c) \/ Issue(c) \/ RetireExpired(c) \/ Unreserve(c)

TokenStep(c) ==
    \/ Renew(c) \/ CompleteRenewal(c) \/ Settle(c) \/ RetireClaim(c) \/ Restore(c)

Next ==
    \E c \in Caller :
      \/ \E j \in Job, t \in Token, now, until \in Instant : ClaimPrepare(c, j, t, now, until)
      \/ \E t \in Token, until \in Instant : BeginRenewal(c, t, until)
      \/ \E t \in Token : BeginSettlement(c, t)
      \/ ClaimStep(c)
      \/ TokenStep(c)

Spec == Init /\ [][Next]_vars

-----------------------------------------------------------------------------
(* Properties.                                                             *)

Claiming == {"claim", "won", "unusable", "lapsed", "unreserve"}

Working == {"renew", "held", "gone", "settle", "settled", "restore"}

\* Every variable has its type.
TypeOK ==
    /\ job \in [Job -> DurableJob]
    /\ retained \in [Token -> RetainedClaim \cup {None}]
    /\ reservations \in Nat
    /\ minted \subseteq Token
    /\ pc \in [Caller -> Phase]
    /\ call \in [Caller -> Locals]

\* The registry never outgrows MAX_ACTIVE_CLAIMS, slots promised to claims in
\* flight included, and every way out of a claim gives its slot back.
CapacityKept ==
    /\ Cardinality(Held) + reservations <= MaxActive
    /\ reservations = Cardinality({c \in Caller : pc[c] \in Claiming})

\* A token in use is in use by exactly one call, and a call's token stays
\* retained while the call is under way: no replay overtakes it, and neither an
\* eviction nor a newer claim of the job drops it.
OneCallPerToken ==
    /\ \A c \in Caller : pc[c] \in Working =>
         /\ retained[call[c].token] # None
         /\ retained[call[c].token].state # "Available"
    /\ \A t \in Held : retained[t].state # "Available" =>
         Cardinality({c \in Caller : pc[c] \in Working /\ call[c].token = t}) = 1

\* What a poll offers is what a claim accepts, at every instant: the SQL of the
\* predicate and the planner's reading of the same row agree, rows rebuilt
\* without their lease and pending rows with an old one included, and the job
\* due first is offered first, so that a poll of one never starves it.
PollAgreesWithPlan ==
    \A now \in Instant :
        /\ \A j \in Job : PollPredicate(j, now) <=> Runnable(j, now)
        /\ \A found \in Find(now, 1) : \A j \in found, k \in Job :
              Runnable(k, now) => job[j].runAt <= job[k].runAt

\* An available token of the claim that owns its job knows the durable lease, so
\* it counts as lapsed only at instants at which the claim can be taken over.
LeaseMirrored ==
    \A t \in Held :
        (retained[t].state = "Available" /\ Owner(retained[t].job, retained[t].seq))
            => retained[t].lease = job[retained[t].job].lease

\* Caller c drops tokens as lapsed: prepare_claim evicts one, or
\* retire_expired_claims retires a job's.
DropsLapsed(c) ==
    \/ pc[c] = "idle" /\ pc'[c] = "claim"
    \/ pc[c] = "lapsed" /\ pc'[c] = "unreserve"

\* A token dropped as lapsed is no loss that the queue could not have inflicted
\* too: its claim no longer owns the job, or at the dropping call's own instant
\* the durable lease has run out and any claim may take the job over.  This
\* holds although the drop comes some time after the durable answer, and
\* whatever instants the callers pass, shortened leases included.
DroppedIsTakeable ==
    [][\A c \in Caller : DropsLapsed(c) =>
         \A t \in Held :
             retained'[t] = None /\ Owner(retained[t].job, retained[t].seq)
                 => Runnable(retained[t].job, call'[c].now)]_vars

\* "Retains `token` as the job's only settleable claim": issuing a token never
\* drops the token of the claim that owns the job.
IssueSparesOwner ==
    [][\A c \in Caller : (pc[c] = "won" /\ pc'[c] = "idle") =>
         \A t \in Held : retained'[t] = None => ~Owner(retained[t].job, retained[t].seq)]_vars

=============================================================================

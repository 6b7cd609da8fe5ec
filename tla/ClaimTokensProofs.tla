-------------------------- MODULE ClaimTokensProofs --------------------------
(***************************************************************************)
(* The safety of the claim registry (ClaimTokens) for any number of jobs,  *)
(* callers and tokens, any capacity and claim budget, and whatever         *)
(* instants the callers pass.                                              *)
(***************************************************************************)
EXTENDS ClaimTokens, FiniteSetTheorems, TLAPS

Busy == Claiming \cup Working

\* The locals of a call: its token and job are known.
CallInv ==
    \A c \in Caller : pc[c] \in Busy => call[c].token \in Token /\ call[c].job \in Job

\* Whose token is whose: a claim's token is minted and not retained yet, the
\* token of a renewal or settlement is retained and in use by that call alone.
TokenInv ==
    /\ Held \subseteq minted
    /\ \A c \in Caller : pc[c] \in Claiming =>
          call[c].token \in minted /\ retained[call[c].token] = None
    /\ \A c, d \in Caller :
          pc[c] \in Busy /\ pc[d] \in Busy /\ call[c].token = call[d].token => c = d
    /\ \A c \in Caller : pc[c] \in Working =>
          /\ retained[call[c].token] # None
          /\ retained[call[c].token].state # "Available"
          /\ retained[call[c].token].job = call[c].job
          /\ retained[call[c].token].seq = call[c].seq
          /\ pc[c] = "held" => retained[call[c].token].state = "Renewing"
          /\ pc[c] = "renew" => retained[call[c].token].state = "Renewing"
    /\ \A t \in Held : retained[t].state # "Available" =>
          \E c \in Caller : pc[c] \in Working /\ call[c].token = t

\* A claim (job and sequence) belongs to one token, or to one call that is about
\* to issue its token; no sequence runs ahead of the job's.
SeqInv ==
    /\ \A t \in Held : retained[t].seq <= job[retained[t].job].seq
    /\ \A c \in Caller : pc[c] = "won" => call[c].seq <= job[call[c].job].seq
    /\ \A t, u \in Held :
          retained[t].job = retained[u].job /\ retained[t].seq = retained[u].seq => t = u
    /\ \A t \in Held, c \in Caller :
          pc[c] = "won" => ~(retained[t].job = call[c].job /\ retained[t].seq = call[c].seq)
    /\ \A c, d \in Caller :
          pc[c] = "won" /\ pc[d] = "won" /\ call[c].job = call[d].job /\ call[c].seq = call[d].seq
            => c = d

\* Where the lease of an owner is written down: a call that has just claimed or
\* renewed knows it, and so does the token of every owner whom no renewal is
\* about to tell.
CallLease ==
    \A c \in Caller : pc[c] \in {"won", "held"} /\ Owner(call[c].job, call[c].seq) =>
        job[call[c].job].lease = call[c].until
TokenLease ==
    \A t \in Held :
        /\ Owner(retained[t].job, retained[t].seq)
        /\ ~\E c \in Caller : pc[c] = "held" /\ call[c].token = t
        => retained[t].lease = job[retained[t].job].lease

LeaseInv == CallLease /\ TokenLease

IInv == TypeOK /\ CapacityKept /\ CallInv /\ TokenInv /\ SeqInv /\ LeaseInv

-----------------------------------------------------------------------------
(* The frame: what a step of one caller does to the others.                *)

\* A step of caller c, the caller's part of Next.
Step(c) ==
    \/ \E j \in Job, t \in Token, now, until \in Instant : ClaimPrepare(c, j, t, now, until)
    \/ \E t \in Token, until \in Instant : BeginRenewal(c, t, until)
    \/ \E t \in Token : BeginSettlement(c, t)
    \/ ClaimStep(c)
    \/ TokenStep(c)

\* A call is local to its caller.
Others(c) == \A d \in Caller \ {c} : pc'[d] = pc[d] /\ call'[d] = call[d]

\* Every step is one caller's.
LEMMA StepOfOne == Next <=> \E c \in Caller : Step(c)
BY Zenon DEF Next, Step

\* Instants are numbers, zero is one.
LEMMA InstantType == Instant \subseteq Nat /\ 0 \in Instant
BY BoundAssumption DEF Instant

\* Reading and rewriting a registry entry.
LEMMA EntryType ==
    ASSUME TypeOK, NEW t \in Token, retained[t] # None, NEW state \in {"Available", "Renewing", "Settling"}
    PROVE  /\ retained[t] \in RetainedClaim
           /\ WithState(t, state) \in RetainedClaim
           /\ WithState(t, state) # None
BY EntryAssumption DEF TypeOK, WithState, RetainedClaim

\* renew_job touches the lease of the claim it owns, and nothing else.
LEMMA RenewEffect ==
    ASSUME TypeOK, CallInv, NEW c \in Caller, Renew(c)
    PROVE  /\ job' \in [Job -> DurableJob]
           /\ \A k \in Job : /\ job'[k].status = job[k].status /\ job'[k].seq = job[k].seq
                             /\ job'[k].runAt = job[k].runAt
                             /\ \/ job'[k].lease = job[k].lease
                                \/ /\ k = call[c].job /\ pc'[c] = "held"
                                   /\ Owner(k, call[c].seq)
                                   /\ job'[k].lease = call[c].until
           /\ pc'[c] = "held" =>
                 Owner(call[c].job, call[c].seq) /\ job'[call[c].job].lease = call[c].until
           /\ pc[c] = "renew" /\ pc'[c] \in {"held", "gone", "restore"}
           /\ pc' = [pc EXCEPT ![c] = pc'[c]]
<1> USE DEF TypeOK, CallInv, Busy, Working, Goto
<1>0. call[c].job \in Job /\ call[c].until \in Nat /\ pc[c] = "renew"
  BY Zenon, InstantType DEF Renew, Locals
<1> DEFINE j == call[c].job
           lease == call[c].until
<1>1. CASE Owner(j, call[c].seq) /\ job' = [job EXCEPT ![j].lease = lease] /\ Goto(c, "held")
  <2>1. job[j] \in DurableJob /\ job'[j] = [job[j] EXCEPT !.lease = lease]
    BY Zenon, <1>0, <1>1
  <2>2. /\ job'[j] \in DurableJob /\ job'[j].status = job[j].status /\ job'[j].seq = job[j].seq
        /\ job'[j].runAt = job[j].runAt /\ job'[j].lease = lease
    BY Zenon, <1>0, <2>1 DEF DurableJob
  <2>3. \A k \in Job \ {j} : job'[k] = job[k]
    BY Zenon, <1>0, <1>1
  <2>4. job' = [k \in Job |-> job'[k]]
    BY Zenon, <1>1
  <2>5. job' \in [Job -> DurableJob]
    BY Zenon, <2>2, <2>3, <2>4
  <2> QED
    BY Zenon, <1>0, <1>1, <2>2, <2>3, <2>5
<1>2. CASE UNCHANGED job /\ (Goto(c, "gone") \/ Goto(c, "restore"))
  BY Zenon, <1>0, <1>2
<1> QED
  BY Zenon, <1>1, <1>2 DEF Renew

\* A settlement that applies ends the claim it owns: the job is finished or
\* pending again.
LEMMA SettleEffect ==
    ASSUME TypeOK, CallInv, NEW c \in Caller, Settle(c)
    PROVE  /\ job' \in [Job -> DurableJob]
           /\ \A k \in Job : /\ job'[k].seq = job[k].seq
                             /\ job'[k].lease \in {job[k].lease, None}
                             /\ \/ job'[k] = job[k]
                                \/ /\ k = call[c].job /\ Owner(k, call[c].seq)
                                   /\ job'[k].status \in {"done", "dead", "pending"}
           /\ pc[c] = "settle" /\ pc'[c] \in {"settled", "restore"}
           /\ pc' = [pc EXCEPT ![c] = pc'[c]]
<1> USE DEF TypeOK, CallInv, Busy, Working, Goto
<1>0. call[c].job \in Job /\ pc[c] = "settle"
  BY Zenon DEF Settle, Locals
<1> DEFINE j == call[c].job
<1>1. CASE Owner(j, call[c].seq) /\ Goto(c, "settled")
           /\ \E status \in {"done", "dead"} : job' = [job EXCEPT ![j] = Finished(j, status)]
  BY <1>0, <1>1 DEF Finished, DurableJob, Status
<1>2. CASE Owner(j, call[c].seq) /\ Goto(c, "settled")
           /\ \E defer \in BOOLEAN, run_at \in Instant :
                job' = [job EXCEPT ![j] =
                          [status |-> "pending", seq |-> job[j].seq,
                           claims |-> IF defer THEN 0 ELSE job[j].claims,
                           runAt |-> run_at, lease |-> job[j].lease]]
  <2>0. PICK defer \in BOOLEAN, run_at \in Instant :
                job' = [job EXCEPT ![j] =
                          [status |-> "pending", seq |-> job[j].seq,
                           claims |-> IF defer THEN 0 ELSE job[j].claims,
                           runAt |-> run_at, lease |-> job[j].lease]]
    BY Zenon, <1>2
  <2>1. run_at \in Nat
    BY Zenon, InstantType
  <2>2. (IF defer THEN 0 ELSE job[j].claims) \in Nat
    BY Zenon, <1>0 DEF DurableJob
  <2> QED
    BY ZenonT(30), <1>0, <1>2, <2>0, <2>1, <2>2 DEF DurableJob, Status
<1>3. CASE UNCHANGED job /\ (Goto(c, "settled") \/ Goto(c, "restore"))
  BY Zenon, <1>0, <1>3
<1> QED
  BY Zenon, <1>1, <1>2, <1>3 DEF Settle

\* A destructor touches its own token's entry, and that only to make it available.
LEMMA RestoreEffect ==
    ASSUME TypeOK, CallInv, NEW c \in Caller, Restore(c)
    PROVE  /\ pc[c] = "restore" /\ call[c].token \in Token
           /\ retained' \in [Token -> RetainedClaim \cup {None}]
           /\ \A u \in Token \ {call[c].token} : retained'[u] = retained[u]
           /\ \A u \in Token : retained'[u] # None =>
                /\ retained[u] # None /\ retained'[u].lease = retained[u].lease
                /\ retained'[u].job = retained[u].job /\ retained'[u].seq = retained[u].seq
           /\ retained[call[c].token] # None /\ retained[call[c].token].state # "Available"
                => retained'[call[c].token].state = "Available"
<1> DEFINE t == call[c].token
<1>1. /\ pc[c] = "restore" /\ t \in Token
      /\ retained \in [Token -> RetainedClaim \cup {None}]
  BY Zenon DEF Restore, TypeOK, CallInv, Busy, Working
<1>2. CASE \E state \in {"Renewing", "Settling"} : InState(t, state)
  <2>1. retained[t] # None /\ retained' = [retained EXCEPT ![t] = WithState(t, "Available")]
    BY Zenon, <1>2 DEF Restore, InState
  <2>2. WithState(t, "Available") \in RetainedClaim
    BY Zenon, <1>1, <2>1, EntryType
  <2>3. retained'[t] = WithState(t, "Available")
    BY Zenon, <1>1, <2>1
  <2>4. /\ retained'[t].lease = retained[t].lease /\ retained'[t].job = retained[t].job
        /\ retained'[t].seq = retained[t].seq /\ retained'[t].state = "Available"
    BY <2>3 DEF WithState
  <2>5. \A u \in Token \ {t} : retained'[u] = retained[u]
    BY Zenon, <1>1, <2>1
  <2> QED
    BY Zenon, <1>1, <2>1, <2>2, <2>4, <2>5
<1>3. CASE ~\E state \in {"Renewing", "Settling"} : InState(t, state)
  <2>1. retained' = retained
    BY Zenon, <1>3 DEF Restore
  <2>2. retained[t] # None => retained[t].state = "Available"
    BY Zenon, <1>1, <1>3 DEF InState, RetainedClaim
  <2> QED
    BY Zenon, <1>1, <2>1, <2>2
<1> QED
  BY Zenon, <1>2, <1>3

\* A caller that moves from one phase of its token's call to the next, keeping its
\* locals, disturbs no other caller.
LEMMA CallerMoves ==
    ASSUME TypeOK, CallInv, NEW c \in Caller,
           UNCHANGED <<retained, reservations, minted, call>>,
           job' \in [Job -> DurableJob], pc' = [pc EXCEPT ![c] = pc'[c]],
           pc[c] \in Working, pc'[c] \in Working
    PROVE  Others(c) /\ TypeOK' /\ CallInv'
<1>1. pc'[c] \in Phase
  BY Zenon DEF Working, Phase
<1>2. \A d \in Caller : d # c => pc'[d] = pc[d]
  BY DEF TypeOK
<1>3. pc' \in [Caller -> Phase]
  BY <1>1 DEF TypeOK
<1>4. Others(c)
  BY Zenon, <1>2 DEF Others
<1>5. TypeOK'
  BY Zenon, <1>3 DEF TypeOK
<1>6. CallInv'
  BY <1>2 DEF CallInv, Busy, Claiming, Working
<1> QED
  BY Zenon, <1>4, <1>5, <1>6

\* No step touches another caller's call, and every variable keeps its type.
LEMMA OthersKept ==
    ASSUME TypeOK, CallInv, NEW c \in Caller, Step(c)
    PROVE  Others(c) /\ TypeOK' /\ CallInv'
<1> USE BoundAssumption, InstantType DEF TypeOK, CallInv, Others, Goto, Return, Phase, Locals, NoCall,
        Busy, Claiming, Working
<1>1. ASSUME NEW j \in Job, NEW t \in Token, NEW now \in Instant, NEW until \in Instant,
             ClaimPrepare(c, j, t, now, until)
      PROVE  Others(c) /\ TypeOK' /\ CallInv'
  BY <1>1 DEF ClaimPrepare
<1>2. ASSUME NEW t \in Token, NEW state \in {"Renewing", "Settling"}, NEW p \in {"renew", "settle"},
             NEW until \in Instant, InState(t, "Available"), Begin(c, t, state, p, until)
      PROVE  Others(c) /\ TypeOK' /\ CallInv'
  <2>1. retained[t] \in RetainedClaim /\ WithState(t, state) \in RetainedClaim
    BY Zenon, <1>2, EntryType DEF InState
  <2> QED
    BY <1>2, <2>1 DEF Begin, RetainedClaim
<1>3. CASE ClaimStep(c)
  <2>1. CASE ClaimWon(c)
    <3> DEFINE j == call[c].job
               won == [status |-> "claimed", seq |-> job[j].seq + 1, claims |-> job[j].claims + 1,
                       runAt |-> job[j].runAt, lease |-> call[c].until]
               locals == [now |-> call[c].now, until |-> call[c].until, job |-> j,
                          token |-> call[c].token, seq |-> job[j].seq + 1]
    <3>0. call[c] \in Locals /\ pc[c] = "claim"
      BY Zenon, <2>1 DEF ClaimWon
    <3>1. /\ j \in Job /\ job[j] \in DurableJob /\ call[c].until \in Instant /\ call[c].now \in Instant
          /\ call[c].token \in Token
      BY <3>0
    <3>8. job[j].seq \in Nat /\ job[j].claims \in Nat /\ job[j].runAt \in Nat
      BY Zenon, <3>1 DEF DurableJob
    <3>9. job[j].seq + 1 \in Nat /\ job[j].claims + 1 \in Nat
      BY ONLY <3>8, SMT
    <3>2. won \in DurableJob
      BY Zenon, <3>1, <3>8, <3>9 DEF DurableJob, Status
    <3>3. locals \in Locals
      BY Zenon, <3>1, <3>9
    <3>4. job' = [job EXCEPT ![j] = won] /\ call' = [call EXCEPT ![c] = locals]
      BY Zenon, <2>1 DEF ClaimWon
    <3>5. PICK p \in {"won", "unusable"} : pc' = [pc EXCEPT ![c] = p]
      BY Zenon, <2>1 DEF ClaimWon
    <3>6. locals.token \in Token /\ locals.job \in Job
      BY Zenon, <3>1
    <3>7. UNCHANGED <<retained, reservations, minted>>
      BY Zenon, <2>1 DEF ClaimWon
    <3> HIDE DEF won, locals, j
    <3> QED
      BY <3>1, <3>2, <3>3, <3>4, <3>5, <3>6, <3>7
  <2>2. CASE ClaimAbandoned(c)
    BY Zenon, <2>2 DEF ClaimAbandoned, Finished, DurableJob, Status
  <2>3. CASE ClaimSkipped(c) \/ ClaimFailed(c)
    BY ZenonT(30), <2>3 DEF ClaimSkipped, ClaimFailed
  <2>4. CASE DeadLetterUnusable(c)
    BY <2>4 DEF DeadLetterUnusable, Finished, DurableJob, Status
  <2>5. CASE Issue(c)
    <3>1. call[c].until \in Nat /\ call[c].job \in Job /\ call[c].seq \in Nat
      BY Zenon, <2>5 DEF Issue
    <3>2. [job |-> call[c].job, seq |-> call[c].seq, lease |-> call[c].until, state |-> "Available"]
             \in RetainedClaim
      BY <3>1 DEF RetainedClaim
    <3>3. retained' \in [Token -> RetainedClaim \cup {None}]
      BY Zenon, <2>5, <3>2 DEF Issue
    <3>4. pc' = [pc EXCEPT ![c] = "idle"] /\ call' = [call EXCEPT ![c] = NoCall]
          /\ UNCHANGED <<job, minted>> /\ reservations' = release_reservation
      BY Zenon, <2>5 DEF Issue
    <3>5. reservations' \in Nat
      BY <3>4 DEF release_reservation
    <3> QED
      BY <3>3, <3>4, <3>5
  <2>6. CASE RetireExpired(c)
    BY Zenon, <2>6 DEF RetireExpired
  <2>7. CASE Unreserve(c)
    BY <2>7 DEF Unreserve, release_reservation
  <2> QED
    BY ZenonT(30), <1>3, <2>1, <2>2, <2>3, <2>4, <2>5, <2>6, <2>7 DEF ClaimStep
<1>4. CASE TokenStep(c)
  <2>1. CASE Renew(c)
    <3>1. UNCHANGED <<retained, reservations, minted, call>>
      BY Zenon, <2>1 DEF Renew
    <3>2. /\ job' \in [Job -> DurableJob] /\ pc' = [pc EXCEPT ![c] = pc'[c]]
          /\ pc[c] \in Working /\ pc'[c] \in Working
      BY Zenon, <2>1, RenewEffect DEF Renew
    <3> QED
      BY Zenon, <3>1, <3>2, CallerMoves
  <2>2. CASE CompleteRenewal(c)
    BY <2>2 DEF CompleteRenewal, RetainedClaim
  <2>3. CASE Settle(c)
    <3>1. UNCHANGED <<retained, reservations, minted, call>>
      BY Zenon, <2>3 DEF Settle
    <3>2. /\ job' \in [Job -> DurableJob] /\ pc' = [pc EXCEPT ![c] = pc'[c]]
          /\ pc[c] \in Working /\ pc'[c] \in Working
      BY Zenon, <2>3, SettleEffect DEF Settle
    <3> QED
      BY Zenon, <3>1, <3>2, CallerMoves
  <2>4. CASE RetireClaim(c)
    BY <2>4 DEF RetireClaim
  <2>5. CASE Restore(c)
    <3>1. retained' \in [Token -> RetainedClaim \cup {None}]
      BY Zenon, <2>5, RestoreEffect
    <3>2. pc' = [pc EXCEPT ![c] = "idle"] /\ call' = [call EXCEPT ![c] = NoCall]
          /\ UNCHANGED <<job, reservations, minted>>
      BY Zenon, <2>5 DEF Restore
    <3> QED
      BY <3>1, <3>2
  <2> QED
    BY Zenon, <1>4, <2>1, <2>2, <2>3, <2>4, <2>5 DEF TokenStep
<1> QED
  BY Zenon, <1>1, <1>2, <1>3, <1>4, InstantType DEF Step, BeginRenewal, BeginSettlement


-----------------------------------------------------------------------------
(* The parts of IInv, each kept by every step.                             *)

InFlight == {c \in Caller : pc[c] \in Claiming}

\* Tokens and calls are finitely many, so both counts are numbers.
LEMMA CountsFinite ==
    /\ IsFiniteSet(Held) /\ Cardinality(Held) \in Nat
    /\ IsFiniteSet(InFlight) /\ Cardinality(InFlight) \in Nat
BY Zenon, FiniteAssumption, FS_Subset, FS_CardinalityType DEF Held, InFlight

\* The capacity holds across a step that retains nothing new and neither takes
\* nor gives back a slot.
LEMMA CapacityFrame ==
    ASSUME TypeOK, CapacityKept, NEW c \in Caller, Others(c), Held' \subseteq Held,
           UNCHANGED reservations, pc[c] \in Claiming <=> pc'[c] \in Claiming
    PROVE  CapacityKept'
<1>1. InFlight' = InFlight
  BY Zenon DEF InFlight, Others
<1>2. Cardinality(Held') \in Nat /\ Cardinality(Held') <= Cardinality(Held)
  BY Zenon, CountsFinite, FS_Subset, FS_CardinalityType
<1>3. CapacityKept <=> Cardinality(Held) + reservations <= MaxActive /\ reservations = Cardinality(InFlight)
  BY Zenon DEF CapacityKept, InFlight
<1>4. CapacityKept' <=> Cardinality(Held') + reservations' <= MaxActive /\ reservations' = Cardinality(InFlight')
  BY Zenon DEF CapacityKept, InFlight
<1> QED
  BY <1>1, <1>2, <1>3, <1>4, CountsFinite, BoundAssumption DEF TypeOK

\* A claim takes a slot that is free or that its eviction frees, and gives it
\* back once: on issue, or when its reservation is dropped.
LEMMA CapacityStep ==
    ASSUME TypeOK, CallInv, CapacityKept, NEW c \in Caller, Step(c)
    PROVE  CapacityKept'
<1>0. Others(c) /\ TypeOK'
  BY Zenon, OthersKept
<1>a. CapacityKept <=> Cardinality(Held) + reservations <= MaxActive /\ reservations = Cardinality(InFlight)
  BY Zenon DEF CapacityKept, InFlight
<1>b. CapacityKept' <=> Cardinality(Held') + reservations' <= MaxActive /\ reservations' = Cardinality(InFlight')
  BY Zenon DEF CapacityKept, InFlight
<1>c. MaxActive \in Nat /\ reservations \in Nat
  BY Zenon, BoundAssumption DEF TypeOK
\* The step out of a claim.
<1>d. ASSUME pc[c] \in Claiming, pc'[c] \notin Claiming, reservations' = release_reservation,
             NEW t, Held' \subseteq Held \cup {t}
      PROVE  CapacityKept'
  <2>1. c \in InFlight /\ InFlight' = InFlight \ {c}
    BY Zenon, <1>0, <1>d DEF InFlight, Others
  <2>2. Cardinality(InFlight \ {c}) = Cardinality(InFlight) - 1
    BY ONLY <2>1, CountsFinite, FS_RemoveElement, Zenon
  <2>3. Cardinality(InFlight) # 0
    BY Zenon, <2>1, CountsFinite, FS_EmptySet
  <2>4. reservations' = reservations - 1
    BY <1>a, <1>c, <1>d, <2>3, CountsFinite DEF release_reservation
  <2>5. /\ IsFiniteSet(Held \cup {t})
        /\ Cardinality(Held \cup {t}) = Cardinality(Held) \/ Cardinality(Held \cup {t}) = Cardinality(Held) + 1
    BY Zenon, CountsFinite, FS_AddElement
  <2>6. Cardinality(Held') \in Nat /\ Cardinality(Held') <= Cardinality(Held \cup {t})
    BY Zenon, <1>d, <2>5, FS_Subset, FS_CardinalityType
  <2> QED
    BY <1>a, <1>b, <1>c, <2>1, <2>2, <2>4, <2>5, <2>6, CountsFinite
<1>1. ASSUME NEW j \in Job, NEW t \in Token, NEW now \in Instant, NEW until \in Instant,
             ClaimPrepare(c, j, t, now, until)
      PROVE  CapacityKept'
  <2>1. pc[c] = "idle" /\ pc'[c] = "claim" /\ reservations' = reservations + 1
    BY Zenon, <1>1 DEF ClaimPrepare, TypeOK, Goto
  <2>2. c \notin InFlight /\ InFlight' = InFlight \cup {c}
    BY Zenon, <1>0, <2>1 DEF InFlight, Others, Claiming
  <2>3. Cardinality(InFlight \cup {c}) = Cardinality(InFlight) + 1
    BY ONLY <2>2, CountsFinite, FS_AddElement, Zenon
  <2>4. CASE Full
    <3>1. PICK old \in Token : Oldest(old, now) /\ retained' = [retained EXCEPT ![old] = None]
      BY Zenon, <1>1, <2>4 DEF ClaimPrepare
    <3>2. old \in Held /\ Held' = Held \ {old}
      BY Zenon, <3>1 DEF Held, Oldest, Expired, TypeOK
    <3>3. Cardinality(Held \ {old}) = Cardinality(Held) - 1
      BY ONLY <3>2, CountsFinite, FS_RemoveElement, Zenon
    <3> QED
      BY <1>a, <1>b, <1>c, <2>1, <2>2, <2>3, <3>2, <3>3, CountsFinite
  <2>5. CASE ~Full
    <3>1. Held' = Held
      BY Zenon, <1>1, <2>5 DEF ClaimPrepare, Held
    <3> QED
      BY <1>a, <1>b, <1>c, <2>1, <2>2, <2>3, <2>5, <3>1, CountsFinite DEF Full
  <2> QED
    BY Zenon, <2>4, <2>5
<1>2. ASSUME NEW t \in Token, NEW state, NEW p \in {"renew", "settle"}, pc[c] = "idle",
             NEW until, InState(t, "Available"), Begin(c, t, state, p, until)
      PROVE  CapacityKept'
  <2>1. Held' \subseteq Held /\ UNCHANGED reservations /\ pc'[c] = p
    BY Zenon, <1>2 DEF Begin, Held, TypeOK, InState, Goto
  <2> QED
    BY Zenon, <1>0, <1>2, <2>1, CapacityFrame DEF Claiming
<1>3. CASE ClaimStep(c)
  <2>1. CASE ClaimWon(c) \/ ClaimAbandoned(c) \/ ClaimSkipped(c) \/ ClaimFailed(c) \/ DeadLetterUnusable(c)
    <3>1. pc[c] \in Claiming /\ pc'[c] \in Claiming /\ UNCHANGED <<reservations, retained>>
      BY Zenon, <2>1 DEF ClaimWon, ClaimAbandoned, ClaimSkipped, ClaimFailed, DeadLetterUnusable, Goto,
                  Claiming, TypeOK
    <3>2. Held' = Held
      BY Zenon, <3>1 DEF Held
    <3> QED
      BY Zenon, <1>0, <3>1, <3>2, CapacityFrame
  <2>2. CASE Issue(c)
    <3>1. Held' \subseteq Held \cup {call[c].token}
      BY Zenon, <2>2 DEF Issue, Held
    <3> QED
      BY Zenon, <1>d, <2>2, <3>1 DEF Issue, Return, Goto, Claiming, TypeOK
  <2>3. CASE RetireExpired(c)
    <3>1. Held' \subseteq Held
      BY Zenon, <2>3 DEF RetireExpired, Held
    <3> QED
      BY Zenon, <1>0, <2>3, <3>1, CapacityFrame DEF RetireExpired, Goto, Claiming, TypeOK
  <2>4. CASE Unreserve(c)
    <3>1. Held' \subseteq Held \cup {call[c].token}
      BY Zenon, <2>4 DEF Unreserve, Held
    <3> QED
      BY Zenon, <1>d, <2>4, <3>1 DEF Unreserve, Return, Goto, Claiming, TypeOK
  <2> QED
    BY Zenon, <1>3, <2>1, <2>2, <2>3, <2>4 DEF ClaimStep
<1>4. CASE TokenStep(c)
  <2>1. pc[c] \in Working /\ pc'[c] \notin Claiming /\ UNCHANGED reservations
    BY Zenon, <1>4 DEF TokenStep, Renew, CompleteRenewal, Settle, RetireClaim, Restore, Return, Goto,
                Working, Claiming, TypeOK
  <2>2. Held' \subseteq Held
    BY Zenon, <1>4 DEF TokenStep, Renew, CompleteRenewal, Settle, RetireClaim, Restore, Held, InState, TypeOK
  <2> QED
    BY Zenon, <1>0, <2>1, <2>2, CapacityFrame DEF Working, Claiming
<1> QED
  BY Zenon, <1>1, <1>2, <1>3, <1>4, InstantType DEF Step, BeginRenewal, BeginSettlement


\* Tokens change hands one call at a time: a claim's token is fresh, a renewal or
\* settlement takes an available one, and only its own call returns or drops it.
LEMMA TokenStepKept ==
    ASSUME TypeOK, CallInv, TokenInv, NEW c \in Caller, Step(c)
    PROVE  TokenInv'
<1> USE DEF TokenInv, Held, Others, Goto, Return, Busy, Claiming, Working
<1>0. Others(c) /\ TypeOK'
  BY Zenon, OthersKept
<1>a. /\ pc \in [Caller -> Phase] /\ call \in [Caller -> Locals]
      /\ retained \in [Token -> RetainedClaim \cup {None}]
      /\ \A d \in Caller : pc[d] \in Busy => call[d].token \in Token /\ call[d].job \in Job
  BY Zenon DEF TypeOK, CallInv
\* A step that leaves the registry alone and keeps its call and the kind of it.
<1>b. ASSUME UNCHANGED <<retained, minted>>, call'[c] = call[c],
             \/ pc[c] \in Claiming /\ pc'[c] \in Claiming
             \/ pc[c] \in Working /\ pc'[c] \in Working /\ pc'[c] # "renew"
                /\ (pc'[c] = "held" => pc[c] = "renew")
      PROVE  TokenInv'
  BY <1>0, <1>a, <1>b
<1>1. ASSUME NEW j \in Job, NEW t \in Token, NEW now \in Instant, NEW until \in Instant,
             ClaimPrepare(c, j, t, now, until)
      PROVE  TokenInv'
  <2>1. /\ pc[c] = "idle" /\ pc'[c] = "claim" /\ call'[c].token = t
        /\ t \notin minted /\ minted' = minted \cup {t}
    BY Zenon, <1>1, <1>a DEF ClaimPrepare
  <2>2. \A u \in Token : retained'[u] = retained[u] \/ (retained[u].state = "Available" /\ retained'[u] = None)
    BY SMTT(30), <1>1, <1>a DEF ClaimPrepare, Oldest, Expired
  <2> QED
    BY <1>0, <1>a, <2>1, <2>2
<1>2. ASSUME NEW t \in Token, pc[c] = "idle", NEW until \in Instant, InState(t, "Available"),
             BeginRenewal(c, t, until) \/ BeginSettlement(c, t)
      PROVE  TokenInv'
  <2>1. PICK state \in {"Renewing", "Settling"} :
              /\ retained' = [retained EXCEPT ![t] = WithState(t, state)]
              /\ pc'[c] \in {"renew", "settle"} /\ (pc'[c] = "renew" => state = "Renewing")
    BY <1>2, <1>a DEF BeginRenewal, BeginSettlement, Begin
  <2>2. /\ call'[c].token = t /\ call'[c].job = retained[t].job /\ call'[c].seq = retained[t].seq
        /\ minted' = minted
    BY <1>2, <1>a DEF BeginRenewal, BeginSettlement, Begin
  <2>3. /\ retained'[t] # None /\ retained'[t].job = retained[t].job
        /\ retained'[t].seq = retained[t].seq /\ retained'[t].state = state
        /\ retained[t] # None /\ retained[t].state = "Available"
    <3>1. retained[t] # None /\ retained[t].state = "Available"
      BY Zenon, <1>2 DEF InState
    <3>2. WithState(t, state) # None
      BY Zenon, <3>1, EntryType
    <3>3. retained'[t] = WithState(t, state)
      BY Zenon, <1>a, <2>1
    <3> QED
      BY <3>1, <3>2, <3>3 DEF WithState
  <2>4. \A u \in Token \ {t} : retained'[u] = retained[u]
    BY ZenonT(30), <1>a, <2>1
  <2> QED
    BY SMTT(30), <1>0, <1>2, <1>a, <2>1, <2>2, <2>3, <2>4
<1>3. CASE ClaimStep(c)
  <2>1. CASE ClaimWon(c)
    <3>1. /\ pc[c] = "claim" /\ pc'[c] \in {"won", "unusable"} /\ call'[c].token = call[c].token
          /\ UNCHANGED <<retained, minted>>
      BY ZenonT(30), <2>1, <1>a DEF ClaimWon
    <3> QED
      BY <1>0, <1>a, <3>1
  <2>2. CASE ClaimAbandoned(c) \/ ClaimSkipped(c) \/ ClaimFailed(c) \/ DeadLetterUnusable(c)
    BY SMTT(30), <1>a, <1>b, <2>2 DEF ClaimAbandoned, ClaimSkipped, ClaimFailed, DeadLetterUnusable
  <2>3. CASE Issue(c)
    <3>1. pc[c] = "won" /\ pc'[c] = "idle" /\ minted' = minted
      BY Zenon, <2>3, <1>a DEF Issue
    <3>2. call[c].token \in Token /\ retained'[call[c].token].state = "Available"
      BY Zenon, <2>3, <1>a, <3>1 DEF Issue
    <3>3. \A u \in Token : u # call[c].token =>
             retained'[u] = retained[u] \/ (retained[u].state = "Available" /\ retained'[u] = None)
      BY Zenon, <2>3 DEF Issue, Superseded
    <3> QED
      BY <1>0, <1>a, <3>1, <3>2, <3>3
  <2>4. CASE RetireExpired(c)
    <3>1. pc[c] = "lapsed" /\ pc'[c] = "unreserve" /\ UNCHANGED <<minted, call>>
      BY ZenonT(30), <2>4, <1>a DEF RetireExpired
    <3>2. \A u \in Token :
             retained'[u] = retained[u] \/ (retained[u].state = "Available" /\ retained'[u] = None)
      BY Zenon, <2>4 DEF RetireExpired, Expired
    <3> QED
      BY <1>0, <1>a, <3>1, <3>2
  <2>5. CASE Unreserve(c)
    <3>1. pc'[c] = "idle" /\ UNCHANGED <<retained, minted>>
      BY Zenon, <2>5, <1>a DEF Unreserve
    <3>2. pc[c] = "unreserve"
      BY Zenon, <2>5 DEF Unreserve
    <3> QED
      BY <1>0, <1>a, <3>1, <3>2
  <2> QED
    BY Zenon, <1>3, <2>1, <2>2, <2>3, <2>4, <2>5 DEF ClaimStep
<1>4. CASE TokenStep(c)
  <2>1. CASE Renew(c)
    <3>1. pc[c] = "renew" /\ pc'[c] \in {"held", "gone", "restore"}
      BY Zenon, <2>1, RenewEffect
    <3> QED
      BY Zenon, <1>b, <2>1, <3>1 DEF Renew
  <2>2. CASE Settle(c)
    <3>1. pc[c] = "settle" /\ pc'[c] \in {"settled", "restore"}
      BY Zenon, <2>2, SettleEffect
    <3> QED
      BY Zenon, <1>b, <2>2, <3>1 DEF Settle
  <2>3. ASSUME pc[c] \in Working, pc'[c] = "idle", minted' = minted,
               \A u \in Token \ {call[c].token} : retained'[u] = retained[u],
               \/ retained'[call[c].token] = None
               \/ retained'[call[c].token].state = "Available"
        PROVE  TokenInv'
    BY <1>0, <1>a, <2>3
  <2>4. CASE CompleteRenewal(c)
    <3>1. /\ pc[c] = "held" /\ pc'[c] = "idle" /\ minted' = minted
          /\ \A u \in Token \ {call[c].token} : retained'[u] = retained[u]
      BY ZenonT(30), <1>a, <2>4 DEF CompleteRenewal
    <3>2. InState(call[c].token, "Renewing")
      BY Zenon, <3>1 DEF InState
    <3>3. retained'[call[c].token].state = "Available"
      BY Zenon, <1>a, <2>4, <3>1, <3>2 DEF CompleteRenewal
    <3> QED
      BY Zenon, <2>3, <3>1, <3>3
  <2>5. CASE RetireClaim(c)
    <3>1. /\ pc[c] \in Working /\ pc'[c] = "idle" /\ minted' = minted
          /\ \A u \in Token \ {call[c].token} : retained'[u] = retained[u]
      BY ZenonT(30), <1>a, <2>5 DEF RetireClaim
    <3>2. retained'[call[c].token] = None
      BY Zenon, <1>a, <2>5, <3>1 DEF RetireClaim
    <3> QED
      BY Zenon, <2>3, <3>1, <3>2
  <2>6. CASE Restore(c)
    <3>0. \A u \in Token \ {call[c].token} : retained'[u] = retained[u]
      BY Zenon, <2>6, RestoreEffect
    <3>a. pc[c] = "restore" /\ pc' = [pc EXCEPT ![c] = "idle"] /\ minted' = minted
      BY Zenon, <2>6 DEF Restore, Return
    <3>b. pc'[c] = "idle"
      BY Zenon, <1>a, <3>a
    <3>1. /\ pc[c] = "restore" /\ pc'[c] = "idle" /\ minted' = minted
          /\ \A u \in Token \ {call[c].token} : retained'[u] = retained[u]
      BY Zenon, <3>0, <3>a, <3>b
    <3>2. retained[call[c].token] # None /\ retained[call[c].token].state # "Available"
      BY Zenon, <3>1
    <3>4. retained'[call[c].token].state = "Available"
      BY Zenon, <2>6, <3>2, RestoreEffect
    <3> QED
      BY Zenon, <2>3, <3>1, <3>4
  <2> QED
    BY Zenon, <1>4, <2>1, <2>2, <2>4, <2>5, <2>6 DEF TokenStep
<1> QED
  BY Zenon, <1>1, <1>2, <1>3, <1>4, InstantType DEF Step, BeginRenewal, BeginSettlement


\* poll_predicate and plan_claim read a row alike.
LEMMA PollIsPlan ==
    ASSUME TypeOK, NEW j \in Job, NEW now
    PROVE  PollPredicate(j, now) <=> Runnable(j, now)
<1>1. job[j].status \in {"pending", "claimed", "done", "dead"}
  BY Zenon DEF TypeOK, DurableJob, Status
<1>2. CASE job[j].status = "pending"
  BY <1>2, Zenon DEF PollPredicate, Runnable
<1>3. CASE job[j].status = "claimed"
  BY <1>3, Zenon DEF PollPredicate, Runnable
<1>4. CASE job[j].status = "done" \/ job[j].status = "dead"
  BY <1>4, Zenon DEF PollPredicate, Runnable
<1> QED
  BY Zenon, <1>1, <1>2, <1>3, <1>4

\* What a won claim writes: the next sequence, and the lease it asked for.
LEMMA WonEffect ==
    ASSUME TypeOK, CallInv, NEW c \in Caller, ClaimWon(c)
    PROVE  /\ pc[c] = "claim" /\ pc'[c] \in {"won", "unusable"}
           /\ call[c].job \in Job
           /\ call'[c].job = call[c].job /\ call'[c].until = call[c].until
           /\ call'[c].token = call[c].token /\ call'[c].seq = job[call[c].job].seq + 1
           /\ \A k \in Job \ {call[c].job} : job'[k] = job[k]
           /\ job'[call[c].job].status = "claimed"
           /\ job'[call[c].job].seq = job[call[c].job].seq + 1
           /\ job'[call[c].job].lease = call[c].until
           /\ UNCHANGED retained
<1>1. pc[c] = "claim" /\ call[c].job \in Job /\ call[c] \in Locals
  BY Zenon DEF ClaimWon, CallInv, TypeOK, Busy, Claiming
<1> QED
  BY Zenon, <1>1 DEF ClaimWon, TypeOK, Locals, Goto

\* Sequences only grow, and a claim's pair of job and sequence passes from the
\* call that won it to the token it issues.
LEMMA SeqStep ==
    ASSUME TypeOK, CallInv, TokenInv, SeqInv, NEW c \in Caller, Step(c)
    PROVE  SeqInv'
<1> USE DEF SeqInv, Held, Others, Goto, Return
<1>0. Others(c) /\ TypeOK'
  BY Zenon, OthersKept
<1>a. /\ pc \in [Caller -> Phase] /\ call \in [Caller -> Locals]
      /\ retained \in [Token -> RetainedClaim \cup {None}]
      /\ \A d \in Caller : pc[d] = "won" => call[d].token \in Token /\ call[d].job \in Job
      /\ \A d \in Caller : call[d].seq \in Nat
      /\ \A k \in Job : job[k].seq \in Nat /\ job'[k].seq \in Nat
      /\ \A t \in Token : retained[t] # None => retained[t].job \in Job /\ retained[t].seq \in Nat
  BY <1>0 DEF TypeOK, CallInv, Busy, Claiming, Locals, DurableJob, RetainedClaim
\* A step that issues no token and wins no claim.
<1>b. ASSUME \A t \in Token : retained'[t] # None =>
                /\ retained[t] # None
                /\ retained'[t].job = retained[t].job /\ retained'[t].seq = retained[t].seq,
             \A k \in Job : job'[k].seq = job[k].seq,
             pc'[c] # "won"
      PROVE  SeqInv'
  BY <1>0, <1>a, <1>b
<1>1. ASSUME NEW j \in Job, NEW t \in Token, NEW now \in Instant, NEW until \in Instant,
             ClaimPrepare(c, j, t, now, until)
      PROVE  SeqInv'
  BY ZenonT(30), <1>a, <1>b, <1>1 DEF ClaimPrepare
<1>2. ASSUME NEW t \in Token, NEW until \in Instant, InState(t, "Available"),
             BeginRenewal(c, t, until) \/ BeginSettlement(c, t)
      PROVE  SeqInv'
  BY <1>a, <1>b, <1>2 DEF BeginRenewal, BeginSettlement, Begin, WithState, InState
<1>3. CASE ClaimStep(c)
  <2>1. CASE ClaimWon(c)
    BY SMTT(30), <1>0, <1>a, <2>1, WonEffect
  <2>2. CASE ClaimAbandoned(c)
    <3>1. call[c].job \in Job
      BY ZenonT(30), <2>2 DEF ClaimAbandoned, CallInv, Busy, Claiming
    <3> QED
      BY Zenon, <1>a, <1>b, <2>2, <3>1 DEF ClaimAbandoned, Finished, TypeOK
  <2>3. CASE DeadLetterUnusable(c)
    <3>1. call[c].job \in Job
      BY Zenon, <2>3 DEF DeadLetterUnusable, CallInv, Busy, Claiming
    <3> QED
      BY <1>a, <1>b, <2>3, <3>1 DEF DeadLetterUnusable, Finished, TypeOK
  <2>4. CASE ClaimSkipped(c) \/ ClaimFailed(c) \/ Unreserve(c)
    BY Zenon, <1>a, <1>b, <2>4 DEF ClaimSkipped, ClaimFailed, Unreserve
  <2>5. CASE RetireExpired(c)
    BY ZenonT(30), <1>a, <1>b, <2>5 DEF RetireExpired
  <2>6. CASE Issue(c)
    <3>1. pc[c] = "won" /\ pc'[c] = "idle" /\ job' = job
      BY Zenon, <2>6, <1>a DEF Issue
    <3>2. /\ call[c].token \in Token /\ retained'[call[c].token].job = call[c].job
          /\ retained'[call[c].token].seq = call[c].seq
      BY Zenon, <2>6, <1>a, <3>1 DEF Issue
    <3>3. \A u \in Token : u # call[c].token => retained'[u] \in {retained[u], None}
      BY Zenon, <2>6 DEF Issue
    <3> QED
      BY <1>0, <1>a, <3>1, <3>2, <3>3
  <2> QED
    BY ZenonT(30), <1>3, <2>1, <2>2, <2>3, <2>4, <2>5, <2>6 DEF ClaimStep
<1>4. CASE TokenStep(c)
  <2>1. CASE Renew(c)
    BY Zenon, <1>b, <2>1, RenewEffect DEF Renew
  <2>2. CASE Settle(c)
    BY ZenonT(30), <1>b, <2>2, SettleEffect DEF Settle
  <2>3. CASE CompleteRenewal(c)
    <3>1. /\ call[c].token \in Token /\ retained[call[c].token] # None
          /\ retained[call[c].token].job = call[c].job /\ retained[call[c].token].seq = call[c].seq
      BY Zenon, <2>3 DEF CompleteRenewal, TokenInv, Working, CallInv, Busy
    <3> QED
      BY ZenonT(30), <1>a, <1>b, <2>3, <3>1 DEF CompleteRenewal
  <2>4. CASE RetireClaim(c)
    BY Zenon, <1>a, <1>b, <2>4 DEF RetireClaim
  <2>5. CASE Restore(c)
    <3>1. \A u \in Token : retained'[u] # None =>
             /\ retained[u] # None /\ retained'[u].lease = retained[u].lease
             /\ retained'[u].job = retained[u].job /\ retained'[u].seq = retained[u].seq
      BY Zenon, <2>5, RestoreEffect
    <3>2. UNCHANGED job /\ pc[c] = "restore" /\ pc'[c] = "idle"
      BY Zenon, <1>a, <2>5 DEF Restore
    <3> QED
      BY Zenon, <1>b, <3>1, <3>2
  <2> QED
    BY Zenon, <1>4, <2>1, <2>2, <2>3, <2>4, <2>5 DEF TokenStep
<1> QED
  BY Zenon, <1>1, <1>2, <1>3, <1>4, InstantType DEF Step, BeginRenewal, BeginSettlement


\* The leases survive a step that renews nothing, claims nothing and issues no
\* token: it may finish or put back jobs, and drop or mark tokens.
LEMMA LeaseFrame ==
    ASSUME TypeOK, CallInv, LeaseInv, NEW c \in Caller, Others(c), TypeOK', CallInv',
           \A k \in Job, q \in Nat : Owner(k, q)' => Owner(k, q) /\ job'[k].lease = job[k].lease,
           \A t \in Token : retained'[t] # None =>
              /\ retained[t] # None /\ retained'[t].lease = retained[t].lease
              /\ retained'[t].job = retained[t].job /\ retained'[t].seq = retained[t].seq,
           pc[c] = "held" => retained'[call[c].token] = None,
           pc'[c] \notin {"won", "held"}
    PROVE  LeaseInv'
<1>a. /\ \A d \in Caller : pc'[d] \in Busy => call'[d].token \in Token /\ call'[d].job \in Job
      /\ \A d \in Caller : call'[d].seq \in Nat
      /\ \A t \in Token : retained'[t] # None => retained'[t].job \in Job /\ retained'[t].seq \in Nat
  BY DEF TypeOK, CallInv, Locals, RetainedClaim
<1>2. CallLease'
  BY <1>a DEF LeaseInv, CallLease, Others, Busy, Claiming, Working, Owner
<1>3. TokenLease'
  <2> SUFFICES ASSUME NEW t \in Held', Owner(retained[t].job, retained[t].seq)',
                      ~\E d \in Caller : pc'[d] = "held" /\ call'[d].token = t
               PROVE  retained'[t].lease = job'[retained'[t].job].lease
    BY Zenon DEF TokenLease
  <2>1. t \in Token /\ retained'[t] # None /\ t \in Held
    BY Zenon DEF Held
  <2>2. Owner(retained[t].job, retained[t].seq) /\ job'[retained[t].job].lease = job[retained[t].job].lease
    BY <1>a, <2>1 DEF Owner
  <2>3. ~\E d \in Caller : pc[d] = "held" /\ call[d].token = t
    BY ZenonT(30), <2>1 DEF Others
  <2> QED
    BY <2>1, <2>2, <2>3 DEF LeaseInv, TokenLease
<1> QED
  BY Zenon, <1>2, <1>3 DEF LeaseInv


\* Who owns a job knows its lease, through renewals, takeovers and settlements
\* that race, whichever way a renewal moves it.
LEMMA LeaseStep ==
    ASSUME TypeOK, CallInv, TokenInv, SeqInv, LeaseInv, NEW c \in Caller, Step(c)
    PROVE  LeaseInv'
<1> USE DEF Goto, Return
<1>0. Others(c) /\ TypeOK' /\ CallInv'
  BY Zenon, OthersKept
<1>a. /\ pc \in [Caller -> Phase] /\ call \in [Caller -> Locals]
      /\ retained \in [Token -> RetainedClaim \cup {None}]
      /\ \A d \in Caller : pc[d] \in Busy => call[d].token \in Token /\ call[d].job \in Job
      /\ \A d \in Caller : call[d].seq \in Nat /\ call[d].until \in Nat
      /\ \A k \in Job : job[k].seq \in Nat /\ job[k].runAt \in Nat /\ job[k].lease \in Nat \cup {None}
      /\ \A t \in Token : retained[t] # None =>
            retained[t].job \in Job /\ retained[t].seq \in Nat /\ retained[t].lease \in Nat
  BY InstantType DEF TypeOK, CallInv, Locals, DurableJob, RetainedClaim
\* A step that changes no job, or ends a claim.
<1>b. ASSUME \A k \in Job : job'[k] = job[k] \/ job'[k].status # "claimed",
             \A t \in Token : retained'[t] # None =>
                /\ retained[t] # None /\ retained'[t].lease = retained[t].lease
                /\ retained'[t].job = retained[t].job /\ retained'[t].seq = retained[t].seq,
             pc[c] # "held", pc'[c] \notin {"won", "held"}
      PROVE  LeaseInv'
  <2>1. \A k \in Job, q \in Nat : Owner(k, q)' => Owner(k, q) /\ job'[k].lease = job[k].lease
    BY Zenon, <1>b DEF Owner
  <2> QED
    BY Zenon, <1>0, <1>b, <2>1, LeaseFrame
<1>1. ASSUME NEW j \in Job, NEW t \in Token, NEW now \in Instant, NEW until \in Instant,
             ClaimPrepare(c, j, t, now, until)
      PROVE  LeaseInv'
  BY Zenon, <1>a, <1>b, <1>1 DEF ClaimPrepare, Working
<1>2. ASSUME NEW t \in Token, NEW until \in Instant, InState(t, "Available"),
             BeginRenewal(c, t, until) \/ BeginSettlement(c, t)
      PROVE  LeaseInv'
  <2>1. pc[c] = "idle" /\ pc'[c] \in {"renew", "settle"} /\ job' = job
    BY <1>a, <1>2 DEF BeginRenewal, BeginSettlement, Begin
  <2>2. \A u \in Token : retained'[u] # None =>
           /\ retained[u] # None /\ retained'[u].lease = retained[u].lease
           /\ retained'[u].job = retained[u].job /\ retained'[u].seq = retained[u].seq
    BY <1>a, <1>2 DEF BeginRenewal, BeginSettlement, Begin, WithState, InState
  <2> QED
    BY Zenon, <1>b, <2>1, <2>2
<1>3. CASE ClaimStep(c)
  <2>1. CASE ClaimWon(c)
    <3> DEFINE j == call[c].job
               n == call[c].until
    <3>1. /\ pc[c] = "claim" /\ pc'[c] \in {"won", "unusable"} /\ j \in Job
          /\ call'[c].job = j /\ call'[c].until = n /\ call'[c].seq = job[j].seq + 1
          /\ call'[c].token = call[c].token
          /\ \A k \in Job \ {j} : job'[k] = job[k]
          /\ job'[j].status = "claimed" /\ job'[j].seq = job[j].seq + 1 /\ job'[j].lease = n
          /\ UNCHANGED retained
      BY Zenon, <2>1, WonEffect
    <3> HIDE DEF j, n
    <3>3. CallLease'
      <4>1. ASSUME NEW d \in Caller \ {c}, pc[d] \in {"won", "held"}, call[d].job = j
            PROVE  call[d].seq <= job[j].seq
        BY <1>a, <4>1, <3>1 DEF SeqInv, TokenInv, Working, Busy, Held
      <4> QED
        BY SMTT(30), <1>0, <1>a, <3>1, <4>1 DEF Others, Owner, LeaseInv, CallLease, Busy, Claiming, Working
    <3>4. TokenLease'
      <4>1. ASSUME NEW t \in Held, Owner(retained[t].job, retained[t].seq)'
            PROVE  retained[t].job # j
        BY <1>a, <3>1, <4>1 DEF SeqInv, Held, Owner
      <4>2. ASSUME NEW t, ~\E d \in Caller : pc'[d] = "held" /\ call'[d].token = t
            PROVE  ~\E d \in Caller : pc[d] = "held" /\ call[d].token = t
        BY Zenon, <1>0, <3>1, <4>2 DEF Others
      <4>3. Held' = Held
        BY ZenonT(30), <3>1 DEF Held
      <4> QED
        <5> SUFFICES ASSUME NEW t \in Held, Owner(retained[t].job, retained[t].seq)',
                            ~\E d \in Caller : pc'[d] = "held" /\ call'[d].token = t
                     PROVE  retained[t].lease = job'[retained[t].job].lease
          BY Zenon, <3>1, <4>3 DEF TokenLease
        <5>1. retained[t].job \in Job /\ job'[retained[t].job] = job[retained[t].job]
          BY Zenon, <1>a, <3>1, <4>1 DEF Held
        <5>2. Owner(retained[t].job, retained[t].seq)
          BY ZenonT(30), <3>1, <5>1 DEF Owner
        <5> QED
          BY Zenon, <4>2, <5>1, <5>2 DEF LeaseInv, TokenLease
    <3> QED
      BY Zenon, <3>3, <3>4 DEF LeaseInv
  <2>2. CASE ClaimAbandoned(c)
    <3>1. pc[c] = "claim" /\ pc'[c] = "lapsed" /\ UNCHANGED <<call, retained>> /\ call[c].job \in Job
      BY Zenon, <1>a, <2>2 DEF ClaimAbandoned, Busy, Claiming
    <3>2. job' = [job EXCEPT ![call[c].job] = Finished(call[c].job, "dead")]
      BY Zenon, <2>2 DEF ClaimAbandoned
    <3>3. \A k \in Job : IF k = call[c].job THEN job'[k].status = "dead"
                                            ELSE job'[k] = job[k]
      BY Zenon, <3>1, <3>2 DEF Finished, TypeOK
    <3> QED
      BY Zenon, <1>b, <3>1, <3>3
  <2>3. CASE DeadLetterUnusable(c)
    <3>1. pc[c] = "unusable" /\ pc'[c] = "unreserve" /\ UNCHANGED retained /\ call[c].job \in Job
      BY Zenon, <1>a, <2>3 DEF DeadLetterUnusable, Busy, Claiming
    <3>2. \A k \in Job : job'[k] = job[k] \/ job'[k].status = "dead"
      BY <2>3, <3>1 DEF DeadLetterUnusable, Finished, TypeOK
    <3> QED
      BY Zenon, <1>b, <3>1, <3>2 DEF Working
  <2>5. CASE ClaimSkipped(c) \/ ClaimFailed(c) \/ RetireExpired(c) \/ Unreserve(c)
    BY Zenon, <1>a, <1>b, <2>5 DEF ClaimSkipped, ClaimFailed, RetireExpired, Unreserve
  <2>6. CASE Issue(c)
    <3>1. pc[c] = "won" /\ pc'[c] = "idle" /\ job' = job /\ call[c].token \in Token /\ call[c].job \in Job
      BY Zenon, <2>6, <1>a DEF Issue, Busy, Claiming
    <3>2. retained'[call[c].token] = [job |-> call[c].job, seq |-> call[c].seq,
                                      lease |-> call[c].until, state |-> "Available"]
      BY Zenon, <2>6, <3>1 DEF Issue
    <3>3. \A u \in Token : u # call[c].token => retained'[u] \in {retained[u], None}
      BY Zenon, <2>6 DEF Issue
    <3>4. TokenLease'
      <4>1. \A t \in Held' : t # call[c].token => t \in Held /\ retained'[t] = retained[t]
        BY Zenon, <3>3 DEF Held
      <4>2. \A d \in Caller : pc[d] = "held" => pc'[d] = "held" /\ call'[d].token = call[d].token
        BY Zenon, <1>0, <3>1 DEF Others
      <4> QED
        <5> SUFFICES ASSUME NEW t \in Held', Owner(retained[t].job, retained[t].seq)',
                            ~\E d \in Caller : pc'[d] = "held" /\ call'[d].token = t
                     PROVE  retained'[t].lease = job[retained'[t].job].lease
          BY Zenon, <3>1 DEF TokenLease
        <5>1. CASE t = call[c].token
          <6>1. /\ retained'[t].job = call[c].job /\ retained'[t].seq = call[c].seq
                /\ retained'[t].lease = call[c].until
            BY <3>2, <5>1
          <6>2. Owner(call[c].job, call[c].seq)
            BY Zenon, <3>1, <6>1 DEF Owner
          <6> QED
            BY ZenonT(30), <3>1, <6>1, <6>2 DEF LeaseInv, CallLease
        <5>2. CASE t # call[c].token
          <6>1. t \in Held /\ retained'[t] = retained[t]
            BY Zenon, <4>1, <5>2
          <6>2. Owner(retained[t].job, retained[t].seq)
            BY Zenon, <3>1, <6>1 DEF Owner
          <6> QED
            BY Zenon, <4>2, <5>2, <6>1, <6>2 DEF LeaseInv, TokenLease
        <5> QED
          BY Zenon, <5>1, <5>2
    <3>6. CallLease'
      BY ZenonT(30), <1>0, <3>1 DEF LeaseInv, CallLease, Others, Owner
    <3> QED
      BY Zenon, <3>4, <3>6 DEF LeaseInv
  <2> QED
    BY Zenon, <1>3, <2>1, <2>2, <2>3, <2>5, <2>6 DEF ClaimStep
<1>4. CASE TokenStep(c)
  <2>1. CASE Renew(c)
    <3> DEFINE j == call[c].job
               q == call[c].seq
               until == call[c].until
    <3>1. /\ \A k \in Job : /\ job'[k].status = job[k].status /\ job'[k].seq = job[k].seq
                            /\ job'[k].runAt = job[k].runAt
                            /\ \/ job'[k].lease = job[k].lease
                               \/ k = j /\ pc'[c] = "held" /\ Owner(k, q) /\ job'[k].lease = until
          /\ pc'[c] = "held" => Owner(j, q) /\ job'[j].lease = until
          /\ pc[c] = "renew" /\ pc'[c] \in {"held", "gone", "restore"}
      BY ZenonT(30), <2>1, RenewEffect
    <3>2. /\ UNCHANGED <<call, retained>> /\ j \in Job /\ q \in Nat
          /\ until \in Nat
          /\ call[c].token \in Token /\ retained[call[c].token] # None
          /\ retained[call[c].token].job = j /\ retained[call[c].token].seq = q
      BY <1>a, <2>1, <3>1 DEF Renew, Busy, Working, TokenInv
    <3> HIDE DEF j, q, until
    \* The owner's claim belongs to this call and no other.
    <3>5. ASSUME NEW d \in Caller \ {c}, pc[d] \in Working \cup {"won"} PROVE ~(call[d].job = j /\ call[d].seq = q)
      BY <1>a, <3>1, <3>2, <3>5 DEF SeqInv, TokenInv, Held, Busy, Claiming, Working
    <3>6. ASSUME NEW t \in Held, t # call[c].token PROVE ~(retained[t].job = j /\ retained[t].seq = q)
      BY ZenonT(30), <3>2, <3>6 DEF SeqInv, Held
    <3>7. CallLease'
      BY <1>0, <1>a, <3>1, <3>2, <3>5 DEF Others, Owner, LeaseInv, CallLease, Busy, Claiming, Working, j, until
    <3>8. TokenLease'
      <4>1. Held' = Held
        BY Zenon, <3>2 DEF Held
      <4>2. ASSUME NEW t, ~\E d \in Caller : pc'[d] = "held" /\ call'[d].token = t
            PROVE  ~\E d \in Caller : pc[d] = "held" /\ call[d].token = t
        BY Zenon, <1>0, <3>1, <3>2, <4>2 DEF Others
      <4>3. ASSUME NEW t \in Held, Owner(retained[t].job, retained[t].seq)',
                   ~\E d \in Caller : pc'[d] = "held" /\ call'[d].token = t
            PROVE  /\ Owner(retained[t].job, retained[t].seq)
                   /\ job'[retained[t].job].lease = job[retained[t].job].lease
        BY ZenonT(30), <1>a, <3>1, <3>2, <3>6, <4>3 DEF Owner, Held
      <4> QED
        BY Zenon, <3>2, <4>1, <4>2, <4>3 DEF LeaseInv, TokenLease
    <3> QED
      BY Zenon, <3>7, <3>8 DEF LeaseInv
  <2>2. CASE Settle(c)
    <3>1. /\ \A k \in Job : job'[k] = job[k] \/ job'[k].status \in {"done", "dead", "pending"}
          /\ pc[c] = "settle" /\ pc'[c] \in {"settled", "restore"}
      BY Zenon, <2>2, SettleEffect
    <3>2. UNCHANGED retained
      BY Zenon, <2>2 DEF Settle
    <3> QED
      BY Zenon, <1>b, <3>1, <3>2
  <2>3. CASE CompleteRenewal(c)
    <3>1. /\ pc[c] = "held" /\ pc'[c] = "idle" /\ job' = job
          /\ call[c].token \in Token /\ call[c].job \in Job
          /\ \A u \in Token \ {call[c].token} : retained'[u] = retained[u]
      BY Zenon, <1>a, <2>3 DEF CompleteRenewal, Busy, Working
    <3>2. InState(call[c].token, "Renewing")
      BY Zenon, <3>1 DEF InState, TokenInv, Working
    <3>3. retained'[call[c].token] = [job |-> call[c].job, seq |-> call[c].seq,
                                      lease |-> call[c].until, state |-> "Available"]
      BY Zenon, <1>a, <2>3, <3>1, <3>2 DEF CompleteRenewal
    <3>4. TokenLease'
      <4>1. \A t \in Held' : t # call[c].token => t \in Held /\ retained'[t] = retained[t]
        BY Zenon, <3>1 DEF Held
      <4>2. \A d \in Caller : pc[d] = "held" /\ call[d].token # call[c].token =>
               pc'[d] = "held" /\ call'[d].token = call[d].token
        BY Zenon, <1>0 DEF Others
      <4> QED
        <5> SUFFICES ASSUME NEW t \in Held', Owner(retained[t].job, retained[t].seq)',
                            ~\E d \in Caller : pc'[d] = "held" /\ call'[d].token = t
                     PROVE  retained'[t].lease = job[retained'[t].job].lease
          BY Zenon, <3>1 DEF TokenLease
        <5>1. CASE t = call[c].token
          <6>1. /\ retained'[t].job = call[c].job /\ retained'[t].seq = call[c].seq
                /\ retained'[t].lease = call[c].until
            BY <3>3, <5>1
          <6>2. Owner(call[c].job, call[c].seq)
            BY Zenon, <3>1, <6>1 DEF Owner
          <6> QED
            BY Zenon, <3>1, <6>1, <6>2 DEF LeaseInv, CallLease
        <5>2. CASE t # call[c].token
          <6>1. t \in Held /\ retained'[t] = retained[t]
            BY Zenon, <4>1, <5>2
          <6>2. Owner(retained[t].job, retained[t].seq)
            BY Zenon, <3>1, <6>1 DEF Owner
          <6> QED
            BY Zenon, <4>2, <5>2, <6>1, <6>2 DEF LeaseInv, TokenLease
        <5> QED
          BY Zenon, <5>1, <5>2
    <3>6. CallLease'
      BY ZenonT(30), <1>0, <3>1 DEF LeaseInv, CallLease, Others, Owner
    <3> QED
      BY Zenon, <3>4, <3>6 DEF LeaseInv
  <2>4. CASE RetireClaim(c)
    BY Zenon, <1>a, <1>b, <2>4 DEF RetireClaim
  <2>5. CASE Restore(c)
    <3>1. \A u \in Token : retained'[u] # None =>
             /\ retained[u] # None /\ retained'[u].lease = retained[u].lease
             /\ retained'[u].job = retained[u].job /\ retained'[u].seq = retained[u].seq
      BY Zenon, <2>5, RestoreEffect
    <3>2. UNCHANGED job /\ pc[c] = "restore" /\ pc'[c] = "idle"
      BY Zenon, <1>a, <2>5 DEF Restore
    <3> QED
      BY Zenon, <1>b, <3>1, <3>2
  <2> QED
    BY Zenon, <1>4, <2>1, <2>2, <2>3, <2>4, <2>5 DEF TokenStep
<1> QED
  BY Zenon, <1>1, <1>2, <1>3, <1>4, InstantType DEF Step, BeginRenewal, BeginSettlement


-----------------------------------------------------------------------------
(* The theorems.                                                           *)

\* IInv is inductive: it holds of an empty registry over fresh or rebuilt rows,
\* and every registry step and durable operation keeps it.
LEMMA IInvHolds == Spec => []IInv
<1>1. Init => IInv
  <2> SUFFICES ASSUME Init PROVE IInv
    BY Zenon
  <2> USE DEF Init
  <2>1. TypeOK
    <3>1. Enqueued \in DurableJob /\ LeftBehind \in DurableJob
      BY Zenon DEF Enqueued, LeftBehind, DurableJob, Status
    <3>2. NoCall \in Locals
      BY Zenon, InstantType DEF NoCall, Locals
    <3> QED
      BY <3>1, <3>2, BoundAssumption DEF TypeOK, Phase
  <2>2. Held = {} /\ {c \in Caller : pc[c] \in Claiming} = {}
    BY Zenon DEF Held, Claiming
  <2>3. CapacityKept
    BY <2>2, FS_EmptySet, BoundAssumption DEF CapacityKept
  <2>4. CallInv /\ TokenInv /\ SeqInv
    BY <2>2 DEF CallInv, TokenInv, SeqInv, Busy, Claiming, Working, NoCall
  <2>5. LeaseInv
    BY <2>2 DEF LeaseInv, CallLease, TokenLease
  <2> QED
    BY Zenon, <2>1, <2>3, <2>4, <2>5 DEF IInv
<1>2. IInv /\ [Next]_vars => IInv'
  <2>1. ASSUME IInv, NEW c \in Caller, Step(c) PROVE IInv'
    BY Zenon, <2>1, OthersKept, CapacityStep, TokenStepKept, SeqStep, LeaseStep DEF IInv
  <2>2. ASSUME IInv, UNCHANGED vars PROVE IInv'
    <3>1. UNCHANGED <<job, retained, reservations, minted, pc, call>>
      BY Zenon, <2>2 DEF vars
    <3>2. TypeOK' /\ CapacityKept' /\ CallInv'
      BY ZenonT(30), <2>2, <3>1 DEF IInv, TypeOK, CapacityKept, CallInv, Held
    <3>3. TokenInv'
      BY SMTT(30), <2>2, <3>1 DEF IInv, TokenInv, Held
    <3>5. SeqInv'
      BY <2>2, <3>1 DEF IInv, SeqInv, Held
    <3>4. LeaseInv'
      BY Zenon, <2>2, <3>1 DEF IInv, LeaseInv, CallLease, TokenLease, Owner, Held
    <3> QED
      BY Zenon, <3>2, <3>3, <3>4, <3>5 DEF IInv
  <2> QED
    BY Zenon, <2>1, <2>2, StepOfOne
<1> QED
  BY <1>1, <1>2, PTL DEF Spec

\* MAX_ACTIVE_CLAIMS holds for any capacity, and no way out of es_job_claim
\* loses or returns a slot twice.
THEOREM CapacityHolds == Spec => []CapacityKept
<1>1. IInv => CapacityKept
  BY Zenon DEF IInv
<1> QED
  BY <1>1, IInvHolds, PTL

\* A token in use has one user, and keeps its entry until that user is done,
\* for any number of callers presenting any tokens.
THEOREM TokensExclusive == Spec => []OneCallPerToken
<1>1. ASSUME IInv, NEW t \in Held, retained[t].state # "Available"
      PROVE  Cardinality({c \in Caller : pc[c] \in Working /\ call[c].token = t}) = 1
  <2>1. PICK d \in Caller : pc[d] \in Working /\ call[d].token = t
    BY ZenonT(30), <1>1 DEF IInv, TokenInv
  <2>2. {c \in Caller : pc[c] \in Working /\ call[c].token = t} = {d}
    BY <1>1, <2>1 DEF IInv, TokenInv, Busy
  <2> QED
    BY Zenon, <2>2, FS_Singleton
<1>2. ASSUME IInv, NEW c \in Caller, pc[c] \in Working
      PROVE  retained[call[c].token] # None /\ retained[call[c].token].state # "Available"
  BY Zenon, <1>2 DEF IInv, TokenInv
<1>3. IInv => OneCallPerToken
  BY <1>1, <1>2, Zenon DEF OneCallPerToken
<1> QED
  BY <1>3, IInvHolds, PTL

\* The lease a token remembers is the durable one as long as its claim owns the
\* job: renewals write both, and a takeover ends the ownership.
THEOREM LeasesMirrored == Spec => []LeaseMirrored
<1>1. ASSUME IInv, NEW t \in Held, retained[t].state = "Available",
             Owner(retained[t].job, retained[t].seq)
      PROVE  retained[t].lease = job[retained[t].job].lease
  <2>1. ~\E c \in Caller : pc[c] = "held" /\ call[c].token = t
    BY Zenon, <1>1 DEF IInv, TokenInv, Working
  <2> QED
    BY Zenon, <1>1, <2>1 DEF IInv, LeaseInv, TokenLease
<1>2. IInv => LeaseMirrored
  BY Zenon, <1>1 DEF LeaseMirrored
<1> QED
  BY <1>2, IInvHolds, PTL

\* poll_predicate offers what plan_claim accepts, for every row and instant, and
\* a poll of one offers a job that is due first.
THEOREM PollAgrees == Spec => []PollAgreesWithPlan
<1>1. ASSUME IInv, NEW now \in Instant, NEW found \in Find(now, 1),
             NEW j \in found, NEW k \in Job, Runnable(k, now)
      PROVE  job[j].runAt <= job[k].runAt
  <2> DEFINE due == {i \in Job : PollPredicate(i, now)}
  <2>1. k \in due
    BY Zenon, <1>1, PollIsPlan DEF IInv
  <2>2. /\ found \in SUBSET due
        /\ Cardinality(found) = IF Cardinality(due) < 1 THEN Cardinality(due) ELSE 1
        /\ \A i \in found, l \in due \ found : job[i].runAt <= job[l].runAt
    BY Zenon DEF Find
  <2>3. IsFiniteSet(due) /\ IsFiniteSet(found)
    BY Zenon, <2>2, FiniteAssumption, FS_Subset
  <2>4. Cardinality(due) \in Nat /\ Cardinality(found) \in Nat /\ Cardinality(found) # 0
    BY Zenon, <2>3, FS_CardinalityType, FS_EmptySet
  <2>5. Cardinality(found) = 1
    BY <2>2, <2>4
  <2>6. PICK x : found = {x}
    BY Zenon, <2>3, <2>5, FS_Singleton
  <2>7. job[j].runAt \in Nat
    BY Zenon, <1>1, <2>2 DEF IInv, TypeOK, DurableJob
  <2> QED
    BY <2>1, <2>2, <2>6, <2>7
<1>2. ASSUME IInv, NEW now \in Instant, NEW j \in Job
      PROVE  PollPredicate(j, now) <=> Runnable(j, now)
  BY Zenon, <1>2, PollIsPlan DEF IInv
<1>3. IInv => PollAgreesWithPlan
  BY <1>1, <1>2, Zenon DEF PollAgreesWithPlan
<1> QED
  BY <1>3, IInvHolds, PTL

\* Neither prepare_claim nor retire_expired_claims drops the token of an owner
\* whose job could not be taken over at that very instant, whatever happened
\* between the durable answer and the drop, and whatever instants were passed.
THEOREM DropsAreTakeable == Spec => DroppedIsTakeable
<1>1. ASSUME IInv, NEW t \in Held, NEW now, Expired(t, now), Owner(retained[t].job, retained[t].seq)
      PROVE  Runnable(retained[t].job, now)
  <2>1. retained[t].state = "Available" /\ retained[t].lease < now
    BY Zenon, <1>1 DEF Expired
  <2>2. ~\E e \in Caller : pc[e] = "held" /\ call[e].token = t
    BY Zenon, <1>1, <2>1 DEF IInv, TokenInv, Working
  <2>3. retained[t].lease = job[retained[t].job].lease
    BY Zenon, <1>1, <2>2 DEF IInv, LeaseInv, TokenLease
  <2>4. job[retained[t].job].status = "claimed" /\ job[retained[t].job].lease < now
    BY Zenon, <1>1, <2>1, <2>3 DEF Owner
  <2> QED
    BY Zenon, <2>4 DEF Runnable
<1>2. ASSUME IInv, NEW c \in Caller, Step(c), NEW d \in Caller, DropsLapsed(d),
             NEW t \in Held, retained'[t] = None
      PROVE  Expired(t, call'[d].now)
  <2>0. TypeOK /\ CallInv /\ t \in Token /\ retained[t] # None
    BY Zenon, <1>2 DEF IInv, Held
  <2>1. c = d
    BY Zenon, <1>2, <2>0, OthersKept DEF Others, DropsLapsed
  <2>2. \/ RetireExpired(d)
        \/ \E j \in Job, u \in Token, now, until \in Instant : ClaimPrepare(d, j, u, now, until)
    <3>1. pc[d] \in {"idle", "lapsed"} /\ pc'[d] \in {"claim", "unreserve"}
      BY Zenon, <1>2 DEF DropsLapsed
    <3>2. ~ClaimWon(d) /\ ~ClaimAbandoned(d) /\ ~ClaimSkipped(d) /\ ~ClaimFailed(d)
          /\ ~DeadLetterUnusable(d) /\ ~Issue(d) /\ ~Unreserve(d)
      BY Zenon, <3>1 DEF ClaimWon, ClaimAbandoned, ClaimSkipped, ClaimFailed, DeadLetterUnusable,
          Issue, Unreserve
    <3>3. ~TokenStep(d)
      BY Zenon, <3>1 DEF TokenStep, Renew, CompleteRenewal, Settle, RetireClaim, Restore
    <3>4. \A u \in Token, until \in Instant : ~BeginRenewal(d, u, until) /\ ~BeginSettlement(d, u)
      BY Zenon, <2>0, <3>1 DEF BeginRenewal, BeginSettlement, Begin, Goto, TypeOK
    <3> QED
      BY Zenon, <1>2, <2>1, <3>2, <3>3, <3>4, InstantType DEF Step, ClaimStep
  <2>3. CASE RetireExpired(d)
    BY Zenon, <1>2, <2>0, <2>3 DEF RetireExpired
  <2>4. ASSUME NEW j \in Job, NEW u \in Token, NEW now \in Instant, NEW until \in Instant,
               ClaimPrepare(d, j, u, now, until)
        PROVE  Expired(t, call'[d].now)
    <3>1. call'[d].now = now
      BY Zenon, <2>0, <2>4 DEF ClaimPrepare, TypeOK
    <3>2. PICK old \in Token : Oldest(old, now) /\ retained' = [retained EXCEPT ![old] = None]
      BY Zenon, <1>2, <2>0, <2>4 DEF ClaimPrepare
    <3>3. t = old
      BY Zenon, <1>2, <2>0, <3>2 DEF TypeOK
    <3> QED
      BY Zenon, <3>1, <3>2, <3>3 DEF Oldest
  <2> QED
    BY Zenon, <2>2, <2>3, <2>4
<1>3. IInv /\ [Next]_vars => [\A c \in Caller : DropsLapsed(c) =>
         \A t \in Held :
             retained'[t] = None /\ Owner(retained[t].job, retained[t].seq)
                 => Runnable(retained[t].job, call'[c].now)]_vars
  BY Zenon, <1>1, <1>2, StepOfOne
<1> QED
  BY <1>3, IInvHolds, PTL DEF Spec, DroppedIsTakeable

=============================================================================

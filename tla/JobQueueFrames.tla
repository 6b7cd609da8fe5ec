--------------------------- MODULE JobQueueFrames ---------------------------
(***************************************************************************)
(* The inductive invariant of JobQueue, facts about its operators, the proof *)
(* that every step keeps the types, and what a step that appends nothing, or *)
(* one event, leaves true of the jobs and executions it does not touch.    *)
(***************************************************************************)
EXTENDS JobQueue, SequenceTheorems, TLAPS

-----------------------------------------------------------------------------
(* The inductive invariant.                                                *)

Settling == {"ack", "retry", "loaded", "view", "viewed"}

\* A stream is claimed exactly when it ends in a Claimed event, whose claim id
\* is then the current one.
ClaimAtEnd(j) ==
    /\ agg[j].status = "none" <=> Len(events[j]) = 0
    /\ Len(events[j]) = 0 => agg[j] = NoState
    /\ \A n \in 1 .. Len(events[j]) :
         events[j][n].type = "Claimed" => events[j][n].claim = n
    /\ agg[j].status = "claimed" <=>
         Len(events[j]) > 0 /\ events[j][Len(events[j])].type = "Claimed"
    /\ agg[j].status = "claimed" => agg[j].claim = Len(events[j])

\* The row is current, or it is one settlement behind and still shows the claim.
RowBehind(j) ==
    /\ Len(events[j]) > 1
    /\ row[j].version = Len(events[j]) - 1
    /\ row[j].state.status = "claimed"
    /\ agg[j] = Apply(row[j].state, events[j][Len(events[j])])
    /\ agg[j].status # "claimed"

RowCurrent(j) == row[j].version = Len(events[j]) /\ row[j].state = agg[j]

FencedAt(j, n) ==
    (events[j][n].type \in Settlement /\ events[j][n].reason # "Abandoned") =>
        /\ n > 1
        /\ events[j][n - 1].type = "Claimed"
        /\ events[j][n - 1].claim = events[j][n].claim

JobInv(j) ==
    /\ agg[j].status # "failed"
    /\ agg[j].claims <= MaxClaims
    /\ ClaimAtEnd(j)
    /\ RowCurrent(j) \/ RowBehind(j)
    /\ \A n \in 1 .. Len(events[j]) : FencedAt(j, n)

\* What the command of w may record.
CmdInv(w) ==
    /\ cmd[w].type \in Settlement
    /\ cmd[w].claim = ctx[w].seq
    /\ cmd[w].reason # "Abandoned"
    /\ cmd[w].type = "RetryScheduled" =>
         cmd[w].attempt = ctx[w].attempt + 1 /\ cmd[w].attempt < MaxAttempts
    /\ cmd[w].reason = "RetriesExhausted" =>
         cmd[w].type = "Dead" /\ ctx[w].attempt + 1 >= MaxAttempts

\* w executes the claim recorded at ctx[w].seq: it is the last event, or it was
\* superseded, or w itself has settled it and the row still lags.
ExecInv(w) ==
    LET j == ctx[w].job
        q == ctx[w].seq
    IN  /\ q \in 1 .. Len(events[j])
        /\ events[j][q].type = "Claimed"
        /\ Len(events[j]) = q => agg[j].attempt = ctx[w].attempt
        /\ pc[w] \in Settling => CmdInv(w)
        /\ pc[w] \in {"run", "ack", "retry", "loaded"} =>
             \/ Len(events[j]) = q
             \/ events[j][q + 1].type = "Claimed"
             \/ events[j][q + 1].type = "Dead" /\ events[j][q + 1].reason = "Abandoned"
        /\ pc[w] = "run" /\ lost[w] => Len(events[j]) > q
        /\ pc[w] = "loaded" => seen[w].version = q
        /\ pc[w] \in {"view", "viewed"} =>
             /\ Len(events[j]) = q + 1
             /\ events[j][q + 1] = cmd[w]
             /\ row[j].version = q
        /\ pc[w] = "viewed" => seen[w].version = q /\ seen[w].state = row[j].state

Exclusive(v, w) ==
    ctx[v].job = ctx[w].job /\ ctx[v].seq = ctx[w].seq => v = w

IInv ==
    /\ TypeOK
    /\ \A j \in Job : JobInv(j)
    /\ \A w \in Worker : pc[w] # "idle" => ExecInv(w)
    /\ \A v, w \in Worker : pc[v] # "idle" /\ pc[w] # "idle" => Exclusive(v, w)
    /\ \A w \in Worker : pc[w] = "idle" => ~lost[w]
    /\ ~up => \A w \in Worker : pc[w] = "idle"

-----------------------------------------------------------------------------
(* Facts about the operators.                                              *)

\* Folding an event onto a job state yields a job state.
LEMMA ApplyType ==
    ASSUME NEW s \in State, NEW e \in Event
    PROVE  Apply(s, e) \in State
<1>1. \A status \in Status : Blank(status) \in State
  BY Zenon DEF Blank, NoState, State, Status
<1>2. Originate(e) \in State
  BY Zenon, <1>1 DEF Originate, NoState, State, Status
<1>3. Claimed(s, e) \in State /\ Retried(s, e) \in State /\ Deferred(s) \in State
  <2>1. /\ s.attempt \in Nat /\ s.claims \in Nat
        /\ e.attempt \in Nat /\ e.claim \in Nat
    BY Zenon DEF State, Event
  <2> QED
    BY <2>1 DEF Claimed, Retried, Deferred, State, Status
<1>4. Evolve(s, e) \in State
  BY Zenon, <1>1, <1>3 DEF Evolve, Status
<1> QED
  BY Zenon, <1>2, <1>4 DEF Apply

\* Every event and state constant of the model is well typed.
LEMMA NullTypes ==
    /\ Enqueued \in Event /\ NoCmd \in Event /\ NoState \in State /\ NoRow \in Row
    /\ NoSeen \in [version : Nat, state : State]
    /\ NoCtx \in [job : Job, seq : Nat, attempt : Nat]
    /\ \A status \in Status : Blank(status) \in State
<1>1. NoCtx.job \in Job
  BY Zenon, SwitchAssumption DEF NoCtx
<1> QED
  BY Zenon, <1>1 DEF Enqueued, NoCmd, Ev, NoState, NoRow, NoSeen, NoCtx, Blank, Event, State, Row,
              Status, EventType, Reason

\* The command a finished execution sends is an event, and meets CmdInv's terms.
LEMMA AckCommandType ==
    ASSUME NEW c \in [job : Job, seq : Nat, attempt : Nat],
           NEW plan \in {"Succeeded", "Deferred", "Failed", "Rejected"}
    PROVE  LET e == AckCommand(c, plan)
           IN  /\ e \in Event
               /\ e.type \in Settlement
               /\ e.claim = c.seq
               /\ e.reason # "Abandoned"
               /\ e.type = "RetryScheduled" =>
                    e.attempt = c.attempt + 1 /\ e.attempt < MaxAttempts
               /\ e.reason = "RetriesExhausted" =>
                    e.type = "Dead" /\ c.attempt + 1 >= MaxAttempts
BY BudgetAssumption
   DEF AckCommand, Exhausted, Ev, Event, EventType, Settlement, Reason

\* Appending keeps every earlier event in its place.
LEMMA AppendFacts ==
    ASSUME NEW s \in Seq(Event), NEW e \in Event
    PROVE  /\ Append(s, e) \in Seq(Event)
           /\ Len(Append(s, e)) = Len(s) + 1
           /\ \A n \in 1 .. Len(s) : Append(s, e)[n] = s[n]
           /\ Append(s, e)[Len(s) + 1] = e
           /\ Len(s) \in Nat
BY AppendProperties, LenProperties

\* Replaying one missed event applies it.
LEMMA ReplayOne ==
    ASSUME NEW s, NEW stream, NEW from \in Nat, Len(stream) = from + 1
    PROVE  Replay(s, stream, from) = Apply(s, stream[from + 1])
<1> DEFINE Eq(f) == f = [n \in from .. Len(stream) |->
                           IF n = from THEN s ELSE Apply(f[n - 1], stream[n])]
           g == [n \in from .. Len(stream) |->
                   IF n = from THEN s ELSE Apply(s, stream[n])]
           f == CHOOSE h : Eq(h)
<1>1. Eq(g)
  <2>1. \A n \in from .. Len(stream) : n # from => n - 1 = from /\ g[n - 1] = s
    OBVIOUS
  <2> QED
    BY Zenon, <2>1
<1>2. Eq(f)
  BY Zenon, <1>1
<1>3. f[from] = s /\ f[from + 1] = Apply(f[from], stream[from + 1])
  <2> HIDE DEF f
  <2> QED
    BY <1>2
<1> QED
  BY Zenon, <1>3 DEF Replay

\* Replaying no event changes nothing.
LEMMA ReplayNone ==
    ASSUME NEW s, NEW stream, NEW from \in Nat, Len(stream) = from
    PROVE  Replay(s, stream, from) = s
<1> DEFINE Eq(f) == f = [n \in from .. Len(stream) |->
                           IF n = from THEN s ELSE Apply(f[n - 1], stream[n])]
           g == [n \in from .. Len(stream) |-> s]
           f == CHOOSE h : Eq(h)
<1>1. Eq(g)
  <2>1. \A n \in from .. Len(stream) : n = from
    OBVIOUS
  <2> QED
    BY Zenon, <2>1
<1>2. Eq(f)
  BY Zenon, <1>1
<1>3. f[from] = s
  <2> HIDE DEF f
  <2> QED
    BY <1>2
<1> QED
  BY Zenon, <1>3 DEF Replay

-----------------------------------------------------------------------------
(* Types are preserved.                                                    *)

Types ==
    /\ events \in [Job -> Seq(Event)]
    /\ agg \in [Job -> State] /\ row \in [Job -> Row]
    /\ due \in [Job -> BOOLEAN]
    /\ pc \in [Worker -> Phase]
    /\ ctx \in [Worker -> [job : Job, seq : Nat, attempt : Nat]]
    /\ cmd \in [Worker -> Event]
    /\ seen \in [Worker -> [version : Nat, state : State]]
    /\ lost \in [Worker -> BOOLEAN]
    /\ orphans \subseteq [job : Job, seq : Nat]
    /\ up \in BOOLEAN /\ crashes \in 0 .. MaxCrashes

\* Appending an event keeps the stream and its fold well typed.
LEMMA AppendTypes ==
    ASSUME Types, NEW j \in Job, NEW e \in Event, AppendEvent(j, e)
    PROVE  events' \in [Job -> Seq(Event)] /\ agg' \in [Job -> State]
BY Zenon, ApplyType, AppendFacts DEF Types, AppendEvent

\* A released slot is well typed.
LEMMA ReleaseTypes ==
    ASSUME Types, NEW w \in Worker, Release(w)
    PROVE  /\ pc' \in [Worker -> Phase]
           /\ ctx' \in [Worker -> [job : Job, seq : Nat, attempt : Nat]]
           /\ cmd' \in [Worker -> Event]
           /\ seen' \in [Worker -> [version : Nat, state : State]]
           /\ lost' \in [Worker -> BOOLEAN]
BY SMTT(30), NullTypes DEF Types, Release, Phase

\* Writing the lease column changes nothing else of the row.
LEMMA LeaseWrite ==
    ASSUME Types, NEW j \in Job, NEW lease \in {"null", "live", "expired"},
           row' = [row EXCEPT ![j].lease = lease]
    PROVE  /\ row' \in [Job -> Row]
           /\ \A i \in Job : row'[i].version = row[i].version /\ row'[i].state = row[i].state
<1>1. [row[j] EXCEPT !.lease = lease] \in Row
  <2>1. row[j] \in Row
    BY Zenon DEF Types
  <2> QED
    BY Zenon, <2>1 DEF Row
<1>2. row' = [row EXCEPT ![j] = [row[j] EXCEPT !.lease = lease]]
  BY Zenon
<1>3. row' \in [Job -> Row]
  BY Zenon, <1>1, <1>2 DEF Types
<1>4. ASSUME NEW i \in Job
      PROVE  row'[i].version = row[i].version /\ row'[i].state = row[i].state
  <2>1. row[i] \in Row /\ row \in [Job -> Row]
    BY Zenon DEF Types
  <2>2. CASE i = j
    BY ZenonT(30), <1>2, <2>1, <2>2 DEF Row
  <2>3. CASE i # j
    BY Zenon, <1>2, <2>1, <2>3
  <2> QED
    BY Zenon, <2>2, <2>3
<1> QED
  BY Zenon, <1>3, <1>4

\* The parts of typed rows and contexts.
LEMMA PartTypes ==
    ASSUME Types
    PROVE  /\ \A j \in Job : /\ row[j].version \in Nat /\ row[j].state \in State
                             /\ row[j].lease \in {"null", "live", "expired"}
                             /\ Len(events[j]) \in Nat /\ events[j] \in Seq(Event)
                             /\ agg[j] \in State
           /\ \A w \in Worker : /\ ctx[w].job \in Job /\ ctx[w].seq \in Nat
                                /\ ctx[w].attempt \in Nat
                                /\ seen[w].version \in Nat /\ seen[w].state \in State
                                /\ cmd[w] \in Event
BY Zenon, LenProperties DEF Types, Row

\* catch_up brings a row that is at most one event behind up to date and leaves
\* its lease alone.
LEMMA CatchUpHeals ==
    ASSUME Types, NEW j \in Job, RowCurrent(j) \/ RowBehind(j)
    PROVE  /\ CaughtUp(j) \in Row
           /\ CaughtUp(j).version = Len(events[j])
           /\ CaughtUp(j).state = agg[j]
<1>1. CASE RowCurrent(j)
  BY <1>1, PartTypes DEF RowCurrent, CaughtUp, Types
<1>2. CASE RowBehind(j)
  <2>1. Replay(row[j].state, events[j], row[j].version) = agg[j]
    BY <1>2, PartTypes, ReplayOne DEF RowBehind
  <2>2. row[j].version < Len(events[j]) /\ row[j] \in Row
    BY <1>2, PartTypes DEF RowBehind, Types
  <2> QED
    BY Zenon, <2>1, <2>2, PartTypes DEF CaughtUp, Row
<1> QED
  BY Zenon, <1>1, <1>2

\* Every step preserves the types.
LEMMA TypesStep ==
    ASSUME Types, \A j \in Job : RowCurrent(j) \/ RowBehind(j), Next
    PROVE  Types'
<1>1. ASSUME NEW j \in Job, Enqueue(j) PROVE Types'
  <2>1. Apply(NoState, Enqueued) \in State
    BY Zenon, NullTypes, ApplyType
  <2> QED
    BY ZenonT(30), <1>1, <2>1, NullTypes, AppendTypes DEF Enqueue, Types, Row, slots, proc
<1>2. ASSUME NEW j \in Job, BecomesDue(j) PROVE Types'
  BY Zenon, <1>2 DEF BecomesDue, Types, db, slots, proc
<1>3. ASSUME NEW j \in Job, LeaseExpires(j) PROVE Types'
  BY ZenonT(30), <1>3, LeaseWrite DEF LeaseExpires, Types, slots, proc
<1>4. ASSUME NEW w \in Worker, NEW j \in Job, Claim(w, j) PROVE Types'
  <2> DEFINE e == Ev("Claimed", ClaimSeq(j), 0, "none")
  <2>1. ClaimSeq(j) \in Nat /\ e \in Event
    BY PartTypes DEF ClaimSeq, Ev, Event, EventType, Reason
  <2>2. Claimed(row[j].state, e) \in State
    BY <2>1, PartTypes DEF Claimed, State, Event, Status
  <2>3. events' \in [Job -> Seq(Event)] /\ agg' \in [Job -> State]
    BY Zenon, <1>4, <2>1, AppendTypes DEF Claim
  <2>4. row' \in [Job -> Row]
    <3>1. PICK lease \in {"live", "expired"} :
            row' = [row EXCEPT ![j] = [version |-> ClaimSeq(j),
                                       state |-> Claimed(row[j].state, e),
                                       lease |-> lease]]
      BY ZenonT(30), <1>4 DEF Claim
    <3> QED
      BY Zenon, <2>1, <2>2, <3>1 DEF Types, Row
  <2>5. /\ pc' \in [Worker -> Phase]
        /\ ctx' \in [Worker -> [job : Job, seq : Nat, attempt : Nat]]
    <3>1. CASE j \in Poison
      BY Zenon, <1>4, <3>1 DEF Claim, Types
    <3>2. CASE j \notin Poison
      <4>1. row[j].state.attempt \in Nat
        BY Zenon, PartTypes DEF State
      <4> DEFINE c == [job |-> j, seq |-> ClaimSeq(j), attempt |-> row[j].state.attempt]
      <4>2. c \in [job : Job, seq : Nat, attempt : Nat]
        BY Zenon, <2>1, <4>1
      <4>3. pc' = [pc EXCEPT ![w] = "run"] /\ ctx' = [ctx EXCEPT ![w] = c]
        BY Zenon, <1>4, <3>2 DEF Claim
      <4> HIDE DEF c
      <4> QED
        BY Zenon, <4>2, <4>3 DEF Types, Phase
    <3> QED
      BY Zenon, <3>1, <3>2
  <2> QED
    BY ZenonT(30), <1>4, <2>3, <2>4, <2>5 DEF Claim, Types, proc
<1>5. ASSUME NEW w \in Worker, NEW j \in Job, Abandon(w, j) PROVE Types'
  <2>1. Ev("Dead", 0, 0, "Abandoned") \in Event
    BY Zenon DEF Ev, Event, EventType, Settlement, Reason
  <2>2. events' \in [Job -> Seq(Event)] /\ agg' \in [Job -> State]
    BY Zenon, <1>5, <2>1, AppendTypes DEF Abandon
  <2>3. row' \in [Job -> Row]
    <3> DEFINE r == [version |-> ClaimSeq(j), state |-> Blank("dead"), lease |-> "null"]
    <3>1. r \in Row
      BY PartTypes, NullTypes DEF Row, ClaimSeq, Status
    <3>2. row' = [row EXCEPT ![j] = r]
      BY Zenon, <1>5 DEF Abandon
    <3> QED
      BY Zenon, <3>1, <3>2 DEF Types
  <2> QED
    BY ZenonT(30), <1>5, <2>2, <2>3 DEF Abandon, Types, slots, proc
<1>6. ASSUME NEW w \in Worker, Perform(w) PROVE Types'
  <2>1. CASE lost[w]
    BY ZenonT(30), <1>6, <2>1, ReleaseTypes DEF Perform, Types, db, proc
  <2>2. CASE ~lost[w]
    <3>1. PICK plan \in {"Succeeded", "Deferred", "Failed", "Rejected"} :
            /\ pc' = [pc EXCEPT ![w] = "ack"]
            /\ cmd' = [cmd EXCEPT ![w] = AckCommand(ctx[w], plan)]
            /\ UNCHANGED <<ctx, seen, lost>>
      BY Zenon, <1>6, <2>2 DEF Perform
    <3>2. AckCommand(ctx[w], plan) \in Event
      BY Zenon, AckCommandType DEF Types
    <3> QED
      BY Zenon, <1>6, <3>1, <3>2 DEF Perform, Types, Phase, db, proc
  <2> QED
    BY Zenon, <2>1, <2>2
<1>7. ASSUME NEW w \in Worker, AckLoad(w) PROVE Types'
  <2>1. CASE HoldsClaim(w)
    <3> DEFINE s == [version |-> Len(events[ctx[w].job]), state |-> agg[ctx[w].job]]
    <3>1. s \in [version : Nat, state : State]
      BY Zenon, PartTypes
    <3>2. pc' = [pc EXCEPT ![w] = "loaded"] /\ seen' = [seen EXCEPT ![w] = s]
      BY Zenon, <1>7, <2>1 DEF AckLoad
    <3> HIDE DEF s
    <3> QED
      BY Zenon, <1>7, <2>1, <3>1, <3>2 DEF AckLoad, Types, Phase, db, proc
  <2>2. CASE ~HoldsClaim(w)
    BY ZenonT(30), <1>7, <2>2, ReleaseTypes DEF AckLoad, Types, db, proc
  <2> QED
    BY SMTT(30), <2>1, <2>2
<1>8. ASSUME NEW w \in Worker, AckCommit(w) PROVE Types'
  <2>1. CASE CommitExpected(w)
    <3>1. events' \in [Job -> Seq(Event)] /\ agg' \in [Job -> State]
      BY Zenon, <1>8, <2>1, PartTypes, AppendTypes DEF AckCommit
    <3>2. due' \in [Job -> BOOLEAN]
      BY ZenonT(30), <1>8, <2>1 DEF AckCommit, Types
    <3> QED
      BY ZenonT(30), <1>8, <2>1, <3>1, <3>2 DEF AckCommit, Types, Phase, proc
  <2>2. CASE ~CommitExpected(w)
    BY ZenonT(30), <1>8, <2>2, ReleaseTypes DEF AckCommit, Types, proc
  <2> QED
    BY Zenon, <2>1, <2>2
<1>9. ASSUME NEW w \in Worker, AckTransient(w) PROVE Types'
  BY SMTT(30), <1>9, NullTypes DEF AckTransient, Types, Phase, db, proc
<1>10. ASSUME NEW w \in Worker, ReactLoad(w) PROVE Types'
  BY SMTT(30), <1>10, PartTypes DEF ReactLoad, Types, Phase, db, proc
<1>11. ASSUME NEW w \in Worker, ReactUpdate(w) PROVE Types'
  <2>1. CASE row[ctx[w].job].version = seen[w].version
    <3>1. Apply(seen[w].state, cmd[w]) \in State
      BY Zenon, ApplyType, PartTypes
    <3>2. Reacted(row[ctx[w].job], seen[w], cmd[w]) \in Row
      BY SMTT(30), <3>1, PartTypes DEF Reacted, Row, Types
    <3> QED
      BY ZenonT(30), <1>11, <2>1, <3>2, ReleaseTypes DEF ReactUpdate, Types, proc
  <2>2. CASE row[ctx[w].job].version # seen[w].version
    BY ZenonT(30), <1>11, <2>2 DEF ReactUpdate, Types, Phase, proc
  <2> QED
    BY Zenon, <2>1, <2>2
<1>12. ASSUME NEW w \in Worker, ReactLost(w) PROVE Types'
  BY ZenonT(30), <1>12, ReleaseTypes DEF ReactLost, Types, db, proc
<1>13. ASSUME NEW w \in Worker, Renew(w) PROVE Types'
  <2>1. CASE RowHeld(ctx[w].job, ctx[w].seq)
    BY ZenonT(30), <1>13, <2>1, PartTypes, LeaseWrite DEF Renew, Types, proc
  <2>2. CASE ~RowHeld(ctx[w].job, ctx[w].seq)
    BY ZenonT(30), <1>13, <2>2 DEF Renew, Types, proc
  <2> QED
    BY Zenon, <2>1, <2>2
<1>14. ASSUME NEW w \in Worker, Panic(w) PROVE Types'
  <2>1. orphans' \subseteq [job : Job, seq : Nat]
    BY <1>14, PartTypes DEF Panic, Types
  <2> QED
    BY ZenonT(30), <1>14, <2>1, ReleaseTypes DEF Panic, Types, db
<1>15. ASSUME NEW o \in orphans, OrphanRenew(o) PROVE Types'
  <2>1. CASE RowHeld(o.job, o.seq)
    BY ZenonT(30), <1>15, <2>1, LeaseWrite DEF OrphanRenew, Types, slots
  <2>2. CASE ~RowHeld(o.job, o.seq)
    BY Zenon, <1>15, <2>2 DEF OrphanRenew, Types, slots
  <2> QED
    BY Zenon, <2>1, <2>2
<1>16. CASE Crash
  <2>1. crashes' \in 0 .. MaxCrashes
    BY <1>16, BoundAssumption DEF Crash, Types
  <2>2. /\ pc' \in [Worker -> Phase]
        /\ ctx' \in [Worker -> [job : Job, seq : Nat, attempt : Nat]]
        /\ cmd' \in [Worker -> Event]
        /\ seen' \in [Worker -> [version : Nat, state : State]]
        /\ lost' \in [Worker -> BOOLEAN]
    BY Zenon, <1>16, NullTypes DEF Crash, Phase
  <2> QED
    BY ZenonT(30), <1>16, <2>1, <2>2 DEF Crash, Types, db
<1>17. CASE Restart
  <2>1. \A j \in Job : Rebuilt(j) \in Row
    BY Zenon, NullTypes, PartTypes DEF Rebuilt, Row
  <2>2. row' \in [Job -> Row]
    BY Zenon, <1>17, <2>1, CatchUpHeals DEF Restart
  <2> QED
    BY Zenon, <1>17, <2>2 DEF Restart, Types, slots
<1> QED
  BY SMTT(30), <1>1, <1>2, <1>3, <1>4, <1>5, <1>6, <1>7, <1>8, <1>9, <1>10, <1>11, <1>12,
     <1>13, <1>14, <1>15, <1>16, <1>17 DEF Next, Settle

-----------------------------------------------------------------------------
(* What folding one more event does.                                       *)

\* A claim of a live job folds to the claimed state that plan_claim writes.
LEMMA FoldClaimed ==
    ASSUME NEW s \in State, s.status \in {"pending", "claimed"},
           NEW e \in Event, e.type = "Claimed"
    PROVE  Apply(s, e) = Claimed(s, e)
BY Zenon DEF Apply, Evolve

\* Abandoning a live job folds to dead.
LEMMA FoldDead ==
    ASSUME NEW s \in State, s.status \in {"pending", "claimed"},
           NEW e \in Event, e.type = "Dead"
    PROVE  Apply(s, e) = Blank("dead")
BY Zenon DEF Apply, Evolve

\* Settling a claimed job never fails, ends the claim and spends no claim.
LEMMA FoldSettlement ==
    ASSUME NEW s \in State, s.status = "claimed",
           NEW e \in Event, e.type \in Settlement
    PROVE  /\ Apply(s, e).status \in {"pending", "done", "dead"}
           /\ Apply(s, e).claims <= s.claims
<1>1. s.claims \in Nat
  BY Zenon DEF State
<1>2. Apply(s, e) = Evolve(s, e)
  BY Zenon DEF Apply
<1>3. Evolve(s, e) \in {Blank("done"), Retried(s, e), Deferred(s), Blank("dead")}
  BY Zenon DEF Evolve, Settlement
<1> QED
  BY <1>1, <1>2, <1>3 DEF Blank, Retried, Deferred

-----------------------------------------------------------------------------
(* What a step that does not touch a job, or a worker, preserves.          *)

\* The invariant of a job reads its stream, its fold and its row's version and
\* payload only.
LEMMA JobFrame ==
    ASSUME NEW j \in Job, JobInv(j),
           events'[j] = events[j], agg'[j] = agg[j],
           row'[j].version = row[j].version, row'[j].state = row[j].state
    PROVE  JobInv(j)'
BY SMTT(30) DEF JobInv, ClaimAtEnd, RowCurrent, RowBehind, FencedAt

\* What an execution's invariant says whatever its phase.
LEMMA ExecParts ==
    ASSUME NEW w \in Worker, ExecInv(w)
    PROVE  /\ ctx[w].seq \in 1 .. Len(events[ctx[w].job])
           /\ events[ctx[w].job][ctx[w].seq].type = "Claimed"
           /\ Len(events[ctx[w].job]) = ctx[w].seq =>
                agg[ctx[w].job].attempt = ctx[w].attempt
           /\ pc[w] \in Settling => CmdInv(w)
BY Zenon DEF ExecInv

\* What it says before the execution has settled its claim.
LEMMA ExecPhase ==
    ASSUME NEW w \in Worker, ExecInv(w), pc[w] \in {"run", "ack", "retry", "loaded"},
           NEW s, s = events[ctx[w].job], NEW q, q = ctx[w].seq
    PROVE  /\ \/ Len(s) = q
              \/ s[q + 1].type = "Claimed"
              \/ s[q + 1].type = "Dead" /\ s[q + 1].reason = "Abandoned"
           /\ pc[w] = "run" /\ lost[w] => Len(s) > q
           /\ pc[w] = "loaded" => seen[w].version = q
BY Zenon DEF ExecInv

\* What it says while the execution's view update is outstanding.
LEMMA ExecView ==
    ASSUME NEW w \in Worker, ExecInv(w), pc[w] \in {"view", "viewed"},
           NEW j, j = ctx[w].job, NEW q, q = ctx[w].seq
    PROVE  /\ Len(events[j]) = q + 1
           /\ events[j][q + 1] = cmd[w]
           /\ row[j].version = q
           /\ pc[w] = "viewed" => seen[w].version = q /\ seen[w].state = row[j].state
BY Zenon DEF ExecInv

\* A command stays what it was while its slot keeps it.
LEMMA CmdFrame ==
    ASSUME NEW w \in Worker, CmdInv(w), cmd'[w] = cmd[w], ctx'[w] = ctx[w]
    PROVE  CmdInv(w)'
BY Zenon DEF CmdInv

\* The invariant of an execution reads its slot and its job only.
LEMMA ExecFrame ==
    ASSUME NEW w \in Worker, ExecInv(w),
           pc'[w] = pc[w], ctx'[w] = ctx[w], cmd'[w] = cmd[w], seen'[w] = seen[w],
           lost'[w] = lost[w],
           events'[ctx[w].job] = events[ctx[w].job], agg'[ctx[w].job] = agg[ctx[w].job],
           row'[ctx[w].job].version = row[ctx[w].job].version,
           row'[ctx[w].job].state = row[ctx[w].job].state
    PROVE  ExecInv(w)'
BY ZenonT(30) DEF ExecInv, CmdInv

\* An event appended to the job of another execution supersedes that execution
\* or follows an event that already did.
LEMMA ExecAppend ==
    ASSUME Types, NEW w \in Worker, ExecInv(w), NEW j \in Job, NEW e \in Event,
           AppendEvent(j, e),
           pc'[w] = pc[w], ctx'[w] = ctx[w], cmd'[w] = cmd[w], seen'[w] = seen[w],
           lost'[w] = lost[w], pc[w] # "idle",
           ctx[w].job = j => pc[w] \notin {"view", "viewed"},
           ctx[w].job = j /\ ctx[w].seq = Len(events[j]) =>
               e.type = "Claimed" \/ (e.type = "Dead" /\ e.reason = "Abandoned"),
           ctx[w].job # j => /\ row'[ctx[w].job].version = row[ctx[w].job].version
                             /\ row'[ctx[w].job].state = row[ctx[w].job].state
    PROVE  ExecInv(w)'
<1>1. CASE ctx[w].job # j
  <2>1. ctx[w].job \in Job
    BY Zenon, PartTypes
  <2>2. /\ events'[ctx[w].job] = events[ctx[w].job]
        /\ agg'[ctx[w].job] = agg[ctx[w].job]
    BY SMTT(30), <1>1, <2>1 DEF AppendEvent, Types
  <2> QED
    BY Zenon, <1>1, <2>2, ExecFrame
<1>2. CASE ctx[w].job = j
  <2> DEFINE q == ctx[w].seq
             n == Len(events[j])
  <2>1. q \in 1 .. n /\ n \in Nat
    BY Zenon, <1>2, PartTypes, ExecParts
  <2>2. /\ Len(events'[j]) = n + 1
        /\ events'[j][n + 1] = e
        /\ \A k \in 1 .. n : events'[j][k] = events[j][k]
    BY AppendFacts, PartTypes DEF AppendEvent, Types
  <2>3. pc[w] \in Phase
    BY Zenon DEF Types
  <2>4. pc[w] \in {"run", "ack", "retry", "loaded"}
    BY Zenon, <1>2, <2>3 DEF Phase
  <2>5. \/ events'[j][q + 1].type = "Claimed"
        \/ events'[j][q + 1].type = "Dead" /\ events'[j][q + 1].reason = "Abandoned"
    <3>1. CASE q = n
      BY SMTT(30), <1>2, <2>2, <3>1
    <3>2. CASE q # n
      <4>1. q + 1 \in 1 .. n
        BY <2>1, <3>2
      <4>2. events'[j][q + 1] = events[j][q + 1]
        BY SMTT(30), <2>2, <4>1
      <4>3. \/ events[j][q + 1].type = "Claimed"
            \/ events[j][q + 1].type = "Dead" /\ events[j][q + 1].reason = "Abandoned"
        BY <1>2, <2>4, <3>2, ExecPhase
      <4> QED
        BY Zenon, <4>2, <4>3
    <3> QED
      BY Zenon, <3>1, <3>2
  <2>6. pc[w] \in Settling => CmdInv(w)'
    BY Zenon, ExecParts, CmdFrame
  <2>7. /\ q \in 1 .. Len(events'[j]) /\ Len(events'[j]) # q /\ Len(events'[j]) > q
        /\ events'[j][q] = events[j][q]
    BY SMTT(30), <2>1, <2>2
  <2>8. /\ events[j][q].type = "Claimed"
        /\ pc[w] = "loaded" => seen[w].version = q
        /\ pc[w] \notin {"view", "viewed"} /\ pc[w] # "viewed"
    BY Zenon, <1>2, <2>4, ExecParts, ExecPhase
  <2> QED
    BY ZenonT(30), <1>2, <2>4, <2>5, <2>6, <2>7, <2>8 DEF ExecInv
<1> QED
  BY Zenon, <1>1, <1>2

-----------------------------------------------------------------------------
(* One step per appending action: what it does to the job it appends to.   *)

\* A winning compare-and-swap means that the row is current.
LEMMA CasMeansCurrent ==
    ASSUME Types, NEW j \in Job, JobInv(j), CasWins(j)
    PROVE  RowCurrent(j) /\ ClaimSeq(j) = Len(events[j]) + 1
BY SMTT(30), PartTypes DEF JobInv, RowCurrent, RowBehind, CasWins, ClaimSeq

\* Nobody is updating the row of a job whose row is current.
LEMMA CurrentMeansNoView ==
    ASSUME Types, NEW w \in Worker, ExecInv(w), RowCurrent(ctx[w].job)
    PROVE  pc[w] \notin {"view", "viewed"}
BY PartTypes DEF ExecInv, RowCurrent

\* Appending keeps the earlier part of the per-event invariants.
LEMMA PrefixKept ==
    ASSUME Types, NEW j \in Job, JobInv(j), NEW e \in Event, AppendEvent(j, e)
    PROVE  /\ Len(events'[j]) = Len(events[j]) + 1
           /\ events'[j][Len(events[j]) + 1] = e
           /\ \A n \in 1 .. Len(events[j]) : events'[j][n] = events[j][n]
           /\ agg'[j] = Apply(agg[j], e)
           /\ \A n \in 1 .. Len(events[j]) :
                /\ events'[j][n].type = "Claimed" => events'[j][n].claim = n
                /\ FencedAt(j, n)'
<1> DEFINE k == Len(events[j])
<1>1. k \in Nat /\ events[j] \in Seq(Event)
  BY Zenon, PartTypes
<1>2. events'[j] = Append(events[j], e) /\ agg'[j] = Apply(agg[j], e)
  BY Zenon DEF AppendEvent, Types
<1>3. /\ Len(events'[j]) = k + 1
      /\ events'[j][k + 1] = e
      /\ \A n \in 1 .. k : events'[j][n] = events[j][n]
  BY <1>1, <1>2, AppendFacts
<1>4. ASSUME NEW n \in 1 .. k
      PROVE  /\ events'[j][n].type = "Claimed" => events'[j][n].claim = n
             /\ FencedAt(j, n)'
  <2>1. events'[j][n] = events[j][n]
    BY Zenon, <1>3
  <2>2. n > 1 => events'[j][n - 1] = events[j][n - 1]
    BY <1>1, <1>3
  <2>3. FencedAt(j, n) /\ (events[j][n].type = "Claimed" => events[j][n].claim = n)
    BY Zenon DEF JobInv, ClaimAtEnd
  <2> QED
    BY Zenon, <2>1, <2>2, <2>3 DEF FencedAt
<1> QED
  BY Zenon, <1>2, <1>3, <1>4

\* Appending an event that keeps JobInv's remaining terms keeps JobInv.
LEMMA JobAppend ==
    ASSUME Types, NEW j \in Job, JobInv(j), NEW e \in Event, AppendEvent(j, e),
           agg'[j].status \notin {"none", "failed"}, agg'[j].claims <= MaxClaims,
           agg'[j].status = "claimed" <=> e.type = "Claimed",
           e.type = "Claimed" => /\ e.claim = Len(events[j]) + 1
                                 /\ agg'[j].claim = e.claim,
           e.type \in Settlement /\ e.reason # "Abandoned" =>
               agg[j].status = "claimed" /\ e.claim = agg[j].claim,
           RowCurrent(j)' \/ RowBehind(j)'
    PROVE  JobInv(j)'
<1> DEFINE k == Len(events[j])
<1>1. k \in Nat
  BY Zenon, PartTypes
<1>2. /\ Len(events'[j]) = k + 1
      /\ events'[j][k + 1] = e
      /\ \A n \in 1 .. k : events'[j][n] = events[j][n]
      /\ \A n \in 1 .. k : /\ events'[j][n].type = "Claimed" => events'[j][n].claim = n
                           /\ FencedAt(j, n)'
  BY Zenon, PrefixKept
<1>3. ClaimAtEnd(j)'
  BY <1>1, <1>2 DEF ClaimAtEnd
<1>4. ASSUME NEW n \in Nat, n = k + 1 PROVE FencedAt(j, n)'
  <2> SUFFICES ASSUME e.type \in Settlement /\ e.reason # "Abandoned"
               PROVE  /\ n > 1
                      /\ events'[j][n - 1].type = "Claimed"
                      /\ events'[j][n - 1].claim = e.claim
    BY Zenon, <1>2, <1>4 DEF FencedAt
  <2>1. /\ agg[j].status = "claimed" /\ e.claim = agg[j].claim
        /\ k > 0 /\ events[j][k].type = "Claimed" /\ agg[j].claim = k
    BY Zenon DEF JobInv, ClaimAtEnd
  <2>2. events[j][k].claim = k
    BY <1>1, <2>1 DEF JobInv, ClaimAtEnd
  <2>3. n - 1 = k /\ k \in 1 .. k /\ n > 1
    BY <1>1, <1>4, <2>1
  <2>4. events'[j][k] = events[j][k]
    BY Zenon, <1>2, <2>3
  <2> QED
    BY Zenon, <2>1, <2>2, <2>3, <2>4
<1>5. \A n \in 1 .. Len(events'[j]) : FencedAt(j, n)'
  <2>1. \A n \in 1 .. k + 1 : n \in 1 .. k \/ (n \in Nat /\ n = k + 1)
    BY <1>1
  <2> QED
    BY Zenon, <1>2, <1>4, <2>1
<1> QED
  BY Zenon, <1>3, <1>5 DEF JobInv

-----------------------------------------------------------------------------
(* Every step preserves the invariant.                                     *)

Rest ==
    /\ \A j \in Job : JobInv(j)
    /\ \A w \in Worker : pc[w] # "idle" => ExecInv(w)
    /\ \A v, w \in Worker : pc[v] # "idle" /\ pc[w] # "idle" => Exclusive(v, w)
    /\ \A w \in Worker : pc[w] = "idle" => ~lost[w]
    /\ ~up => \A w \in Worker : pc[w] = "idle"

\* A step that leaves streams, folds, row versions and payloads alone.
Quiet ==
    /\ UNCHANGED <<events, agg>>
    /\ \A j \in Job : row'[j].version = row[j].version /\ row'[j].state = row[j].state

\* The slots of every worker but w are as they were.
OthersKeep(w) ==
    \A v \in Worker \ {w} : /\ pc'[v] = pc[v] /\ ctx'[v] = ctx[v] /\ cmd'[v] = cmd[v]
                            /\ seen'[v] = seen[v] /\ lost'[v] = lost[v]

\* A released slot keeps the invariant.
LEMMA ReleaseInv ==
    ASSUME IInv, NEW w \in Worker, Release(w), Quiet, up, up'
    PROVE  Rest'
<1>1. Types
  BY SMTT(30) DEF IInv, TypeOK, Types
<1>2. OthersKeep(w) /\ pc'[w] = "idle" /\ ~lost'[w]
  BY Zenon, <1>1 DEF Release, OthersKeep, Types
<1>3. \A j \in Job : JobInv(j)'
  BY Zenon, JobFrame DEF IInv, Quiet
<1>4. ASSUME NEW v \in Worker, pc'[v] # "idle" PROVE ExecInv(v)'
  <2>1. ctx[v].job \in Job
    BY Zenon, <1>1, PartTypes
  <2>2. v # w /\ pc[v] # "idle" /\ ExecInv(v)
    BY Zenon, <1>2, <1>4 DEF OthersKeep, IInv
  <2> QED
    BY Zenon, <1>2, <2>1, <2>2, ExecFrame DEF OthersKeep, Quiet
<1>5. ASSUME NEW u \in Worker, NEW v \in Worker, pc'[u] # "idle", pc'[v] # "idle"
      PROVE  Exclusive(u, v)'
  BY <1>2, <1>5 DEF OthersKeep, IInv, Exclusive
<1>6. \A v \in Worker : pc'[v] = "idle" => ~lost'[v]
  BY Zenon, <1>2 DEF OthersKeep, IInv
<1> QED
  BY Zenon, <1>3, <1>4, <1>5, <1>6 DEF Rest

\* A slot that moves on with its execution keeps the invariant if its own part
\* holds after the step.
LEMMA AdvanceInv ==
    ASSUME IInv, NEW w \in Worker, OthersKeep(w), Quiet, up, up',
           pc[w] # "idle", pc'[w] # "idle", ctx'[w] = ctx[w], ExecInv(w)'
    PROVE  Rest'
<1>1. Types
  BY Zenon DEF IInv, TypeOK, Types
<1>2. \A j \in Job : JobInv(j)'
  BY Zenon, JobFrame DEF IInv, Quiet
<1>3. ASSUME NEW v \in Worker, pc'[v] # "idle" PROVE ExecInv(v)'
  <2>1. CASE v = w
    BY Zenon, <2>1
  <2>2. CASE v # w
    <3>1. ctx[v].job \in Job
      BY Zenon, <1>1, PartTypes
    <3>2. pc[v] # "idle" /\ ExecInv(v)
      BY Zenon, <1>3, <2>2 DEF OthersKeep, IInv
    <3> QED
      BY Zenon, <2>2, <3>1, <3>2, ExecFrame DEF OthersKeep, Quiet
  <2> QED
    BY Zenon, <2>1, <2>2
<1>4. ASSUME NEW u \in Worker, NEW v \in Worker, pc'[u] # "idle", pc'[v] # "idle"
      PROVE  Exclusive(u, v)'
  BY <1>4 DEF OthersKeep, IInv, Exclusive
<1>5. \A v \in Worker : pc'[v] = "idle" => ~lost'[v]
  BY Zenon DEF OthersKeep, IInv
<1> QED
  BY Zenon, <1>2, <1>3, <1>4, <1>5 DEF Rest

\* A step that touches no slot, no stream and no row version or payload.
LEMMA IdleInv ==
    ASSUME IInv, Quiet, UNCHANGED slots, up' = up
    PROVE  Rest'
<1>1. Types
  BY Zenon DEF IInv, TypeOK, Types
<1>2. \A j \in Job : JobInv(j)'
  BY Zenon, JobFrame DEF IInv, Quiet
<1>3. ASSUME NEW v \in Worker, pc'[v] # "idle" PROVE ExecInv(v)'
  <2>1. ctx[v].job \in Job
    BY Zenon, <1>1, PartTypes
  <2>2. pc[v] # "idle" /\ ExecInv(v)
    BY Zenon, <1>3 DEF slots, IInv
  <2> QED
    BY Zenon, <2>1, <2>2, ExecFrame DEF slots, Quiet
<1> QED
  BY Zenon, <1>2, <1>3 DEF Rest, IInv, slots, Exclusive

\* An appending step that touches no slot but that of w.
LEMMA OthersAppend ==
    ASSUME IInv, NEW w \in Worker, OthersKeep(w), NEW j \in Job, NEW e \in Event,
           AppendEvent(j, e), RowCurrent(j),
           \A i \in Job \ {j} : row'[i] = row[i],
           \/ e.type = "Claimed"
           \/ e.type = "Dead" /\ e.reason = "Abandoned"
           \/ pc[w] # "idle" /\ ctx[w].job = j /\ ctx[w].seq = Len(events[j])
    PROVE  /\ \A i \in Job \ {j} : JobInv(i)'
           /\ \A v \in Worker \ {w} : pc'[v] # "idle" => ExecInv(v)'
           /\ \A u, v \in Worker \ {w} :
                pc'[u] # "idle" /\ pc'[v] # "idle" => Exclusive(u, v)'
           /\ \A v \in Worker \ {w} : pc'[v] = "idle" => ~lost'[v]
<1>1. Types
  BY SMTT(30) DEF IInv, TypeOK, Types
<1>2. ASSUME NEW i \in Job \ {j} PROVE JobInv(i)'
  <2>1. events'[i] = events[i] /\ agg'[i] = agg[i]
    BY Zenon, <1>1 DEF AppendEvent, Types
  <2> QED
    BY Zenon, <2>1, JobFrame DEF IInv
<1>3. ASSUME NEW v \in Worker \ {w}, pc'[v] # "idle" PROVE ExecInv(v)'
  <2>1. pc[v] # "idle" /\ ExecInv(v) /\ ctx[v].job \in Job
    BY Zenon, <1>1, <1>3, PartTypes DEF OthersKeep, IInv
  <2>2. ctx[v].job = j => pc[v] \notin {"view", "viewed"}
    BY Zenon, <1>1, <2>1, CurrentMeansNoView
  <2>3. ctx[v].job = j /\ ctx[v].seq = Len(events[j]) =>
            e.type = "Claimed" \/ (e.type = "Dead" /\ e.reason = "Abandoned")
    BY Zenon, <2>1 DEF IInv, Exclusive
  <2>4. ctx[v].job # j => row'[ctx[v].job] = row[ctx[v].job]
    BY Zenon, <2>1
  <2> QED
    BY SMTT(30), <1>1, <2>1, <2>2, <2>3, <2>4, ExecAppend DEF OthersKeep
<1>4. ASSUME NEW u \in Worker \ {w}, NEW v \in Worker \ {w},
             pc'[u] # "idle", pc'[v] # "idle"
      PROVE  Exclusive(u, v)'
  BY <1>4 DEF OthersKeep, IInv, Exclusive
<1>5. \A v \in Worker \ {w} : pc'[v] = "idle" => ~lost'[v]
  BY ZenonT(30) DEF OthersKeep, IInv
<1> QED
  BY Zenon, <1>2, <1>3, <1>4, <1>5

-----------------------------------------------------------------------------
(* The two steps of a poll that wins.                                       *)

\* A claim, poison or not, keeps the invariant.
LEMMA ClaimInv ==
    ASSUME IInv, NEW w \in Worker, NEW j \in Job, Claim(w, j)
    PROVE  Rest'
<1> DEFINE e == Ev("Claimed", ClaimSeq(j), 0, "none")
           k == Len(events[j])
<1>1. Types /\ JobInv(j) /\ up /\ pc[w] = "idle" /\ ~lost[w]
  BY SMTT(30) DEF IInv, TypeOK, Types, Claim
<1>2. RowCurrent(j) /\ ClaimSeq(j) = k + 1 /\ k \in Nat
  BY Zenon, <1>1, CasMeansCurrent, PartTypes DEF Claim
<1>3. e \in Event /\ e.type = "Claimed" /\ e.claim = k + 1
  BY <1>2 DEF Ev, Event, EventType, Reason
<1>4. AppendEvent(j, e)
  BY Zenon DEF Claim
<1>5. agg[j] \in State /\ agg[j].status \in {"pending", "claimed"} /\ agg[j].claims < MaxClaims
  BY SMTT(30), <1>1, <1>2, PartTypes DEF Claim, Runnable, BudgetLeft, RowCurrent
<1>6. agg'[j] = Claimed(agg[j], e)
  BY SMTT(30), <1>1, <1>3, <1>4, <1>5, FoldClaimed, PrefixKept
<1>7. /\ agg'[j].status = "claimed" /\ agg'[j].claim = k + 1
      /\ agg'[j].attempt = agg[j].attempt /\ agg'[j].claims <= MaxClaims
  BY <1>3, <1>5, <1>6, BudgetAssumption DEF Claimed, State
<1>8. PICK lease \in {"live", "expired"} :
        row' = [row EXCEPT ![j] = [version |-> ClaimSeq(j),
                                   state |-> Claimed(row[j].state, e),
                                   lease |-> lease]]
  BY ZenonT(30) DEF Claim
<1>9. /\ row'[j].version = k + 1 /\ row'[j].state = agg'[j]
      /\ \A i \in Job \ {j} : row'[i] = row[i]
  BY SMTT(30), <1>1, <1>2, <1>6, <1>8 DEF Types, RowCurrent
<1>10. Len(events'[j]) = k + 1 /\ events'[j][k + 1] = e
  BY SMTT(30), <1>1, <1>3, <1>4, PrefixKept
<1>11. JobInv(j)'
  <2>1. RowCurrent(j)'
    BY SMTT(30), <1>9, <1>10 DEF RowCurrent
  <2> HIDE DEF e
  <2> QED
    BY Zenon, <1>1, <1>3, <1>4, <1>7, <2>1, JobAppend DEF Settlement
<1>12. OthersKeep(w)
  BY SMTT(30), <1>1 DEF Claim, OthersKeep, Types
<1>13. /\ \A i \in Job \ {j} : JobInv(i)'
       /\ \A v \in Worker \ {w} : pc'[v] # "idle" => ExecInv(v)'
       /\ \A u, v \in Worker \ {w} :
            pc'[u] # "idle" /\ pc'[v] # "idle" => Exclusive(u, v)'
       /\ \A v \in Worker \ {w} : pc'[v] = "idle" => ~lost'[v]
  <2> HIDE DEF e
  <2> QED
    BY SMTT(30), <1>2, <1>3, <1>4, <1>9, <1>12, OthersAppend
<1>14. lost'[w] = lost[w] /\ up'
  BY Zenon, <1>1 DEF Claim, proc
<1>15. CASE j \in Poison
  <2>1. UNCHANGED pc
    BY Zenon, <1>15 DEF Claim
  <2> QED
    BY Zenon, <1>1, <1>11, <1>13, <1>14, <2>1 DEF Rest
<1>16. CASE j \notin Poison
  <2>1. pc'[w] = "run" /\ ctx'[w] = [job |-> j, seq |-> k + 1, attempt |-> agg[j].attempt]
    <3>1. /\ pc' = [pc EXCEPT ![w] = "run"]
          /\ ctx' = [ctx EXCEPT ![w] = [job |-> j, seq |-> ClaimSeq(j),
                                        attempt |-> row[j].state.attempt]]
      BY Zenon, <1>16 DEF Claim
    <3> QED
      BY Zenon, <1>1, <1>2, <3>1 DEF Types, RowCurrent
  <2>2. /\ ctx'[w].job = j /\ ctx'[w].seq = k + 1 /\ ctx'[w].attempt = agg'[j].attempt
        /\ k + 1 \in 1 .. Len(events'[j])
        /\ ~lost'[w]
    BY <1>1, <1>2, <1>7, <1>10, <1>14, <2>1
  <2>3. ExecInv(w)'
    BY ZenonT(30), <1>3, <1>10, <2>1, <2>2 DEF ExecInv, Settling
  <2>4. ASSUME NEW v \in Worker \ {w}, pc'[v] # "idle"
        PROVE  ~(ctx'[v].job = j /\ ctx'[v].seq = k + 1)
    <3>1. pc[v] # "idle" /\ ctx'[v] = ctx[v]
      BY Zenon, <1>12, <2>4 DEF OthersKeep
    <3>2. ctx[v].seq \in 1 .. Len(events[ctx[v].job])
      BY Zenon, <3>1, ExecParts DEF IInv
    <3> QED
      BY <1>2, <3>1, <3>2
  <2>5. ASSUME NEW u \in Worker, NEW v \in Worker, pc'[u] # "idle", pc'[v] # "idle"
        PROVE  Exclusive(u, v)'
    <3>1. CASE u # w /\ v # w
      BY Zenon, <1>13, <2>5, <3>1
    <3>2. CASE u = w /\ v # w
      BY Zenon, <2>2, <2>4, <2>5, <3>2 DEF Exclusive
    <3>3. CASE u # w /\ v = w
      BY ZenonT(30), <2>2, <2>4, <2>5, <3>3 DEF Exclusive
    <3>4. CASE u = w /\ v = w
      BY SMTT(30), <3>4 DEF Exclusive
    <3> QED
      BY SMTT(30), <3>1, <3>2, <3>3, <3>4
  <2> QED
    BY Zenon, <1>11, <1>13, <1>14, <2>1, <2>3, <2>5 DEF Rest
<1> QED
  BY SMTT(30), <1>15, <1>16

\* Abandoning keeps the invariant.
LEMMA AbandonInv ==
    ASSUME IInv, NEW w \in Worker, NEW j \in Job, Abandon(w, j)
    PROVE  Rest'
<1> DEFINE e == Ev("Dead", 0, 0, "Abandoned")
           k == Len(events[j])
<1>1. Types /\ JobInv(j) /\ up /\ pc[w] = "idle" /\ ~lost[w]
  BY SMTT(30) DEF IInv, TypeOK, Types, Abandon
<1>2. RowCurrent(j) /\ ClaimSeq(j) = k + 1 /\ k \in Nat
  BY Zenon, <1>1, CasMeansCurrent, PartTypes DEF Abandon
<1>3. e \in Event /\ e.type = "Dead" /\ e.reason = "Abandoned"
  BY Zenon DEF Ev, Event, EventType, Settlement, Reason
<1>4. AppendEvent(j, e) /\ UNCHANGED <<slots, proc>>
  BY ZenonT(30) DEF Abandon
<1>5. agg[j] \in State /\ agg[j].status \in {"pending", "claimed"}
  BY SMTT(30), <1>1, <1>2, PartTypes DEF Abandon, Runnable, RowCurrent
<1> HIDE DEF e
<1>6. agg'[j] = Blank("dead")
  BY ZenonT(30), <1>1, <1>3, <1>4, <1>5, FoldDead, PrefixKept
<1>7. /\ row'[j].version = k + 1 /\ row'[j].state = agg'[j]
      /\ \A i \in Job \ {j} : row'[i] = row[i]
  BY SMTT(30), <1>1, <1>2, <1>6 DEF Abandon, Types
<1>8. Len(events'[j]) = k + 1
  BY SMTT(30), <1>1, <1>3, <1>4, PrefixKept
<1>9. JobInv(j)'
  <2>1. RowCurrent(j)'
    BY Zenon, <1>7, <1>8 DEF RowCurrent
  <2> QED
    BY SMTT(30), <1>1, <1>3, <1>4, <1>6, <2>1, JobAppend, BudgetAssumption DEF Blank
<1>10. OthersKeep(w)
  BY SMTT(30), <1>4 DEF OthersKeep, slots
<1>11. /\ \A i \in Job \ {j} : JobInv(i)'
       /\ \A v \in Worker \ {w} : pc'[v] # "idle" => ExecInv(v)'
       /\ \A u, v \in Worker \ {w} :
            pc'[u] # "idle" /\ pc'[v] # "idle" => Exclusive(u, v)'
       /\ \A v \in Worker \ {w} : pc'[v] = "idle" => ~lost'[v]
  BY ZenonT(30), <1>2, <1>3, <1>4, <1>7, <1>10, OthersAppend
<1> QED
  BY ZenonT(30), <1>1, <1>4, <1>9, <1>11 DEF Rest, slots, proc

=============================================================================

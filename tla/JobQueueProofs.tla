--------------------------- MODULE JobQueueProofs ---------------------------
(***************************************************************************)
(* The inductive invariant of JobQueue holds initially and every action keeps *)
(* it; the theorems that follow, for any sets of jobs and workers, any     *)
(* budgets and any bounds.                                                 *)
(***************************************************************************)
EXTENDS JobQueueFrames, FiniteSetTheorems

\* Enqueueing keeps the invariant: nobody can hold a claim on a new job.
LEMMA EnqueueInv ==
    ASSUME IInv, NEW j \in Job, Enqueue(j)
    PROVE  Rest'
<1>1. Types /\ JobInv(j) /\ events[j] = << >> /\ Len(events[j]) = 0
  BY Zenon DEF IInv, TypeOK, Types, Enqueue
<1>2. Enqueued \in Event /\ Enqueued.type = "Enqueued" /\ AppendEvent(j, Enqueued)
  BY Zenon, NullTypes DEF Enqueue, Enqueued, Ev
<1>3. agg[j] \in State /\ agg[j].status = "none"
  BY Zenon, <1>1, PartTypes DEF JobInv, ClaimAtEnd
<1>4. Apply(NoState, Enqueued) = Blank("pending") /\ Apply(agg[j], Enqueued) = Blank("pending")
  BY Zenon, <1>2, <1>3 DEF Apply, Originate, NoState
<1>5. agg'[j] = Blank("pending") /\ Len(events'[j]) = 1
  <2>1. Len(events'[j]) = Len(events[j]) + 1 /\ agg'[j] = Apply(agg[j], Enqueued)
    BY ZenonT(30), <1>1, <1>2, PrefixKept
  <2> QED
    BY <1>1, <1>4, <2>1
<1>6. /\ row'[j].version = 1 /\ row'[j].state = agg'[j]
      /\ \A i \in Job \ {j} : row'[i] = row[i]
  BY Zenon, <1>1, <1>4, <1>5 DEF Enqueue, Types
<1>7. JobInv(j)'
  <2>1. RowCurrent(j)'
    BY Zenon, <1>5, <1>6 DEF RowCurrent
  <2> QED
    BY <1>1, <1>2, <1>5, <2>1, JobAppend, BudgetAssumption DEF Blank, Settlement
<1>8. ASSUME NEW i \in Job \ {j} PROVE JobInv(i)'
  <2>1. events'[i] = events[i] /\ agg'[i] = agg[i]
    BY Zenon, <1>1, <1>2 DEF AppendEvent, Types
  <2> QED
    BY Zenon, <1>6, <2>1, JobFrame DEF IInv
<1>9. ASSUME NEW v \in Worker, pc'[v] # "idle" PROVE ExecInv(v)'
  <2>1. pc[v] # "idle" /\ ExecInv(v) /\ ctx[v].job \in Job
    BY SMTT(30), <1>1, <1>9, PartTypes DEF Enqueue, slots, IInv
  <2>2. ctx[v].job # j
    BY <1>1, <2>1, ExecParts
  <2>3. events'[ctx[v].job] = events[ctx[v].job] /\ agg'[ctx[v].job] = agg[ctx[v].job]
    BY Zenon, <1>1, <1>2, <2>1, <2>2 DEF AppendEvent, Types
  <2> QED
    BY Zenon, <1>6, <2>1, <2>2, <2>3, ExecFrame DEF Enqueue, slots
<1> QED
  BY Zenon, <1>7, <1>8, <1>9 DEF Rest, IInv, Enqueue, slots, proc, Exclusive

\* A settlement commits only on top of its own claim, and keeps the invariant.
LEMMA AckCommitInv ==
    ASSUME IInv, NEW w \in Worker, AckCommit(w)
    PROVE  Rest'
<1>1. Types /\ up /\ pc[w] = "loaded" /\ ExecInv(w) /\ up'
  BY SMTT(30) DEF IInv, TypeOK, Types, AckCommit, proc
<1>a. PICK j \in Job, q \in Nat, e \in Event :
        ctx[w].job = j /\ ctx[w].seq = q /\ cmd[w] = e
  BY Zenon, <1>1, PartTypes
<1>2. Len(events[j]) \in Nat /\ JobInv(j)
  BY Zenon, <1>1, PartTypes DEF IInv
<1>3. CASE ~CommitExpected(w)
  <2>1. Release(w) /\ Quiet
    BY Zenon, <1>3 DEF AckCommit, Quiet
  <2> QED
    BY Zenon, <1>1, <2>1, ReleaseInv
<1>4. CASE CommitExpected(w)
  <2>1. Len(events[j]) = q /\ q > 0 /\ events[j][q].type = "Claimed"
    <3>1. /\ seen[w].version = q /\ q \in 1 .. Len(events[j])
          /\ events[j][q].type = "Claimed"
      BY Zenon, <1>1, <1>a, ExecParts, ExecPhase
    <3>2. Len(events[j]) = seen[w].version
      BY Zenon, <1>4, <1>a DEF CommitExpected
    <3> QED
      BY <1>2, <3>1, <3>2
  <2>2. agg[j].status = "claimed" /\ agg[j].claim = q /\ agg[j] \in State
    BY Zenon, <1>1, <1>2, <2>1, PartTypes DEF JobInv, ClaimAtEnd
  <2>3. RowCurrent(j)
    BY SMTT(30), <1>2, <2>2 DEF JobInv, RowBehind
  <2>4. CmdInv(w)
    BY Zenon, <1>1, ExecParts DEF Settling
  <2>5. /\ AppendEvent(j, e) /\ row' = row
        /\ pc' = [pc EXCEPT ![w] = "view"] /\ UNCHANGED <<ctx, cmd, seen, lost>>
    BY Zenon, <1>4, <1>a DEF AckCommit
  <2>6. /\ Len(events'[j]) = q + 1 /\ events'[j][q + 1] = e
        /\ \A n \in 1 .. q : events'[j][n] = events[j][n]
        /\ agg'[j] = Apply(agg[j], e)
    BY Zenon, <1>1, <1>2, <2>1, <2>5, PrefixKept
  <2>7. agg'[j].status \in {"pending", "done", "dead"} /\ agg'[j].claims <= agg[j].claims
    BY Zenon, <1>a, <2>2, <2>4, <2>6, FoldSettlement DEF CmdInv
  <2>8. agg'[j].claims <= MaxClaims
    <3>1. agg'[j].claims \in Nat /\ agg[j].claims \in Nat
      <4>1. agg[j] \in State /\ agg'[j] \in State
        BY Zenon, <2>2, <2>6, ApplyType
      <4> QED
        BY Zenon, <4>1 DEF State
    <3> QED
      BY <1>2, <2>7, <3>1, BudgetAssumption DEF JobInv
  <2>9. RowBehind(j)'
    BY SMTT(30), <1>2, <2>1, <2>2, <2>3, <2>5, <2>6, <2>7 DEF RowBehind, RowCurrent
  <2>10. JobInv(j)'
    <3>1. e.type # "Claimed" /\ e.claim = agg[j].claim
      BY Zenon, <1>a, <2>2, <2>4 DEF CmdInv, Settlement
    <3> QED
      BY SMTT(30), <1>1, <1>2, <2>2, <2>5, <2>7, <2>8, <2>9, <3>1, JobAppend
  <2>11. OthersKeep(w) /\ pc'[w] = "view"
    BY Zenon, <1>1, <2>5 DEF OthersKeep, Types
  <2>12. /\ \A i \in Job \ {j} : JobInv(i)'
         /\ \A v \in Worker \ {w} : pc'[v] # "idle" => ExecInv(v)'
         /\ \A v \in Worker \ {w} : pc'[v] = "idle" => ~lost'[v]
    BY SMTT(30), <1>1, <1>a, <2>1, <2>3, <2>5, <2>11, OthersAppend
  <2>13. ExecInv(w)'
    <3>1. ctx'[w] = ctx[w] /\ cmd'[w] = cmd[w] /\ seen'[w] = seen[w] /\ row'[j].version = q
      BY Zenon, <2>1, <2>3, <2>5 DEF RowCurrent
    <3>2. CmdInv(w)'
      BY Zenon, <2>4, <3>1 DEF CmdInv
    <3>3. q \in 1 .. q + 1 /\ q \in 1 .. q /\ q # q + 1
      BY <1>2, <2>1
    <3> QED
      <4>1. /\ q \in 1 .. Len(events'[j]) /\ Len(events'[j]) # q
            /\ events'[j][q].type = "Claimed"
        BY Zenon, <2>1, <2>6, <3>3
      <4> QED
        BY Zenon, <1>a, <2>6, <2>11, <3>1, <3>2, <4>1 DEF ExecInv
  <2>14. ASSUME NEW u \in Worker, NEW v \in Worker, pc'[u] # "idle", pc'[v] # "idle"
         PROVE  Exclusive(u, v)'
    BY <1>1, <2>5, <2>11, <2>14 DEF OthersKeep, IInv, Exclusive
  <2> QED
    BY SMTT(30), <1>1, <2>10, <2>11, <2>12, <2>13, <2>14 DEF Rest
<1> QED
  BY Zenon, <1>3, <1>4

\* The reactor's update finds the row it loaded, and makes it current.
LEMMA ReactUpdateInv ==
    ASSUME IInv, NEW w \in Worker, ReactUpdate(w)
    PROVE  Rest'
<1>1. Types /\ up /\ pc[w] = "viewed" /\ ExecInv(w) /\ up'
  BY Zenon DEF IInv, TypeOK, Types, ReactUpdate, proc
<1>a. PICK j \in Job, q \in Nat : ctx[w].job = j /\ ctx[w].seq = q
  BY Zenon, <1>1, PartTypes
<1>2. JobInv(j)
  BY Zenon DEF IInv
<1>3. /\ Len(events[j]) = q + 1 /\ events[j][q + 1] = cmd[w] /\ row[j].version = q
      /\ seen[w].version = q /\ seen[w].state = row[j].state
  BY <1>1, <1>a, ExecView
<1>4. RowBehind(j)
  BY <1>2, <1>3 DEF JobInv, RowCurrent
<1>5. /\ row' = [row EXCEPT ![j] = Reacted(@, seen[w], cmd[w])]
      /\ Release(w) /\ UNCHANGED <<events, agg>>
  BY Zenon, <1>3, <1>a DEF ReactUpdate
<1>6. row'[j].version = q + 1 /\ row'[j].state = agg[j]
  BY ZenonT(30), <1>1, <1>2, <1>3, <1>4, <1>5 DEF Reacted, RowBehind, Types
<1>7. \A i \in Job \ {j} : row'[i] = row[i]
  BY SMTT(30), <1>1, <1>5 DEF Types
<1>8. JobInv(j)'
  BY SMTT(30), <1>2, <1>3, <1>5, <1>6 DEF JobInv, RowCurrent, ClaimAtEnd, FencedAt
<1>9. \A i \in Job \ {j} : JobInv(i)'
  BY Zenon, <1>5, <1>7, JobFrame DEF IInv
<1>10. OthersKeep(w) /\ pc'[w] = "idle" /\ ~lost'[w]
  BY Zenon, <1>1, <1>5 DEF Release, OthersKeep, Types
<1>11. ASSUME NEW v \in Worker, pc'[v] # "idle" PROVE ExecInv(v)'
  <2>1. v # w /\ pc[v] # "idle" /\ ExecInv(v) /\ ctx[v].job \in Job /\ ctx[v].seq \in Nat
    BY Zenon, <1>1, <1>10, <1>11, PartTypes DEF OthersKeep, IInv
  <2>2. CASE ctx[v].job # j
    BY SMTT(30), <1>5, <1>7, <1>10, <2>1, <2>2, ExecFrame DEF OthersKeep
  <2>3. CASE ctx[v].job = j
    <3>1. ctx[v].seq # q
      BY SMTT(30), <1>1, <1>a, <2>1, <2>3 DEF IInv, Exclusive
    <3>2. pc[v] \notin {"view", "viewed"}
      BY <1>2, <1>3, <2>1, <2>3, <3>1, ExecView
    <3>3. CmdInv(v) => CmdInv(v)'
      BY Zenon, <1>10, <2>1 DEF OthersKeep, CmdInv
    <3> QED
      BY ZenonT(30), <1>5, <1>10, <2>1, <2>3, <3>2, <3>3 DEF OthersKeep, ExecInv
  <2> QED
    BY Zenon, <2>2, <2>3
<1>12. ASSUME NEW u \in Worker, NEW v \in Worker, pc'[u] # "idle", pc'[v] # "idle"
       PROVE  Exclusive(u, v)'
  BY <1>10, <1>12 DEF OthersKeep, IInv, Exclusive
<1>13. \A v \in Worker : pc'[v] = "idle" => ~lost'[v]
  BY Zenon, <1>10 DEF OthersKeep, IInv
<1> QED
  BY Zenon, <1>1, <1>8, <1>9, <1>11, <1>12, <1>13 DEF Rest

\* Deciding the settlement keeps the invariant.
LEMMA PerformInv ==
    ASSUME IInv, NEW w \in Worker, Perform(w)
    PROVE  Rest'
<1>1. Types /\ up /\ up' /\ pc[w] = "run" /\ ExecInv(w) /\ Quiet
  BY Zenon DEF IInv, TypeOK, Types, Perform, proc, db, Quiet
<1>2. CASE lost[w]
  BY Zenon, <1>1, <1>2, ReleaseInv DEF Perform
<1>3. CASE ~lost[w]
  <2>1. PICK plan \in {"Succeeded", "Deferred", "Failed", "Rejected"} :
          /\ pc' = [pc EXCEPT ![w] = "ack"]
          /\ cmd' = [cmd EXCEPT ![w] = AckCommand(ctx[w], plan)]
          /\ UNCHANGED <<ctx, seen, lost>>
    BY Zenon, <1>3 DEF Perform
  <2>2. OthersKeep(w) /\ pc'[w] = "ack" /\ cmd'[w] = AckCommand(ctx[w], plan)
    BY Zenon, <1>1, <2>1 DEF OthersKeep, Types
  <2>3. ctx[w] \in [job : Job, seq : Nat, attempt : Nat]
    BY Zenon, <1>1 DEF Types
  <2>4. CmdInv(w)'
    BY SMTT(30), <2>1, <2>2, <2>3, AckCommandType DEF CmdInv
  <2>5. ExecInv(w)'
    BY ZenonT(30), <1>1, <2>1, <2>2, <2>4 DEF Quiet, ExecInv
  <2> QED
    BY Zenon, <1>1, <2>1, <2>2, <2>5, AdvanceInv
<1> QED
  BY Zenon, <1>2, <1>3

\* Loading the aggregate keeps the invariant: a claim that is held is the last
\* event of the stream.
LEMMA AckLoadInv ==
    ASSUME IInv, NEW w \in Worker, AckLoad(w)
    PROVE  Rest'
<1>1. /\ Types /\ up /\ up' /\ pc[w] \in {"ack", "retry"} /\ ExecInv(w) /\ Quiet
      /\ ctx[w].job \in Job /\ JobInv(ctx[w].job)
  <2>1. Types
    BY Zenon DEF IInv, TypeOK, Types
  <2> QED
    BY Zenon, <2>1, PartTypes DEF IInv, AckLoad, proc, db, Quiet
<1>2. CASE ~HoldsClaim(w)
  BY Zenon, <1>1, <1>2, ReleaseInv DEF AckLoad
<1>3. CASE HoldsClaim(w)
  <2>1. /\ pc' = [pc EXCEPT ![w] = "loaded"]
        /\ seen' = [seen EXCEPT ![w] = [version |-> Len(events[ctx[w].job]),
                                        state |-> agg[ctx[w].job]]]
        /\ UNCHANGED <<ctx, cmd, lost>>
    BY Zenon, <1>3 DEF AckLoad
  <2>2. OthersKeep(w) /\ pc'[w] = "loaded" /\ seen'[w].version = Len(events[ctx[w].job])
    BY SMTT(30), <1>1, <2>1 DEF OthersKeep, Types
  <2>3. Len(events[ctx[w].job]) = ctx[w].seq
    BY SMTT(30), <1>1, <1>3 DEF HoldsClaim, JobInv, ClaimAtEnd
  <2>4. CmdInv(w)'
    <3>1. CmdInv(w)
      BY Zenon, <1>1, ExecParts DEF Settling
    <3> QED
      BY Zenon, <2>1, <3>1, CmdFrame
  <2>5. ExecInv(w)'
    BY ZenonT(30), <1>1, <2>1, <2>2, <2>3, <2>4 DEF Quiet, ExecInv
  <2> QED
    BY SMTT(30), <1>1, <2>1, <2>2, <2>5, AdvanceInv
<1> QED
  BY Zenon, <1>2, <1>3

\* A transient failure keeps the invariant.
LEMMA AckTransientInv ==
    ASSUME IInv, NEW w \in Worker, AckTransient(w)
    PROVE  Rest'
<1>1. Types /\ up /\ up' /\ pc[w] \in {"ack", "loaded"} /\ ExecInv(w) /\ Quiet
  BY Zenon DEF IInv, TypeOK, Types, AckTransient, proc, db, Quiet
<1>2. OthersKeep(w) /\ pc'[w] = "retry" /\ UNCHANGED <<ctx, cmd, lost>>
  BY SMTT(30), <1>1 DEF AckTransient, OthersKeep, Types
<1>3. CmdInv(w)'
  <2>1. CmdInv(w)
    BY Zenon, <1>1, ExecParts DEF Settling
  <2> QED
    BY Zenon, <1>2, <2>1, CmdFrame
<1>4. ExecInv(w)'
  BY ZenonT(30), <1>1, <1>2, <1>3 DEF Quiet, ExecInv
<1> QED
  BY Zenon, <1>1, <1>2, <1>4, AdvanceInv

\* The reactor's load keeps the invariant.
LEMMA ReactLoadInv ==
    ASSUME IInv, NEW w \in Worker, ReactLoad(w)
    PROVE  Rest'
<1>1. Types /\ up /\ up' /\ pc[w] = "view" /\ ExecInv(w) /\ Quiet
  BY Zenon DEF IInv, TypeOK, Types, ReactLoad, proc, db, Quiet
<1>2. /\ OthersKeep(w) /\ pc'[w] = "viewed" /\ UNCHANGED <<row, ctx, cmd, lost>>
      /\ seen'[w].version = row[ctx[w].job].version
      /\ seen'[w].state = row[ctx[w].job].state
  BY SMTT(30), <1>1 DEF ReactLoad, OthersKeep, Types, db
<1>3. CmdInv(w)'
  <2>1. CmdInv(w)
    BY Zenon, <1>1, ExecParts DEF Settling
  <2> QED
    BY Zenon, <1>2, <2>1, CmdFrame
<1>4. ExecInv(w)'
  BY ZenonT(30), <1>1, <1>2, <1>3 DEF Quiet, ExecInv
<1> QED
  BY SMTT(30), <1>1, <1>2, <1>4, AdvanceInv

\* A renewal keeps the invariant: it reports a loss only when the row has moved
\* past the claim, and then so has the stream.
LEMMA RenewInv ==
    ASSUME IInv, NEW w \in Worker, Renew(w)
    PROVE  Rest'
<1>1. /\ Types /\ up /\ up' /\ pc[w] # "idle" /\ ExecInv(w)
      /\ ctx[w].job \in Job /\ JobInv(ctx[w].job)
      /\ UNCHANGED <<events, agg, pc, ctx, cmd, seen>>
  <2>1. Types
    BY Zenon DEF IInv, TypeOK, Types
  <2> QED
    BY Zenon, <2>1, PartTypes DEF IInv, Renew, proc
<1>2. CASE RowHeld(ctx[w].job, ctx[w].seq)
  <2>1. row' = [row EXCEPT ![ctx[w].job].lease = "live"] /\ UNCHANGED lost
    BY SMTT(30), <1>2 DEF Renew
  <2>2. Quiet /\ UNCHANGED slots
    BY Zenon, <1>1, <2>1, LeaseWrite DEF Quiet, slots
  <2> QED
    BY Zenon, <1>1, <2>2, IdleInv
<1>3. CASE ~RowHeld(ctx[w].job, ctx[w].seq)
  <2>1. lost' = [lost EXCEPT ![w] = TRUE] /\ UNCHANGED row
    BY Zenon, <1>3 DEF Renew
  <2>2. Quiet /\ OthersKeep(w)
    BY SMTT(30), <1>1, <2>1 DEF Quiet, OthersKeep, Types
  <2>3. pc[w] = "run" => Len(events[ctx[w].job]) > ctx[w].seq
    <3>1. /\ Len(events[ctx[w].job]) \in Nat /\ ctx[w].seq \in Nat
          /\ row[ctx[w].job].version \in Nat
      BY Zenon, <1>1, PartTypes
    <3>2. ASSUME Len(events[ctx[w].job]) = ctx[w].seq PROVE FALSE
      <4>1. agg[ctx[w].job].status = "claimed"
        <5>1. /\ events[ctx[w].job][ctx[w].seq].type = "Claimed"
              /\ ctx[w].seq \in 1 .. Len(events[ctx[w].job])
          BY Zenon, <1>1, ExecParts
        <5>2. Len(events[ctx[w].job]) > 0
          BY <3>1, <5>1
        <5> QED
          BY SMTT(30), <1>1, <3>2, <5>1, <5>2 DEF JobInv, ClaimAtEnd
      <4>2. RowCurrent(ctx[w].job)
        BY Zenon, <1>1, <4>1 DEF JobInv, RowBehind
      <4> QED
        BY SMTT(30), <1>3, <3>2, <4>1, <4>2 DEF RowCurrent, RowHeld
    <3> QED
      BY <1>1, <3>1, <3>2, ExecParts
  <2>4. CmdInv(w) => CmdInv(w)'
    BY Zenon, <1>1 DEF CmdInv
  <2>5. ExecInv(w)'
    BY ZenonT(30), <1>1, <2>1, <2>3, <2>4 DEF ExecInv
  <2> QED
    BY Zenon, <1>1, <2>2, <2>5, AdvanceInv
<1> QED
  BY Zenon, <1>2, <1>3

\* Startup reconciliation makes every row current.
LEMMA RestartInv ==
    ASSUME IInv, Restart
    PROVE  Rest'
<1>1. /\ Types /\ \A w \in Worker : pc[w] = "idle" /\ ~lost[w]
      /\ UNCHANGED <<events, agg, slots>> /\ up'
  BY Zenon DEF IInv, TypeOK, Types, Restart
<1>2. ASSUME NEW j \in Job
      PROVE  row'[j].version = Len(events[j]) /\ row'[j].state = agg[j]
  <2>1. PICK changed \in BOOLEAN :
          row' = [i \in Job |-> IF changed THEN Rebuilt(i) ELSE CaughtUp(i)]
    BY Zenon DEF Restart
  <2>2. JobInv(j)
    BY Zenon DEF IInv
  <2>3. CASE ~changed
    BY Zenon, <1>1, <2>1, <2>2, <2>3, CatchUpHeals DEF JobInv
  <2>4. CASE changed /\ events[j] # << >>
    BY Zenon, <2>1, <2>4 DEF Rebuilt
  <2>5. CASE changed /\ events[j] = << >>
    <3>1. row[j].version = 0 /\ row[j].state = agg[j] /\ Len(events[j]) = 0
      BY <1>1, <2>2, <2>5 DEF JobInv, RowCurrent, RowBehind
    <3>2. agg[j] = NoState
      BY SMTT(30), <2>2, <2>5, <3>1 DEF JobInv, ClaimAtEnd
    <3> QED
      BY Zenon, <2>1, <2>5, <3>1, <3>2 DEF Rebuilt, NoRow
  <2> QED
    BY Zenon, <2>1, <2>3, <2>4, <2>5
<1>3. \A j \in Job : JobInv(j)'
  BY <1>1, <1>2 DEF IInv, JobInv, RowCurrent, ClaimAtEnd, FencedAt
<1> QED
  BY Zenon, <1>1, <1>3 DEF Rest, slots

\* A crash frees every slot and touches no stream and no row.
LEMMA CrashInv ==
    ASSUME IInv, Crash
    PROVE  Rest'
<1>1. Quiet /\ \A w \in Worker : pc'[w] = "idle" /\ ~lost'[w]
  BY Zenon DEF Crash, Quiet, db
<1>2. \A j \in Job : JobInv(j)'
  BY Zenon, <1>1, JobFrame DEF IInv, Quiet
<1> QED
  BY Zenon, <1>1, <1>2 DEF Rest

\* The initial state satisfies the invariant.
LEMMA InitInv == Init => IInv
<1> SUFFICES ASSUME Init PROVE IInv
  BY Zenon
<1>1. TypeOK
  BY SMTT(30), NullTypes, BudgetAssumption, BoundAssumption
     DEF Init, TypeOK, Phase, NoState
<1>2. ASSUME NEW j \in Job PROVE JobInv(j)
  <2>1. Len(events[j]) = 0 /\ agg[j] = NoState /\ row[j] = NoRow
    BY Zenon DEF Init
  <2> QED
    BY <2>1, BudgetAssumption
       DEF JobInv, ClaimAtEnd, RowCurrent, NoState, NoRow
<1> QED
  BY Zenon, <1>1, <1>2 DEF Init, IInv

\* Every step of the queue, stuttering included, preserves the invariant.
LEMMA InvStep == IInv /\ [Next]_vars => IInv'
<1>1. ASSUME IInv, UNCHANGED vars PROVE IInv'
  <2>1. TypeOK'
    BY Zenon, <1>1 DEF vars, IInv, TypeOK
  <2>2. Quiet /\ UNCHANGED slots /\ up' = up
    BY Zenon, <1>1 DEF vars, Quiet, slots
  <2> QED
    BY Zenon, <1>1, <2>1, <2>2, IdleInv DEF Rest, IInv
<1>2. ASSUME IInv, Next PROVE IInv'
  <2>1. Types /\ \A j \in Job : RowCurrent(j) \/ RowBehind(j)
    BY Zenon, <1>2 DEF IInv, TypeOK, Types, JobInv
  <2>2. Types'
    BY Zenon, <1>2, <2>1, TypesStep
  <2>3. Rest'
    <3>1. ASSUME NEW j \in Job, Enqueue(j) PROVE Rest'
      BY Zenon, <1>2, <3>1, EnqueueInv
    <3>2. ASSUME NEW j \in Job, BecomesDue(j) PROVE Rest'
      BY Zenon, <1>2, <3>2, IdleInv DEF BecomesDue, Quiet, db, proc
    <3>3. ASSUME NEW j \in Job, LeaseExpires(j) PROVE Rest'
      <4>1. Quiet
        BY Zenon, <2>1, <3>3, LeaseWrite DEF LeaseExpires, Quiet
      <4> QED
        BY Zenon, <1>2, <3>3, <4>1, IdleInv DEF LeaseExpires, proc
    <3>4. ASSUME NEW w \in Worker, NEW j \in Job, Claim(w, j) PROVE Rest'
      BY Zenon, <1>2, <3>4, ClaimInv
    <3>5. ASSUME NEW w \in Worker, NEW j \in Job, Abandon(w, j) PROVE Rest'
      BY Zenon, <1>2, <3>5, AbandonInv
    <3>6. ASSUME NEW w \in Worker, Settle(w) PROVE Rest'
      <4>1. CASE ReactLost(w)
        BY Zenon, <1>2, <4>1, ReleaseInv DEF ReactLost, Quiet, db, proc
      <4> QED
        BY SMTT(30), <1>2, <3>6, <4>1, PerformInv, AckLoadInv, AckCommitInv, AckTransientInv,
           ReactLoadInv, ReactUpdateInv DEF Settle
    <3>7. ASSUME NEW w \in Worker, Renew(w) PROVE Rest'
      BY Zenon, <1>2, <3>7, RenewInv
    <3>8. ASSUME NEW w \in Worker, Panic(w) PROVE Rest'
      BY Zenon, <1>2, <3>8, ReleaseInv DEF Panic, Quiet, db
    <3>9. ASSUME NEW o \in orphans, OrphanRenew(o) PROVE Rest'
      <4>1. Quiet
        <5>1. CASE RowHeld(o.job, o.seq)
          <6>1. o.job \in Job
            BY Zenon, <2>1 DEF Types
          <6> QED
            BY Zenon, <2>1, <3>9, <5>1, <6>1, LeaseWrite DEF OrphanRenew, Quiet
        <5>2. CASE ~RowHeld(o.job, o.seq)
          BY Zenon, <3>9, <5>2 DEF OrphanRenew, Quiet
        <5> QED
          BY Zenon, <5>1, <5>2
      <4> QED
        BY Zenon, <1>2, <3>9, <4>1, IdleInv DEF OrphanRenew
    <3> QED
      BY SMTT(30), <1>2, <3>1, <3>2, <3>3, <3>4, <3>5, <3>6, <3>7, <3>8, <3>9,
         CrashInv, RestartInv DEF Next
  <2> QED
    BY Zenon, <2>2, <2>3 DEF Types, Rest, IInv, TypeOK, JobInv
<1> QED
  BY Zenon, <1>1, <1>2

-----------------------------------------------------------------------------
(* The theorems.                                                           *)

\* The inductive invariant holds throughout.
THEOREM Invariant == Spec => []IInv
<1> QED
  BY InitInv, InvStep, PTL DEF Spec

\* Types are kept and the claim budget is never overdrawn, whatever the number
\* of jobs and workers.
THEOREM TypeCorrect == Spec => []TypeOK
<1>1. IInv => TypeOK
  BY Zenon DEF IInv
<1> QED
  BY <1>1, Invariant, PTL

\* JobState::evolve never fails on a stream the queue has written.
THEOREM StreamsFold == Spec => []StreamFolds
<1>1. IInv => StreamFolds
  BY Zenon DEF IInv, JobInv, StreamFolds
<1> QED
  BY <1>1, Invariant, PTL

\* The fence of JobState::transition together with the events primary key: every
\* recorded outcome directly follows the claim that decided it.
THEOREM Fenced == Spec => []SettlementFenced
<1>1. ASSUME IInv PROVE SettlementFenced
  <2> SUFFICES ASSUME NEW j \in Job, NEW n \in DOMAIN events[j] PROVE FencedAt(j, n)
    BY Zenon DEF SettlementFenced, FencedAt
  <2>1. DOMAIN events[j] = 1 .. Len(events[j])
    BY Zenon, <1>1, LenProperties DEF IInv, TypeOK
  <2> QED
    BY Zenon, <1>1, <2>1 DEF IInv, JobInv
<1> QED
  BY <1>1, Invariant, PTL

\* The job_queue row lags by at most one event, and catch_up always heals it.
THEOREM RowFollows == Spec => []RowFollowsStream
<1>1. ASSUME IInv PROVE RowFollowsStream
  <2> SUFFICES ASSUME NEW j \in Job
               PROVE  /\ row[j].version \in {Len(events[j]) - 1, Len(events[j])}
                      /\ Replay(row[j].state, events[j], row[j].version) = agg[j]
    BY Zenon DEF RowFollowsStream
  <2>1. Types /\ (RowCurrent(j) \/ RowBehind(j))
    BY Zenon, <1>1 DEF IInv, TypeOK, Types, JobInv
  <2>2. row[j].version \in Nat /\ Len(events[j]) \in Nat
    BY Zenon, <2>1, PartTypes
  <2>3. CASE RowCurrent(j)
    BY Zenon, <2>2, <2>3, ReplayNone DEF RowCurrent
  <2>4. CASE RowBehind(j)
    BY SMTT(30), <2>2, <2>4, ReplayOne DEF RowBehind
  <2> QED
    BY Zenon, <2>1, <2>3, <2>4
<1> QED
  BY <1>1, Invariant, PTL

\* An execution that skips its settlement because renewal reported a lost lease
\* has been superseded in the stream.
THEOREM SkippedAck == Spec => []SkippedAckIsOwned
<1>1. ASSUME IInv PROVE SkippedAckIsOwned
  <2> SUFFICES ASSUME NEW w \in Worker, pc[w] = "run", lost[w]
               PROVE  /\ Len(events[ctx[w].job]) > ctx[w].seq
                      /\ events[ctx[w].job][ctx[w].seq + 1].type \in {"Claimed", "Dead"}
    BY Zenon DEF SkippedAckIsOwned
  <2>1. Types /\ ExecInv(w)
    BY SMTT(30), <1>1 DEF IInv, TypeOK, Types
  <2>2. Len(events[ctx[w].job]) \in Nat /\ ctx[w].seq \in Nat
    BY Zenon, <2>1, PartTypes
  <2> QED
    BY <2>1, <2>2, ExecPhase
<1> QED
  BY <1>1, Invariant, PTL

-----------------------------------------------------------------------------
(* What a step may append, and the refinement.                             *)

\* e is an event the current state of j allows.
Allowed(j, e) ==
    \/ e = Enqueued /\ agg[j].status = "none"
    \/ /\ e.type = "Claimed" /\ e.reason = "none"
       /\ agg[j].status \in {"pending", "claimed"} /\ agg[j].claims < MaxClaims
    \/ /\ e.type = "Dead" /\ e.reason = "Abandoned"
       /\ agg[j].status \in {"pending", "claimed"} /\ ~(agg[j].claims < MaxClaims)
    \/ /\ e.type \in Settlement
       /\ agg[j].status = "claimed"
       /\ e.type = "RetryScheduled" =>
            e.attempt = agg[j].attempt + 1 /\ e.attempt < MaxAttempts
       /\ e.reason = "RetriesExhausted" =>
            e.type = "Dead" /\ agg[j].attempt + 1 >= MaxAttempts

\* A step appends one allowed event to one stream, or none to any.
LEMMA StepAppends ==
    ASSUME IInv, Next
    PROVE  \/ UNCHANGED <<events, agg>>
           \/ \E j \in Job, e \in Event : AppendEvent(j, e) /\ Allowed(j, e)
<1>1. Types /\ \A j \in Job : JobInv(j)
  BY Zenon DEF IInv, TypeOK, Types
<1>2. ASSUME NEW j \in Job, Enqueue(j)
      PROVE  \E e \in Event : AppendEvent(j, e) /\ Allowed(j, e)
  <2>1. agg[j].status = "none" /\ AppendEvent(j, Enqueued)
    BY Zenon, <1>1, <1>2 DEF Enqueue, JobInv, ClaimAtEnd
  <2> QED
    BY Zenon, <2>1, NullTypes DEF Allowed
<1>3. ASSUME NEW w \in Worker, NEW j \in Job, Claim(w, j)
      PROVE  \E e \in Event : AppendEvent(j, e) /\ Allowed(j, e)
  <2> DEFINE e == Ev("Claimed", ClaimSeq(j), 0, "none")
  <2>1. row[j].state = agg[j] /\ ClaimSeq(j) \in Nat
    BY <1>1, <1>3, CasMeansCurrent, PartTypes DEF Claim, RowCurrent, ClaimSeq
  <2>2. e \in Event /\ e.type = "Claimed" /\ e.reason = "none"
    BY Zenon, <2>1 DEF Ev, Event, EventType, Reason
  <2>3. AppendEvent(j, e)
    BY Zenon, <1>3 DEF Claim
  <2>4. agg[j].status \in {"pending", "claimed"} /\ agg[j].claims < MaxClaims
    BY Zenon, <1>3, <2>1 DEF Claim, Runnable, BudgetLeft
  <2> HIDE DEF e
  <2> QED
    BY SMTT(30), <2>2, <2>3, <2>4 DEF Allowed
<1>4. ASSUME NEW w \in Worker, NEW j \in Job, Abandon(w, j)
      PROVE  \E e \in Event : AppendEvent(j, e) /\ Allowed(j, e)
  <2> DEFINE e == Ev("Dead", 0, 0, "Abandoned")
  <2>1. row[j].state = agg[j]
    BY Zenon, <1>1, <1>4, CasMeansCurrent DEF Abandon, RowCurrent
  <2>2. e \in Event /\ e.type = "Dead" /\ e.reason = "Abandoned"
    BY Zenon DEF Ev, Event, EventType, Settlement, Reason
  <2>3. AppendEvent(j, e)
    BY Zenon, <1>4 DEF Abandon
  <2>4. agg[j].status \in {"pending", "claimed"} /\ ~(agg[j].claims < MaxClaims)
    BY Zenon, <1>4, <2>1 DEF Abandon, Runnable, BudgetLeft
  <2> HIDE DEF e
  <2> QED
    BY Zenon, <2>2, <2>3, <2>4 DEF Allowed
<1>5. ASSUME NEW w \in Worker, AckCommit(w)
      PROVE  \/ UNCHANGED <<events, agg>>
             \/ \E j \in Job, e \in Event : AppendEvent(j, e) /\ Allowed(j, e)
  <2>1. CASE ~CommitExpected(w)
    BY Zenon, <1>5, <2>1 DEF AckCommit
  <2>2. CASE CommitExpected(w)
    <3>1. ExecInv(w) /\ CmdInv(w) /\ pc[w] = "loaded" /\ ctx[w].job \in Job /\ cmd[w] \in Event
      <4>1. ExecInv(w) /\ pc[w] = "loaded"
        BY Zenon, <1>1, <1>5 DEF AckCommit, IInv
      <4> QED
        BY Zenon, <1>1, <4>1, PartTypes, ExecParts DEF Settling
    <3>2. Len(events[ctx[w].job]) = ctx[w].seq /\ Len(events[ctx[w].job]) > 0
      <4>1. /\ seen[w].version = ctx[w].seq
            /\ ctx[w].seq \in 1 .. Len(events[ctx[w].job])
        BY Zenon, <3>1, ExecParts, ExecPhase
      <4>2. Len(events[ctx[w].job]) = seen[w].version
        BY Zenon, <2>2 DEF CommitExpected
      <4> QED
        BY <1>1, <3>1, <4>1, <4>2, PartTypes
    <3>3. agg[ctx[w].job].status = "claimed" /\ agg[ctx[w].job].attempt = ctx[w].attempt
      <4>1. /\ events[ctx[w].job][ctx[w].seq].type = "Claimed"
            /\ agg[ctx[w].job].attempt = ctx[w].attempt
        BY Zenon, <3>1, <3>2, ExecParts
      <4> QED
        BY Zenon, <1>1, <3>1, <3>2, <4>1 DEF JobInv, ClaimAtEnd
    <3>4. Allowed(ctx[w].job, cmd[w])
      BY Zenon, <3>1, <3>3 DEF CmdInv, Allowed
    <3>5. AppendEvent(ctx[w].job, cmd[w])
      BY SMTT(30), <1>5, <2>2 DEF AckCommit
    <3> QED
      BY SMTT(30), <3>1, <3>4, <3>5
  <2> QED
    BY Zenon, <2>1, <2>2
<1>6. ASSUME NEW w \in Worker, Settle(w)
      PROVE  \/ UNCHANGED <<events, agg>>
             \/ \E j \in Job, e \in Event : AppendEvent(j, e) /\ Allowed(j, e)
  BY Zenon, <1>5, <1>6 DEF Settle, Perform, AckLoad, AckTransient, ReactLoad, ReactUpdate,
                    ReactLost, db
<1> QED
  BY ZenonT(30), <1>2, <1>3, <1>4, <1>6 DEF Next, BecomesDue, LeaseExpires, Renew, Panic, OrphanRenew,
                                Crash, Restart, db

\* An allowed event changes the ledger by one abstract transition.
LEMMA AllowedIsAbstract ==
    ASSUME Types, NEW j \in Job, NEW e \in Event, AppendEvent(j, e), Allowed(j, e)
    PROVE  Abstract!Next
<1>1. agg[j] \in State /\ agg'[j] = Apply(agg[j], e) /\ \A i \in Job \ {j} : agg'[i] = agg[i]
  BY Zenon DEF AppendEvent, Types
<1>2. /\ agg[j].attempt \in Nat /\ agg[j].claims \in Nat
  BY Zenon, <1>1 DEF State
<1>3. ASSUME NEW t, NEW a, NEW c,
             agg'[j].status = t, agg'[j].attempt = a, agg'[j].claims = c
      PROVE  Abstract!Become(j, Abstract!Entry(t, a, c))
  BY ZenonT(30), <1>1, <1>3 DEF Ledger, Abstract!Become, Abstract!Entry
<1>4. /\ Ledger[j].status = agg[j].status /\ Ledger[j].attempt = agg[j].attempt
      /\ Ledger[j].claims = agg[j].claims
  BY Zenon DEF Ledger
<1>5. CASE e = Enqueued /\ agg[j].status = "none"
  <2>1. agg'[j] = Blank("pending")
    BY Zenon, <1>1, <1>5 DEF Apply, Originate, Enqueued, Ev
  <2>2. Abstract!Become(j, Abstract!Entry("pending", 0, 0))
    BY <1>3, <2>1 DEF Blank
  <2>3. Abstract!Enqueue(j)
    BY Zenon, <1>4, <1>5, <2>2 DEF Abstract!Enqueue
  <2> QED
    BY Zenon, <2>3 DEF Abstract!Next
<1>6. CASE /\ e.type = "Claimed" /\ e.reason = "none"
           /\ agg[j].status \in {"pending", "claimed"} /\ agg[j].claims < MaxClaims
  <2>1. agg'[j] = Claimed(agg[j], e)
    BY Zenon, <1>1, <1>6, FoldClaimed
  <2>2. Abstract!Become(j, Abstract!Entry("claimed", agg[j].attempt, agg[j].claims + 1))
    BY <1>3, <2>1 DEF Claimed
  <2>3. Abstract!Claim(j)
    BY Zenon, <1>4, <1>6, <2>2 DEF Abstract!Claim, Abstract!Live
  <2> QED
    BY Zenon, <2>3 DEF Abstract!Next
<1>7. CASE /\ e.type = "Dead" /\ e.reason = "Abandoned"
           /\ agg[j].status \in {"pending", "claimed"} /\ ~(agg[j].claims < MaxClaims)
  <2>1. agg'[j] = Blank("dead")
    BY Zenon, <1>1, <1>7, FoldDead
  <2>2. Abstract!Become(j, Abstract!Entry("dead", 0, 0))
    BY <1>3, <2>1 DEF Blank
  <2>3. agg[j].claims >= MaxClaims
    BY <1>2, <1>7, BudgetAssumption
  <2>4. Abstract!Abandon(j)
    BY Zenon, <1>4, <1>7, <2>2, <2>3 DEF Abstract!Abandon, Abstract!Live
  <2> QED
    BY Zenon, <2>4 DEF Abstract!Next
<1>8. CASE /\ e.type \in Settlement
           /\ agg[j].status = "claimed"
           /\ e.type = "RetryScheduled" =>
                e.attempt = agg[j].attempt + 1 /\ e.attempt < MaxAttempts
           /\ e.reason = "RetriesExhausted" =>
                e.type = "Dead" /\ agg[j].attempt + 1 >= MaxAttempts
  <2>1. agg'[j] = Evolve(agg[j], e)
    BY Zenon, <1>1, <1>8 DEF Apply
  <2>2. CASE e.type = "RetryScheduled"
    <3>1. agg'[j] = Retried(agg[j], e)
      BY Zenon, <1>8, <2>1, <2>2 DEF Evolve
    <3>2. Abstract!Become(j, Abstract!Entry("pending", agg[j].attempt + 1, agg[j].claims))
      BY <1>3, <1>8, <2>2, <3>1 DEF Retried
    <3>3. Abstract!Retry(j)
      BY Zenon, <1>4, <1>8, <2>2, <3>2 DEF Abstract!Retry
    <3> QED
      BY Zenon, <3>3 DEF Abstract!Next
  <2>3. CASE e.type = "Rescheduled"
    <3>1. agg'[j] = Deferred(agg[j])
      BY Zenon, <1>8, <2>1, <2>3 DEF Evolve
    <3>2. Abstract!Become(j, Abstract!Entry("pending", agg[j].attempt, 0))
      BY <1>3, <3>1 DEF Deferred
    <3>3. Abstract!Defer(j)
      BY Zenon, <1>4, <1>8, <3>2 DEF Abstract!Defer
    <3> QED
      BY Zenon, <3>3 DEF Abstract!Next
  <2>4. CASE e.type \in {"Succeeded", "Dead"}
    <3>1. PICK status \in {"done", "dead"} : agg'[j] = Blank(status)
      BY Zenon, <1>8, <2>1, <2>4 DEF Evolve
    <3>2. Abstract!Become(j, Abstract!Entry(status, 0, 0))
      BY <1>3, <3>1 DEF Blank
    <3>3. Abstract!Finish(j)
      BY Zenon, <1>4, <1>8, <3>2 DEF Abstract!Finish
    <3> QED
      BY Zenon, <3>3 DEF Abstract!Next
  <2> QED
    BY Zenon, <1>8, <2>2, <2>3, <2>4 DEF Settlement
<1> QED
  BY Zenon, <1>5, <1>6, <1>7, <1>8 DEF Allowed

\* The queue implements JobLifecycle: with rows, leases, stale workers, lost
\* view updates, crashes and rebuilds, every step is one abstract transition of
\* one job or invisible.
THEOREM Refinement == Spec => RefinesLifecycle
<1>1. Init => Abstract!Init
  BY DEF Init, Abstract!Init, Abstract!Entry, Ledger, NoState
<1>2. IInv /\ [Next]_vars => [Abstract!Next]_Ledger
  <2>1. ASSUME UNCHANGED vars PROVE UNCHANGED Ledger
    BY Zenon, <2>1 DEF vars, Ledger
  <2>2. ASSUME IInv, Next PROVE Abstract!Next \/ UNCHANGED Ledger
    <3>1. Types
      BY Zenon, <2>2 DEF IInv, TypeOK, Types
    <3>2. UNCHANGED agg => UNCHANGED Ledger
      BY SMTT(30) DEF Ledger
    <3> QED
      BY Zenon, <2>2, <3>1, <3>2, StepAppends, AllowedIsAbstract
  <2> QED
    BY Zenon, <2>1, <2>2
<1> QED
  BY <1>1, <1>2, Invariant, PTL DEF Spec, RefinesLifecycle, Abstract!Spec

\* No step takes a row back to an earlier version.
LEMMA RowAdvances ==
    ASSUME IInv, Next, NEW j \in Job
    PROVE  row'[j].version >= row[j].version
<1>1. Types /\ JobInv(j) /\ row[j].version \in Nat /\ Len(events[j]) \in Nat
  BY SMTT(30), PartTypes DEF IInv, TypeOK, Types
<1>2. row[j].version <= Len(events[j])
  BY <1>1 DEF JobInv, RowCurrent, RowBehind
<1>3. ASSUME NEW i \in Job, Enqueue(i) PROVE row'[j].version >= row[j].version
  <2>1. i = j => row[j].version = 0
    BY <1>1, <1>2, <1>3 DEF Enqueue
  <2> QED
    BY <1>1, <1>3, <2>1 DEF Enqueue, Types
<1>4. ASSUME NEW w \in Worker, NEW i \in Job, Claim(w, i) \/ Abandon(w, i)
      PROVE  row'[j].version >= row[j].version
  <2>1. PICK s, lease : row' = [row EXCEPT ![i] = [version |-> ClaimSeq(i),
                                                   state |-> s, lease |-> lease]]
    <3>1. CASE Claim(w, i)
      BY <3>1, Zenon DEF Claim
    <3>2. CASE Abandon(w, i)
      BY <3>2, Zenon DEF Abandon
    <3> QED
      BY Zenon, <1>4, <3>1, <3>2
  <2>2. row'[j].version = IF i = j THEN ClaimSeq(i) ELSE row[j].version
    BY Zenon, <1>1, <2>1 DEF Types
  <2> QED
    BY <1>1, <2>2 DEF ClaimSeq
<1>5. ASSUME NEW w \in Worker, ReactUpdate(w) PROVE row'[j].version >= row[j].version
  <2>1. CASE row[ctx[w].job].version = seen[w].version
    <3> DEFINE r == Reacted(row[ctx[w].job], seen[w], cmd[w])
    <3>1. row' = [row EXCEPT ![ctx[w].job] = r] /\ r.version = seen[w].version + 1
      BY Zenon, <1>5, <2>1 DEF ReactUpdate, Reacted
    <3>2. row'[j] = IF ctx[w].job = j THEN r ELSE row[j]
      BY SMTT(30), <1>1, <3>1 DEF Types
    <3> HIDE DEF r
    <3> QED
      BY <1>1, <2>1, <3>1, <3>2
  <2>2. CASE row[ctx[w].job].version # seen[w].version
    BY <1>1, <1>5, <2>2 DEF ReactUpdate
  <2> QED
    BY Zenon, <2>1, <2>2
<1>6. ASSUME NEW w \in Worker, Renew(w) PROVE row'[j].version >= row[j].version
  <2>1. CASE RowHeld(ctx[w].job, ctx[w].seq)
    BY <1>1, <1>6, <2>1, PartTypes, LeaseWrite DEF Renew
  <2> QED
    BY SMTT(30), <1>1, <1>6, <2>1 DEF Renew
<1>7. ASSUME NEW o \in orphans, OrphanRenew(o) PROVE row'[j].version >= row[j].version
  <2>1. CASE RowHeld(o.job, o.seq)
    <3>1. o.job \in Job
      BY Zenon, <1>1 DEF Types
    <3> QED
      BY <1>1, <1>7, <2>1, <3>1, LeaseWrite DEF OrphanRenew
  <2> QED
    BY <1>1, <1>7, <2>1 DEF OrphanRenew
<1>8. ASSUME NEW i \in Job, LeaseExpires(i) PROVE row'[j].version >= row[j].version
  BY <1>1, <1>8, LeaseWrite DEF LeaseExpires
<1>9. ASSUME Restart PROVE row'[j].version >= row[j].version
  <2>1. PICK changed \in BOOLEAN :
          row' = [i \in Job |-> IF changed THEN Rebuilt(i) ELSE CaughtUp(i)]
    BY Zenon, <1>9 DEF Restart
  <2>2. CaughtUp(j).version = Len(events[j])
    BY Zenon, <1>1, CatchUpHeals DEF JobInv
  <2>3. Rebuilt(j).version = Len(events[j])
    BY Zenon, <1>1 DEF Rebuilt, NoRow
  <2> QED
    BY Zenon, <1>1, <1>2, <2>1, <2>2, <2>3
<1>10. UNCHANGED row => row'[j].version >= row[j].version
  BY <1>1
<1> QED
  BY ZenonT(30), <1>3, <1>4, <1>5, <1>6, <1>7, <1>8, <1>9, <1>10
     DEF Next, Settle, BecomesDue, Perform, AckLoad, AckCommit, AckTransient, ReactLoad,
         ReactLost, Panic, Crash, db

\* A terminal job is final, in the stream and in the row.
THEOREM Final == Spec => NoResurrection
<1> DEFINE Kept == \A j \in Job :
         /\ agg[j].status \in {"done", "dead"} => events'[j] = events[j]
         /\ row[j].state.status \in {"done", "dead"} => row'[j].state = row[j].state
<1>1. ASSUME IInv, Next, NEW j \in Job, agg[j].status \in {"done", "dead"}
      PROVE  events'[j] = events[j] /\ agg'[j] = agg[j]
  <2>1. Types
    BY Zenon, <1>1 DEF IInv, TypeOK, Types
  <2>2. ASSUME NEW i \in Job, NEW e \in Event, Allowed(i, e) PROVE i # j
    BY Zenon, <1>1, <2>2 DEF Allowed
  <2> QED
    BY Zenon, <1>1, <2>1, <2>2, StepAppends DEF AppendEvent, Types
<1>2. ASSUME IInv, Next, NEW j \in Job, row[j].state.status \in {"done", "dead"}
      PROVE  row'[j].state = row[j].state
  <2>1. JobInv(j) /\ IInv'
    BY Zenon, <1>2, InvStep DEF IInv
  <2>2. RowCurrent(j)
    BY Zenon, <1>2, <2>1 DEF JobInv, RowBehind
  <2>3. events'[j] = events[j] /\ agg'[j] = agg[j]
    BY Zenon, <1>1, <1>2, <2>2 DEF RowCurrent
  <2>4. RowCurrent(j)' \/ RowBehind(j)'
    BY SMTT(30), <2>1 DEF IInv, JobInv
  <2>5. Len(events[j]) \in Nat /\ row'[j].version >= row[j].version
    BY SMTT(30), <1>2, PartTypes, RowAdvances DEF IInv, TypeOK, Types
  <2> QED
    BY SMTT(30), <2>2, <2>3, <2>4, <2>5 DEF RowCurrent, RowBehind
<1>3. IInv /\ [Next]_vars => [Kept]_vars
  BY Zenon, <1>1, <1>2
<1> QED
  BY <1>3, Invariant, PTL DEF Spec, NoResurrection


-----------------------------------------------------------------------------
(* The retry budget.                                                       *)

\* The failures a stream records, and how many there may be.
Failures(s) == {n \in DOMAIN s : s[n].type = "RetryScheduled" \/ s[n].reason = "RetriesExhausted"}
Budget == IF MaxAttempts = 0 THEN 1 ELSE MaxAttempts

\* What a stream s and its fold a tell of failures: while the job lives its
\* attempt counts them and leaves room for one more.
Tally(s, a) ==
    /\ IsFiniteSet(Failures(s)) /\ Cardinality(Failures(s)) <= Budget
    /\ a.status \in {"none", "pending", "claimed"} =>
         /\ Cardinality(Failures(s)) = a.attempt /\ a.attempt < Budget
         /\ \A n \in Failures(s) : s[n].type # "Dead"
    /\ a.status = "none" => a.attempt = 0
    /\ (\E n \in Failures(s) : s[n].type = "Dead") => Cardinality(Failures(s)) = Budget

Tallied == \A j \in Job : Tally(events[j], agg[j])

\* Appending an event adds at most its own position to the failures.
LEMMA FailuresAppend ==
    ASSUME NEW s \in Seq(Event), NEW e \in Event
    PROVE  /\ \A n \in Failures(s) : Append(s, e)[n] = s[n]
           /\ Len(s) + 1 \notin Failures(s)
           /\ e.type = "RetryScheduled" \/ e.reason = "RetriesExhausted"
                => Failures(Append(s, e)) = Failures(s) \cup {Len(s) + 1}
           /\ e.type # "RetryScheduled" /\ e.reason # "RetriesExhausted"
                => Failures(Append(s, e)) = Failures(s)
<1>1. PICK t : t = Append(s, e)
  BY Zenon
<1>2. t \in Seq(Event) /\ Len(t) = Len(s) + 1 /\ t[Len(s) + 1] = e /\ Len(s) \in Nat
  BY Zenon, <1>1, AppendFacts
<1>3. \A n \in 1 .. Len(s) : t[n] = s[n]
  BY Zenon, <1>1, AppendFacts
<1>4. DOMAIN s = 1 .. Len(s) /\ DOMAIN t = 1 .. Len(s) + 1
  BY <1>2, LenProperties
<1>5. DOMAIN t = DOMAIN s \cup {Len(s) + 1} /\ Len(s) + 1 \notin DOMAIN s
  BY <1>2, <1>4
<1>6. \A n \in DOMAIN s : t[n] = s[n]
  BY Zenon, <1>3, <1>4
<1> QED
  BY Zenon, <1>1, <1>2, <1>5, <1>6 DEF Failures

\* The state b carries on the count of the state a, or needs none.
Carried(a, b) ==
    /\ b.status \in {"pending", "claimed", "done", "dead"}
    /\ b.status \in {"pending", "claimed"} =>
         a.status \in {"none", "pending", "claimed"} /\ b.attempt = a.attempt

\* An event that is no failure leaves the tally as it is.
LEMMA TallyKept ==
    ASSUME NEW s, NEW t, NEW a, NEW b, Tally(s, a), Failures(t) = Failures(s),
           \A n \in Failures(s) : t[n] = s[n], Carried(a, b)
    PROVE  Tally(t, b)
<1>1. b.status # "none"
  BY Zenon DEF Carried
<1> QED
  BY Zenon, <1>1 DEF Tally, Carried

\* An allowed event keeps the tally: a failure is counted by the state it
\* leaves, or it is the last.
LEMMA TallyAppend ==
    ASSUME Types, NEW j \in Job, NEW e \in Event, AppendEvent(j, e), Allowed(j, e),
           Tally(events[j], agg[j])
    PROVE  Tally(events'[j], agg'[j])
<1>1. PICK s, a, t, b : s = events[j] /\ a = agg[j] /\ t = events'[j] /\ b = agg'[j]
  BY Zenon
<1>2. s \in Seq(Event) /\ a \in State /\ t = Append(s, e) /\ b = Apply(a, e)
  BY Zenon, <1>1 DEF AppendEvent, Types
<1>3. a.attempt \in Nat /\ Budget \in Nat
  BY Zenon, <1>2, BudgetAssumption DEF State, Budget
<1>4. Tally(s, a)
  BY Zenon, <1>1
<1>5. \A n \in Failures(s) : t[n] = s[n]
  BY Zenon, <1>2, FailuresAppend
<1>6. CASE e.type = "RetryScheduled" \/ e.reason = "RetriesExhausted"
  <2>1. Failures(t) = Failures(s) \cup {Len(s) + 1} /\ Len(s) + 1 \notin Failures(s)
    BY Zenon, <1>2, <1>6, FailuresAppend
  <2>2. /\ a.status = "claimed" /\ e.type \in {"RetryScheduled", "Dead"}
        /\ e.type = "RetryScheduled" => e.attempt = a.attempt + 1 /\ e.attempt < MaxAttempts
        /\ e.type = "Dead" => a.attempt + 1 >= MaxAttempts
    BY SMTT(30), <1>1, <1>6 DEF Allowed, Enqueued, Ev, Settlement
  <2>3. /\ IsFiniteSet(Failures(s)) /\ Cardinality(Failures(s)) = a.attempt
        /\ a.attempt < Budget /\ \A n \in Failures(s) : s[n].type # "Dead"
    BY Zenon, <1>4, <2>2 DEF Tally
  <2>4. IsFiniteSet(Failures(t)) /\ Cardinality(Failures(t)) = a.attempt + 1
    <3>1. PICK f, n : f = Failures(s) /\ n = Len(s) + 1
      BY Zenon
    <3>2. IsFiniteSet(f) /\ n \notin f
      BY Zenon, <2>1, <2>3, <3>1
    <3>3. IsFiniteSet(f \cup {n}) /\ Cardinality(f \cup {n}) = Cardinality(f) + 1
      BY <3>2, FS_AddElement
    <3> QED
      BY Zenon, <2>1, <2>3, <3>1, <3>3
  <2>5. t[Len(s) + 1] = e /\ \A n \in Failures(s) : t[n].type # "Dead"
    BY Zenon, <1>2, <1>5, <2>3, AppendFacts
  <2>6. CASE e.type = "RetryScheduled"
    <3>1. b = Retried(a, e)
      BY Zenon, <1>2, <2>2, <2>6 DEF Apply, Evolve
    <3>2. b.attempt = a.attempt + 1 /\ b.status # "none"
      BY Zenon, <2>2, <2>6, <3>1 DEF Retried
    <3>3. a.attempt + 1 < Budget /\ a.attempt + 1 <= Budget
      BY <1>3, <2>2, <2>6, BudgetAssumption DEF Budget
    <3>4. \A n \in Failures(t) : t[n].type # "Dead"
      BY Zenon, <2>1, <2>5, <2>6
    <3> QED
      BY Zenon, <1>1, <2>4, <3>2, <3>3, <3>4 DEF Tally
  <2>7. CASE e.type = "Dead"
    <3>1. b.status = "dead"
      BY Zenon, <1>2, <2>2, <2>7 DEF Apply, Evolve, Blank
    <3>2. a.attempt + 1 = Budget /\ a.attempt + 1 <= Budget
      BY <1>3, <2>2, <2>3, <2>7, BudgetAssumption DEF Budget
    <3> QED
      BY Zenon, <1>1, <2>4, <3>1, <3>2 DEF Tally
  <2> QED
    BY Zenon, <2>2, <2>6, <2>7
<1>7. CASE e.type # "RetryScheduled" /\ e.reason # "RetriesExhausted"
  <2>1. Failures(t) = Failures(s)
    BY Zenon, <1>2, <1>7, FailuresAppend
  <2>2. ASSUME e = Enqueued /\ a.status = "none" PROVE Carried(a, b)
    <3>1. b.status = "pending" /\ b.attempt = 0
      BY Zenon, <1>2, <2>2 DEF Apply, Originate, Enqueued, Ev, Blank
    <3> QED
      BY Zenon, <1>4, <2>2, <3>1 DEF Tally, Carried
  <2>3. ASSUME e.type = "Claimed" /\ a.status \in {"pending", "claimed"} PROVE Carried(a, b)
    <3>1. b = Claimed(a, e)
      BY Zenon, <1>2, <2>3, FoldClaimed
    <3> QED
      BY Zenon, <2>3, <3>1 DEF Claimed, Carried
  <2>4. ASSUME e.type = "Dead" /\ a.status \in {"pending", "claimed"} PROVE Carried(a, b)
    <3>1. b.status = "dead"
      BY Zenon, <1>2, <2>4 DEF Apply, Evolve, Blank
    <3> QED
      BY Zenon, <3>1 DEF Carried
  <2>5. ASSUME e.type = "Succeeded" /\ a.status = "claimed" PROVE Carried(a, b)
    <3>1. b.status = "done"
      BY Zenon, <1>2, <2>5 DEF Apply, Evolve, Blank
    <3> QED
      BY Zenon, <3>1 DEF Carried
  <2>6. ASSUME e.type = "Rescheduled" /\ a.status = "claimed" PROVE Carried(a, b)
    <3>1. b.status = "pending" /\ b.attempt = a.attempt
      BY Zenon, <1>2, <2>6 DEF Apply, Evolve, Deferred
    <3> QED
      BY Zenon, <2>6, <3>1 DEF Carried
  <2>7. Carried(a, b)
    BY Zenon, <1>1, <1>7, <2>2, <2>3, <2>4, <2>5, <2>6 DEF Allowed, Settlement
  <2>8. Tally(t, b)
    BY Zenon, <1>4, <1>5, <2>1, <2>7, TallyKept
  <2> QED
    BY Zenon, <1>1, <2>8
<1> QED
  BY Zenon, <1>6, <1>7


\* The retry budget of plan_ack is kept over takeovers, crashes and stale
\* settlements: failures are counted in the stream, and only the claim that
\* holds the job adds one.
THEOREM BudgetKept == Spec => []AttemptBudget
<1>1. Init => Tallied
  <2> SUFFICES ASSUME Init, NEW j \in Job PROVE Tally(events[j], agg[j])
    BY Zenon DEF Tallied
  <2>1. events[j] = << >> /\ agg[j] = NoState
    BY Zenon DEF Init
  <2>2. Failures(events[j]) = {}
    BY <2>1 DEF Failures
  <2>3. agg[j].attempt = 0
    BY <2>1 DEF NoState
  <2>4. 0 < Budget /\ 0 <= Budget
    BY BudgetAssumption DEF Budget
  <2> QED
    BY Zenon, <2>2, <2>3, <2>4, FS_EmptySet DEF Tally
<1>2. IInv /\ Tallied /\ [Next]_vars => Tallied'
  <2>1. ASSUME Tallied, UNCHANGED <<events, agg>> PROVE Tallied'
    BY Zenon, <2>1 DEF Tallied, Tally, Failures
  <2>2. ASSUME Types, Tallied, NEW i \in Job, NEW e \in Event, AppendEvent(i, e), Allowed(i, e)
        PROVE  Tallied'
    <3>1. ASSUME NEW j \in Job PROVE Tally(events'[j], agg'[j])
      <4>1. CASE j = i
        BY Zenon, <2>2, <4>1, TallyAppend DEF Tallied
      <4>2. CASE j # i
        <5>1. events'[j] = events[j] /\ agg'[j] = agg[j]
          BY Zenon, <2>2, <4>2 DEF AppendEvent, Types
        <5> QED
          BY Zenon, <2>2, <5>1 DEF Tallied
      <4> QED
        BY Zenon, <4>1, <4>2
    <3> QED
      BY Zenon, <3>1 DEF Tallied, Tally, Failures
  <2>3. ASSUME IInv, Tallied, Next PROVE Tallied'
    <3>1. Types
      BY Zenon, <2>3 DEF IInv, TypeOK, Types
    <3> QED
      BY Zenon, <2>1, <2>2, <2>3, <3>1, StepAppends
  <2> QED
    BY Zenon, <2>1, <2>3 DEF vars
<1>3. Tallied => AttemptBudget
  BY Zenon DEF Tallied, Tally, Failures, Budget, AttemptBudget
<1> QED
  BY <1>1, <1>2, <1>3, Invariant, PTL DEF Spec

=============================================================================

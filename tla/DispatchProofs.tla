--------------------------- MODULE DispatchProofs ---------------------------
(***************************************************************************)
(* The safety of dispatched jobs (Dispatch) for any number of jobs and     *)
(* workers and any budgets: what an execution knows between its call and   *)
(* its settlement is tied to what the origin and the external system know, *)
(* so that a verdict stays true over takeovers, timeouts and crashes.      *)
(* Then what a reactor and its retries guarantee (Reactors), for any width *)
(* of the integers, number of attempts and delays.                         *)
(***************************************************************************)
EXTENDS Dispatch, Reactors, SequenceTheorems, WellFoundedInduction, TLAPS

Plan == {"none", "done", "transient", "terminal", "defer"}

\* An execution in progress.
Execution ==
    [pc : {"start", "authorized", "outcome", "settle"}, job : Job, first : BOOLEAN,
     attempt : Nat, current : BOOLEAN, plan : Plan]

JobStatus == {"none", "pending", "claimed", "done", "dead"}

IsEntity(e) ==
    /\ e = Entity(e.status, e.machine)
    /\ e.machine = Machine(e.machine.tag, e.machine.job)

TypeOK ==
    /\ job \in [Job -> [status : JobStatus, attempt : Nat, claims : Nat]]
    /\ flavor \in {"Desk", "Order", "SupportTicket"}
    /\ IsEntity(origin)
    /\ claimed \subseteq Job
    /\ exec \in [Worker -> Execution \cup {Idle}]
    /\ landed \subseteq Job
    /\ blind \in [Job -> Nat]

\* The first execution of a job has not called yet, is alone in not having to
\* ask, and precedes every other claim.
FirstInv ==
    /\ \A j \in Job : blind[j] # 0 => j \in claimed
    /\ \A w \in Worker : exec[w] # Idle => exec[w].job \in claimed
    /\ \A w \in Worker : exec[w] # Idle /\ exec[w].first => blind[exec[w].job] = 0
    /\ \A v, w \in Worker :
          /\ exec[v] # Idle /\ exec[v].first
          /\ exec[w] # Idle /\ exec[w].first
          /\ exec[v].job = exec[w].job
          => v = w

\* What a success stands for: the call landed, and once it is about to be
\* acknowledged the origin has taken it.
VerdictInv ==
    /\ \A w \in Worker : exec[w] # Idle /\ exec[w].plan = "done" =>
          exec[w].job \in landed \/ Infallible
    /\ \A w \in Worker : exec[w] # Idle /\ exec[w].plan = "done" /\ exec[w].pc = "settle" =>
          origin.machine = Machine("Confirmed", exec[w].job)

IInv ==
    /\ TypeOK /\ FirstInv /\ VerdictInv
    /\ NoBlindResubmit /\ ConfirmedIsProof /\ DoneIsConfirmed /\ StatusFollowsVerdict

-----------------------------------------------------------------------------
(* The executions.                                                         *)

\* An execution moves: its place and its plan change, what it executes does not.
Moves(w, place, plan) ==
    /\ exec[w] \in Execution /\ exec'[w] \in Execution
    /\ exec'[w].pc = place /\ exec'[w].plan = plan /\ exec'[w].first = FALSE
    /\ exec'[w].job = exec[w].job
    /\ \A v \in Worker \ {w} : exec'[v] = exec[v]
    /\ exec' \in [Worker -> Execution \cup {Idle}]

\* A worker's step is a step of an execution in progress.
LEMMA Executing ==
    ASSUME TypeOK, NEW w \in Worker, exec[w].pc # "idle"
    PROVE  exec[w] \in Execution
BY DEF TypeOK, Idle

\* An execution in progress is told from an idle worker by its place.
LEMMA NotIdle == \A x \in Execution : x # Idle /\ x.pc # "idle"
BY DEF Execution, Idle

\* perform goes from one await to the next.
LEMMA GotoMoves ==
    ASSUME TypeOK, NEW w \in Worker, exec[w].pc # "idle",
           NEW place \in {"start", "authorized", "outcome", "settle"}, NEW plan \in Plan,
           Goto(w, place, plan)
    PROVE  Moves(w, place, plan)
<1>1. exec[w] \in Execution
  BY Executing
<1> DEFINE x == [[[exec[w] EXCEPT !.pc = place] EXCEPT !.plan = plan] EXCEPT !.first = FALSE]
<1>2. exec' = [exec EXCEPT ![w] = x]
  BY Zenon, <1>1 DEF Goto, TypeOK
<1>3. x \in Execution /\ x.pc = place /\ x.plan = plan /\ x.first = FALSE /\ x.job = exec[w].job
  BY Zenon, <1>1 DEF Execution
<1> HIDE DEF x
<1> QED
  BY <1>1, <1>2, <1>3 DEF Moves, TypeOK


\* Claim and Abandon take the fence from the executions of the job and change
\* nothing else about them.
Fenced(v) ==
    /\ exec'[v] = Idle <=> exec[v] = Idle
    /\ exec[v] # Idle =>
          /\ exec'[v].pc = exec[v].pc /\ exec'[v].plan = exec[v].plan
          /\ exec'[v].first = exec[v].first /\ exec'[v].job = exec[v].job

\* Fencing an execution keeps its place and its plan.
LEMMA FencedExecution ==
    ASSUME TypeOK, NEW v \in Worker, exec[v] # Idle,
           exec'[v] = [exec[v] EXCEPT !.current = FALSE]
    PROVE  exec'[v] \in Execution /\ Fenced(v)
<1>1. exec[v] \in Execution
  BY DEF TypeOK
<1>2. /\ exec'[v] \in Execution /\ exec'[v].pc = exec[v].pc /\ exec'[v].plan = exec[v].plan
      /\ exec'[v].first = exec[v].first /\ exec'[v].job = exec[v].job
  BY Zenon, <1>1 DEF Execution
<1> QED
  BY Zenon, <1>1, <1>2, NotIdle DEF Fenced

\* A claim starts one execution and fences the others of its job.
LEMMA ClaimEffect ==
    ASSUME TypeOK, NEW w \in Worker, NEW j \in Job, Claim(w, j)
    PROVE  /\ exec' \in [Worker -> Execution \cup {Idle}]
           /\ exec[w] = Idle /\ exec'[w] \in Execution /\ exec'[w].job = j
           /\ exec'[w].first = (j \notin claimed) /\ exec'[w].plan = "none" /\ exec'[w].pc = "start"
           /\ \A v \in Worker \ {w} : Fenced(v)
<1>1. /\ exec' = [v \in Worker |->
          IF v = w THEN [pc |-> "start", job |-> j, first |-> First(j),
                         attempt |-> job[j].attempt, current |-> TRUE, plan |-> "none"]
          ELSE IF exec[v] # Idle /\ exec[v].job = j THEN [exec[v] EXCEPT !.current = FALSE]
          ELSE exec[v]]
      /\ exec[w] = Idle
  BY DEF Claim
<1>2. exec'[w] \in Execution /\ exec'[w].job = j /\ exec'[w].first = (j \notin claimed)
      /\ exec'[w].plan = "none" /\ exec'[w].pc = "start"
  BY <1>1 DEF First, Execution, Plan, TypeOK
<1>3. ASSUME NEW v \in Worker \ {w} PROVE exec'[v] \in Execution \cup {Idle} /\ Fenced(v)
  <2>1. CASE exec[v] # Idle /\ exec[v].job = j
    BY <1>1, <2>1, FencedExecution
  <2>2. CASE ~(exec[v] # Idle /\ exec[v].job = j)
    BY <1>1, <2>2 DEF TypeOK, Fenced
  <2> QED
    BY <2>1, <2>2
<1>4. exec' \in [Worker -> Execution \cup {Idle}]
  <2>1. \A v \in Worker : exec'[v] \in Execution \cup {Idle}
    BY <1>2, <1>3
  <2>2. exec' = [v \in Worker |-> exec'[v]]
    BY <1>1
  <2> QED
    BY <2>1, <2>2
<1> QED
  BY Zenon, <1>1, <1>2, <1>3, <1>4

\* So does giving a job up, without starting any.
LEMMA AbandonEffect ==
    ASSUME TypeOK, NEW j \in Job, Abandon(j)
    PROVE  exec' \in [Worker -> Execution \cup {Idle}] /\ \A v \in Worker : Fenced(v)
<1>1. exec' = [v \in Worker |->
          IF exec[v] # Idle /\ exec[v].job = j THEN [exec[v] EXCEPT !.current = FALSE]
          ELSE exec[v]]
  BY DEF Abandon
<1>2. ASSUME NEW v \in Worker PROVE exec'[v] \in Execution \cup {Idle} /\ Fenced(v)
  <2>1. CASE exec[v] # Idle /\ exec[v].job = j
    BY <1>1, <2>1, FencedExecution
  <2>2. CASE ~(exec[v] # Idle /\ exec[v].job = j)
    BY <1>1, <2>2 DEF TypeOK, Fenced
  <2> QED
    BY <2>1, <2>2
<1>3. exec' = [v \in Worker |-> exec'[v]]
  BY <1>1
<1> QED
  BY <1>2, <1>3

\* What a step of perform does to its execution, one line per way out of it.
LEMMA PerformMoves ==
    ASSUME TypeOK, NEW w \in Worker, Submit(w) \/ Reconcile(w) \/ Deliver(w) \/ DeliverFails(w)
                                       \/ NothingToTell(w) \/ Timeout(w)
    PROVE  /\ exec[w] \in Execution
           /\ \E place \in {"authorized", "outcome", "settle"}, plan \in Plan :
                /\ Moves(w, place, plan)
                /\ plan = "done" =>
                      \/ Submit(w) /\ place = "outcome" /\ exec[w].job \in landed'
                      \/ Reconcile(w) /\ place = "outcome" /\ (exec[w].job \in landed \/ Infallible)
                      \/ Deliver(w) /\ exec[w].plan = "done"
<1>1. exec[w].pc # "idle"
  BY DEF Submit, Reconcile, Deliver, DeliverFails, NothingToTell, Timeout
<1>2. exec[w] \in Execution /\ exec[w].plan \in Plan
  BY <1>1, Executing DEF Execution
<1>3. CASE Submit(w)
  <2>1. PICK plan \in Plan : Goto(w, "outcome", plan) /\ (plan = "done" => exec[w].job \in landed')
    BY <1>3 DEF Submit, Plan
  <2> QED
    BY <1>1, <1>2, <1>3, <2>1, GotoMoves
<1>4. CASE Reconcile(w)
  <2>1. PICK place \in {"authorized", "outcome"}, plan \in Plan :
           /\ Goto(w, place, plan)
           /\ plan = "done" => place = "outcome" /\ (exec[w].job \in landed \/ Infallible)
    BY <1>4 DEF Reconcile, Plan
  <2> QED
    BY <1>1, <1>2, <1>4, <2>1, GotoMoves
<1>5. CASE Deliver(w)
  <2>1. Moves(w, "settle", exec[w].plan)
    BY <1>1, <1>2, <1>5, GotoMoves DEF Deliver
  <2> QED
    BY <1>2, <1>5, <2>1
<1>6. CASE DeliverFails(w)
  <2>1. Undelivered(exec[w]) \in Plan /\ Undelivered(exec[w]) # "done"
    BY DEF Undelivered, Plan
  <2>2. Moves(w, "settle", Undelivered(exec[w]))
    BY <1>1, <1>2, <1>6, <2>1, GotoMoves DEF DeliverFails
  <2> QED
    BY <1>2, <2>1, <2>2
<1>7. CASE NothingToTell(w)
  <2>1. exec[w].plan # "done"
    BY <1>7 DEF NothingToTell, Reports
  <2>2. Moves(w, "settle", exec[w].plan)
    BY <1>1, <1>2, <1>7, GotoMoves DEF NothingToTell
  <2> QED
    BY <1>2, <2>1, <2>2
<1>8. CASE Timeout(w)
  <2>1. Moves(w, "settle", "transient")
    BY <1>1, <1>8, GotoMoves DEF Timeout, Plan
  <2> QED
    BY <1>2, <2>1 DEF Plan
<1> QED
  BY <1>3, <1>4, <1>5, <1>6, <1>7, <1>8

\* Ack and Crash leave the worker idle.
LEMMA Leaves ==
    ASSUME TypeOK, NEW w \in Worker, Ack(w) \/ Crash(w)
    PROVE  /\ exec' \in [Worker -> Execution \cup {Idle}]
           /\ exec'[w] = Idle /\ \A v \in Worker \ {w} : exec'[v] = exec[v]
BY DEF Ack, Crash, TypeOK


-----------------------------------------------------------------------------
(* The durable jobs and the origin.                                        *)

JobType == [status : JobStatus, attempt : Nat, claims : Nat]

\* One transition of JobLifecycle, and what can make a job done.
LEMMA QueueStep ==
    ASSUME job \in [Job -> JobType], NEW j \in Job,
           Queue!Enqueue(j) \/ Queue!Claim(j) \/ Queue!Retry(j) \/ Queue!Defer(j)
             \/ Queue!Finish(j) \/ Queue!Abandon(j)
    PROVE  /\ job' \in [Job -> JobType]
           /\ \A k \in Job \ {j} : job'[k] = job[k]
           /\ job'[j].status = "done" => Queue!Finish(j)
<1> USE DEF JobType, JobStatus, Queue!Become, Queue!Entry
<1>0. job[j].attempt \in Nat /\ job[j].claims \in Nat
  OBVIOUS
<1>1. CASE Queue!Enqueue(j)
  BY <1>1 DEF Queue!Enqueue
<1>2. CASE Queue!Claim(j)
  BY <1>0, <1>2 DEF Queue!Claim
<1>3. CASE Queue!Retry(j)
  BY <1>0, <1>3 DEF Queue!Retry
<1>4. CASE Queue!Defer(j)
  BY <1>0, <1>4 DEF Queue!Defer
<1>5. CASE Queue!Finish(j)
  <2>1. PICK status \in {"done", "dead"} :
           job' = [job EXCEPT ![j] = [status |-> status, attempt |-> 0, claims |-> 0]]
    BY Zenon, <1>5 DEF Queue!Finish
  <2>2. job' \in [Job -> JobType] /\ \A k \in Job \ {j} : job'[k] = job[k]
    BY <2>1
  <2> QED
    BY <1>5, <2>2
<1>6. CASE Queue!Abandon(j)
  BY <1>6 DEF Queue!Abandon
<1> QED
  BY <1>1, <1>2, <1>3, <1>4, <1>5, <1>6

\* Only the acknowledgement of a success makes a job done.
LEMMA DoneByAck ==
    ASSUME TypeOK, Next
    PROVE  /\ job' \in [Job -> JobType]
           /\ \A j \in Job : job'[j].status = "done" =>
                 \/ job[j].status = "done"
                 \/ \E w \in Worker : /\ Ack(w) /\ exec[w] \in Execution
                                      /\ exec[w].pc = "settle" /\ exec[w].plan = "done"
                                      /\ exec[w].job = j
<1>0. job \in [Job -> JobType]
  BY DEF TypeOK, JobType
<1>1. CASE UNCHANGED job
  BY <1>0, <1>1
<1>2. CASE \E j \in Job : Queue!Enqueue(j) \/ Queue!Claim(j) \/ Queue!Abandon(j)
  <2>1. PICK j \in Job : Queue!Enqueue(j) \/ Queue!Claim(j) \/ Queue!Abandon(j)
    BY <1>2
  <2>2. job'[j].status # "done"
    BY <1>0, <2>1 DEF Queue!Enqueue, Queue!Claim, Queue!Abandon, Queue!Become, Queue!Entry
  <2> QED
    BY <1>0, <2>1, <2>2, QueueStep
<1>3. ASSUME NEW w \in Worker, Ack(w), job' # job
      PROVE  /\ job' \in [Job -> JobType]
             /\ \A j \in Job : job'[j].status = "done" =>
                   \/ job[j].status = "done"
                   \/ exec[w] \in Execution /\ exec[w].pc = "settle" /\ exec[w].plan = "done" /\ exec[w].job = j
  <2>1. exec[w] \in Execution /\ exec[w].pc = "settle" /\ exec[w].job \in Job
    BY <1>3, Executing DEF Ack, Execution
  <2>2. \/ Queue!Finish(exec[w].job) /\ (job'[exec[w].job].status = "done" => exec[w].plan = "done")
        \/ Queue!Defer(exec[w].job) \/ Queue!Retry(exec[w].job)
    BY <1>3 DEF Ack
  <2>3. /\ job' \in [Job -> JobType]
        /\ \A k \in Job \ {exec[w].job} : job'[k] = job[k]
        /\ job'[exec[w].job].status = "done" => Queue!Finish(exec[w].job)
    BY <1>0, <2>1, <2>2, QueueStep
  <2>4. job'[exec[w].job].status = "done" => exec[w].plan = "done"
    <3>1. CASE Queue!Defer(exec[w].job) \/ Queue!Retry(exec[w].job)
      BY <1>0, <2>1, <3>1 DEF Queue!Defer, Queue!Retry, Queue!Become, Queue!Entry
    <3> QED
      BY <2>2, <3>1
  <2> QED
    BY <2>1, <2>3, <2>4
<1>4. \/ UNCHANGED job
      \/ \E j \in Job : Queue!Enqueue(j) \/ Queue!Claim(j) \/ Queue!Abandon(j)
      \/ \E w \in Worker : Ack(w)
  BY DEF Next, Kick, Own, Claim, Abandon, Execute, Submit, Reconcile, Deliver, DeliverFails,
         NothingToTell, Timeout, Crash
<1> QED
  BY <1>1, <1>2, <1>3, <1>4

\* The status an origin takes with each event of its dispatch.
LEMMA StatusIs ==
    ASSUME TypeOK, NEW tag
    PROVE  StatusAfter(tag) \in {"Placed", "Filled", "Cancelled", "Closed"} => tag = "Confirmed"
<1>1. CASE flavor = "Desk"
  BY <1>1, Zenon DEF StatusAfter, DeskStatus
<1>2. CASE flavor = "Order"
  <2>1. StatusAfter(tag) = OrderStatus(tag)
    BY <1>2, Zenon DEF StatusAfter
  <2> QED
    BY <2>1 DEF OrderStatus
<1>3. CASE flavor = "SupportTicket"
  <2>1. StatusAfter(tag) = TicketStatus(tag)
    BY <1>3, Zenon DEF StatusAfter
  <2> QED
    BY <2>1 DEF TicketStatus
<1> QED
  BY <1>1, <1>2, <1>3 DEF TypeOK

\* A handler dispatches from Idle or Failed only.
LEMMA AsksMay ==
    ASSUME TypeOK, Asks
    PROVE  origin.machine.tag \in {"Idle", "Failed"}
<1>1. CASE flavor = "Desk"
  BY <1>1, Zenon DEF Asks, DeskAsks, MayDispatch
<1>2. CASE flavor = "Order"
  <2>1. origin = Unborn
    BY <1>2, Zenon DEF Asks, OrderAsks
  <2> QED
    BY <2>1 DEF Unborn, IdleMachine
<1>3. CASE flavor = "SupportTicket"
  BY <1>3, Zenon DEF Asks, TicketAsks, MayDispatch
<1> QED
  BY <1>1, <1>2, <1>3 DEF TypeOK

\* An entity's own commands fill or cancel a placed order, or move an open ticket.
LEMMA OwnStatus ==
    ASSUME TypeOK, NEW status \in OwnCommand
    PROVE  \/ status \in {"Filled", "Cancelled"} /\ origin.status = "Placed"
           \/ status \in {"Open", "Pending"}
<1>1. CASE flavor = "Desk"
  BY <1>1, Zenon DEF OwnCommand
<1>2. CASE flavor = "Order"
  <2>1. status \in OrderOwn(origin)
    BY <1>2, Zenon DEF OwnCommand
  <2> QED
    BY <2>1 DEF OrderOwn
<1>3. CASE flavor = "SupportTicket"
  <2>1. status \in TicketOwn(origin)
    BY <1>3, Zenon DEF OwnCommand
  <2> QED
    BY <2>1 DEF TicketOwn
<1> QED
  BY <1>1, <1>2, <1>3 DEF TypeOK


\* kick: from a machine at rest into flight.
LEMMA KickMachine ==
    ASSUME TypeOK, NEW j \in Job, Kick(j)
    PROVE  /\ origin.machine.tag \in {"Idle", "Failed"}
           /\ origin' = Entity(StatusAfter("Dispatched"), Machine("InFlight", j))
<1>1. origin.machine.tag \in {"Idle", "Failed"}
  BY AsksMay DEF Kick
<1>2. Evolve(origin.machine, "InFlight", j) = Machine("InFlight", j)
  BY <1>1 DEF Evolve
<1> QED
  BY <1>1, <1>2 DEF Kick

\* deliver: news for the job in flight is folded, an old verdict is absorbed.
LEMMA DeliverMachine ==
    ASSUME TypeOK, NEW w \in Worker, Deliver(w)
    PROVE  \/ /\ UNCHANGED origin
              /\ origin.machine = Machine(Tag(exec[w]), exec[w].job)
           \/ /\ origin.machine = Machine("InFlight", exec[w].job)
              /\ origin' = Entity(StatusAfter(Tag(exec[w])), Machine(Tag(exec[w]), exec[w].job))
<1>1. \/ origin.machine = Machine("InFlight", exec[w].job)
      \/ origin.machine = Machine(Tag(exec[w]), exec[w].job)
  BY DEF Deliver, Settleable
<1>2. Tag(exec[w]) \in {"Confirmed", "Failed"}
  BY DEF Tag
<1>3. CASE origin.machine = Machine("InFlight", exec[w].job)
  <2>1. origin.machine.tag = "InFlight"
    BY <1>3 DEF Machine
  <2>2. Evolve(origin.machine, Tag(exec[w]), exec[w].job) = Machine(Tag(exec[w]), exec[w].job)
    BY <1>2, <1>3 DEF Evolve
  <2> QED
    BY <1>3, <2>1, <2>2 DEF Deliver
<1>4. CASE origin.machine = Machine(Tag(exec[w]), exec[w].job)
  <2>1. origin.machine.tag # "InFlight"
    BY <1>2, <1>4 DEF Machine
  <2> QED
    BY <1>4, <2>1 DEF Deliver
<1> QED
  BY <1>1, <1>3, <1>4

\* The machine stays, takes off from rest, or takes the verdict delivered to it.
MachineMoves ==
    \/ origin'.machine = origin.machine
    \/ origin.machine.tag \in {"Idle", "Failed"} /\ origin'.machine.tag = "InFlight"
    \/ \E w \in Worker :
          /\ Deliver(w) /\ origin.machine = Machine("InFlight", exec[w].job)
          /\ origin'.machine = Machine(Tag(exec[w]), exec[w].job)

\* Guards and folds agree: no event the guards let through is one evolve cannot
\* follow, and the status follows the verdict.
LEMMA MachineStep ==
    ASSUME TypeOK, StatusFollowsVerdict, Next
    PROVE  IsEntity(origin)' /\ StatusFollowsVerdict' /\ MachineMoves
<1>0. IsEntity(origin)
  BY DEF TypeOK
<1>a. ASSUME NEW status, NEW tag, NEW j, tag # "Replay",
             status \in {"Placed", "Filled", "Cancelled", "Closed"} => tag = "Confirmed",
             origin' = Entity(status, Machine(tag, j))
      PROVE  /\ IsEntity(origin)' /\ StatusFollowsVerdict' /\ origin'.machine = Machine(tag, j)
             /\ origin'.machine.tag = tag
  BY <1>a DEF IsEntity, Entity, Machine, StatusFollowsVerdict, Corrupt
<1>1. ASSUME NEW j \in Job, Kick(j) PROVE IsEntity(origin)' /\ StatusFollowsVerdict' /\ MachineMoves
  <2>1. StatusAfter("Dispatched") \notin {"Placed", "Filled", "Cancelled", "Closed"}
    BY StatusIs
  <2> QED
    BY <1>1, <1>a, <2>1, KickMachine DEF MachineMoves
<1>2. CASE Own
  <2>1. PICK status \in OwnCommand : origin' = [origin EXCEPT !.status = status]
    BY <1>2 DEF Own
  <2>2. origin' = Entity(status, origin.machine)
    BY <1>0, <2>1 DEF IsEntity, Entity
  <2>3. status \in {"Placed", "Filled", "Cancelled", "Closed"} => origin.machine.tag = "Confirmed"
    BY OwnStatus DEF StatusFollowsVerdict
  <2> QED
    BY <1>0, <2>2, <2>3 DEF IsEntity, Entity, StatusFollowsVerdict, MachineMoves
<1>3. ASSUME NEW w \in Worker, Deliver(w)
      PROVE  IsEntity(origin)' /\ StatusFollowsVerdict' /\ MachineMoves
  <2>1. CASE UNCHANGED origin
    BY <1>0, <2>1 DEF IsEntity, StatusFollowsVerdict, MachineMoves
  <2>2. CASE /\ origin.machine = Machine("InFlight", exec[w].job)
             /\ origin' = Entity(StatusAfter(Tag(exec[w])), Machine(Tag(exec[w]), exec[w].job))
    <3>1. StatusAfter(Tag(exec[w])) \in {"Placed", "Filled", "Cancelled", "Closed"} => Tag(exec[w]) = "Confirmed"
      BY StatusIs
    <3>2. Tag(exec[w]) # "Replay"
      BY DEF Tag
    <3> QED
      BY <1>3, <1>a, <2>2, <3>1, <3>2 DEF MachineMoves
  <2> QED
    BY <1>3, <2>1, <2>2, DeliverMachine
<1>4. CASE UNCHANGED origin
  <2>1. IsEntity(origin)' /\ StatusFollowsVerdict'
    BY Zenon, <1>0, <1>4 DEF IsEntity, StatusFollowsVerdict
  <2>2. MachineMoves
    BY Zenon, <1>4 DEF MachineMoves
  <2> QED
    BY Zenon, <2>1, <2>2
<1>5. \/ \E j \in Job : Kick(j)
      \/ Own
      \/ \E w \in Worker : Deliver(w)
      \/ UNCHANGED origin
  BY Zenon DEF Next, Claim, Abandon, Execute, Submit, Reconcile, DeliverFails, NothingToTell, Ack,
         Timeout, Crash
<1> QED
  BY <1>1, <1>2, <1>3, <1>4, <1>5


-----------------------------------------------------------------------------
(* The parts of IInv, each kept by every step.                             *)

\* Every step is a command, a claim, a step of an execution or its end.
LEMMA StepKinds ==
    ASSUME TypeOK, Next
    PROVE  /\ exec' \in [Worker -> Execution \cup {Idle}]
           /\ \/ UNCHANGED <<exec, claimed, world>>
              \/ \E w \in Worker, j \in Job : Claim(w, j)
              \/ (\E j \in Job : Abandon(j)) /\ \A v \in Worker : Fenced(v)
              \/ \E w \in Worker : Submit(w) \/ Reconcile(w) \/ Deliver(w) \/ DeliverFails(w)
                                     \/ NothingToTell(w) \/ Timeout(w)
              \/ \E w \in Worker : Ack(w) \/ Crash(w)
<1>1. \/ \E j \in Job : Kick(j)
      \/ Own
      \/ \E w \in Worker, j \in Job : Claim(w, j)
      \/ \E j \in Job : Abandon(j)
      \/ \E w \in Worker : Submit(w) \/ Reconcile(w) \/ Deliver(w) \/ DeliverFails(w)
                             \/ NothingToTell(w) \/ Timeout(w)
      \/ \E w \in Worker : Ack(w) \/ Crash(w)
  BY DEF Next, Execute
<1>2. CASE (\E j \in Job : Kick(j)) \/ Own
  BY <1>2 DEF Kick, Own, TypeOK
<1>3. CASE \E w \in Worker : Submit(w) \/ Reconcile(w) \/ Deliver(w) \/ DeliverFails(w)
                               \/ NothingToTell(w) \/ Timeout(w)
  BY Zenon, <1>3, PerformMoves DEF Moves
<1> QED
  BY <1>1, <1>2, <1>3, ClaimEffect, AbandonEffect, Leaves

\* The types hold.
LEMMA TypeStep ==
    ASSUME TypeOK, StatusFollowsVerdict, Next
    PROVE  TypeOK'
<1>1. job' \in [Job -> JobType] /\ IsEntity(origin)' /\ exec' \in [Worker -> Execution \cup {Idle}]
  BY DoneByAck, MachineStep, StepKinds
<1>2. flavor' = flavor
  BY Zenon DEF Next, Kick, Own, Claim, Abandon, Execute, Submit, Reconcile, Deliver, DeliverFails,
         NothingToTell, Ack, Timeout, Crash
<1>3. claimed' \subseteq Job
  BY Zenon DEF TypeOK, Next, Kick, Own, Claim, Abandon, Execute, Submit, Reconcile, Deliver, DeliverFails,
         NothingToTell, Ack, Timeout, Crash
<1>4. landed' \subseteq Job /\ blind' \in [Job -> Nat]
  <2>1. ASSUME NEW w \in Worker, Submit(w) PROVE landed' \subseteq Job /\ blind' \in [Job -> Nat]
    <3>1. exec[w].job \in Job
      <4>1. exec[w] \in Execution
        BY Zenon, <2>1, PerformMoves
      <4> QED
        BY Zenon, <4>1 DEF Execution
    <3> QED
      BY <2>1, <3>1 DEF Submit, TypeOK
  <2>2. UNCHANGED world \/ \E w \in Worker : Submit(w)
    BY DEF Next, Kick, Own, Claim, Abandon, Execute, Reconcile, Deliver, DeliverFails,
           NothingToTell, Ack, Timeout, Crash
  <2> QED
    BY <2>1, <2>2 DEF world, TypeOK
<1> QED
  BY <1>1, <1>2, <1>3, <1>4 DEF TypeOK, JobType

\* A job's call without asking is its first execution's, and it is made once: the
\* claim that starts it comes before every other, and calling spends it.
LEMMA FirstStep ==
    ASSUME TypeOK, FirstInv, NoBlindResubmit, Next
    PROVE  FirstInv' /\ NoBlindResubmit'
<1> USE DEF FirstInv, NoBlindResubmit
<1>0. exec \in [Worker -> Execution \cup {Idle}] /\ blind \in [Job -> Nat] /\ claimed \subseteq Job
      /\ \A w \in Worker : exec[w] # Idle => exec[w].job \in Job /\ exec[w].first \in BOOLEAN
  BY DEF TypeOK, Execution
<1>1. CASE UNCHANGED <<exec, claimed, world>>
  BY <1>1 DEF world
<1>2. ASSUME NEW w \in Worker, NEW j \in Job, Claim(w, j) PROVE FirstInv' /\ NoBlindResubmit'
  <2>1. UNCHANGED blind /\ claimed' = claimed \cup {j}
    BY <1>2 DEF Claim, world
  <2>2. /\ exec[w] = Idle /\ exec'[w].job = j /\ exec'[w].first = (j \notin claimed)
        /\ \A v \in Worker \ {w} : Fenced(v)
    BY <1>2, ClaimEffect
  <2>3. \A v \in Worker : v # w /\ exec'[v] # Idle =>
          exec[v] # Idle /\ exec'[v].first = exec[v].first /\ exec'[v].job = exec[v].job
    BY <2>2 DEF Fenced
  <2>4. exec'[w].first => blind[j] = 0 /\ \A v \in Worker : v # w /\ exec'[v] # Idle => exec'[v].job # j
    BY Zenon, <2>2, <2>3
  <2>5. \A i \in Job : blind'[i] # 0 => i \in claimed'
    BY <2>1
  <2>6. \A v \in Worker : exec'[v] # Idle => exec'[v].job \in claimed'
    BY <2>1, <2>2, <2>3
  <2>7. \A v \in Worker : exec'[v] # Idle /\ exec'[v].first => blind'[exec'[v].job] = 0
    BY <2>1, <2>2, <2>3, <2>4
  <2>8. ASSUME NEW u \in Worker, NEW v \in Worker, exec'[u] # Idle, exec'[u].first,
               exec'[v] # Idle, exec'[v].first, exec'[u].job = exec'[v].job
        PROVE  u = v
    BY <2>2, <2>3, <2>4, <2>8
  <2> QED
    BY <2>1, <2>5, <2>6, <2>7, <2>8
<1>3. ASSUME NEW j \in Job, Abandon(j), \A v \in Worker : Fenced(v) PROVE FirstInv' /\ NoBlindResubmit'
  <2>1. UNCHANGED <<blind, claimed>>
    BY <1>3 DEF Abandon, world
  <2> QED
    BY <1>0, <1>3, <2>1 DEF Fenced
<1>4. ASSUME NEW w \in Worker, Submit(w) \/ Reconcile(w) \/ Deliver(w) \/ DeliverFails(w)
                                 \/ NothingToTell(w) \/ Timeout(w)
      PROVE  FirstInv' /\ NoBlindResubmit'
  <2>1. /\ exec[w] # Idle /\ exec[w] \in Execution /\ exec'[w].first = FALSE
        /\ exec'[w].job = exec[w].job /\ \A v \in Worker \ {w} : exec'[v] = exec[v]
    <3>1. exec[w] \in Execution /\ \E place, plan : Moves(w, place, plan)
      BY Zenon, <1>4, PerformMoves
    <3> QED
      BY Zenon, <3>1, NotIdle DEF Moves
  <2>2. UNCHANGED claimed
    BY <1>4 DEF Submit, Reconcile, Deliver, DeliverFails, NothingToTell, Timeout
  <2>3. \/ UNCHANGED blind
        \/ exec[w].first /\ blind' = [blind EXCEPT ![exec[w].job] = @ + 1]
    BY Zenon, <1>4, <2>1 DEF Submit, Reconcile, Deliver, DeliverFails, NothingToTell, Timeout, world
  <2>4. CASE UNCHANGED blind
    BY <1>0, <2>1, <2>2, <2>4
  <2>5. CASE exec[w].first /\ blind' = [blind EXCEPT ![exec[w].job] = @ + 1]
    <3>1. blind[exec[w].job] = 0 /\ exec[w].job \in Job /\ exec[w].job \in claimed
      BY <1>0, <2>1, <2>5
    <3>2. blind'[exec[w].job] = 1 /\ \A j \in Job \ {exec[w].job} : blind'[j] = blind[j]
      BY <1>0, <2>5, <3>1
    <3>3. ASSUME NEW v \in Worker, exec'[v] # Idle, exec'[v].first
          PROVE  v # w /\ exec[v] # Idle /\ exec[v].first /\ exec[v].job # exec[w].job /\ exec'[v] = exec[v]
      BY <2>1, <2>5, <3>3
    <3> QED
      BY <1>0, <2>1, <2>2, <3>1, <3>2, <3>3
  <2> QED
    BY <2>3, <2>4, <2>5
<1>5. ASSUME NEW w \in Worker, Ack(w) \/ Crash(w) PROVE FirstInv' /\ NoBlindResubmit'
  <2>1. UNCHANGED <<blind, claimed>>
    BY <1>5 DEF Ack, Crash, world
  <2> QED
    BY <1>5, <2>1, Leaves
<1> QED
  BY <1>1, <1>2, <1>3, <1>4, <1>5, StepKinds

\* A success is recorded where the call landed, and acknowledged where the origin
\* took it; Confirmed is never taken back.
LEMMA VerdictStep ==
    ASSUME TypeOK, VerdictInv, ConfirmedIsProof, DoneIsConfirmed, StatusFollowsVerdict, Next
    PROVE  VerdictInv' /\ ConfirmedIsProof' /\ DoneIsConfirmed'
<1>0. exec \in [Worker -> Execution \cup {Idle}] /\ MachineMoves /\ Infallible' = Infallible /\ landed \subseteq landed'
  <2>1. flavor' = flavor /\ landed \subseteq landed'
    BY Zenon DEF Next, Kick, Own, Claim, Abandon, Execute, Submit, Reconcile, Deliver, DeliverFails,
           NothingToTell, Ack, Timeout, Crash, world
  <2> QED
    <3>1. MachineMoves
      BY Zenon, MachineStep
    <3> QED
      BY Zenon, <2>1, <3>1 DEF TypeOK, Infallible
\* Confirmed is final.
<1>1. \A j : origin.machine = Machine("Confirmed", j) => origin'.machine = Machine("Confirmed", j)
  <2> SUFFICES ASSUME NEW j, origin.machine = Machine("Confirmed", j)
               PROVE  origin'.machine = origin.machine
    OBVIOUS
  <2>1. origin.machine.tag = "Confirmed"
    BY DEF Machine
  <2>2. \A i : Machine("InFlight", i).tag = "InFlight"
    BY DEF Machine
  <2> QED
    BY <1>0, <2>1, <2>2 DEF MachineMoves
\* A verdict that is delivered is a Confirmed only for a success.
<1>2. ConfirmedIsProof'
  <2> SUFFICES ASSUME origin'.machine.tag = "Confirmed", ~Infallible
               PROVE  origin'.machine.job \in landed'
    BY <1>0 DEF ConfirmedIsProof
  <2>1. CASE origin'.machine = origin.machine
    BY <1>0, <2>1 DEF ConfirmedIsProof
  <2>2. ASSUME NEW w \in Worker, Deliver(w), origin'.machine = Machine(Tag(exec[w]), exec[w].job)
        PROVE  origin'.machine.job \in landed'
    <3>1. exec[w] # Idle /\ exec[w].plan = "done"
      BY <2>2, PerformMoves, NotIdle DEF Tag, Machine
    <3>2. exec[w].job \in landed
      BY <3>1 DEF VerdictInv
    <3> QED
      BY <1>0, <2>2, <3>2 DEF Machine
  <2> QED
    BY <1>0, <2>1, <2>2 DEF MachineMoves
<1>3. DoneIsConfirmed'
  <2> SUFFICES ASSUME NEW j \in Job, job'[j].status = "done"
               PROVE  origin'.machine = Machine("Confirmed", j)
    BY DEF DoneIsConfirmed
  <2>1. CASE job[j].status = "done"
    BY <1>1, <2>1 DEF DoneIsConfirmed
  <2>2. ASSUME NEW w \in Worker, exec[w] \in Execution, exec[w].pc = "settle",
               exec[w].plan = "done", exec[w].job = j
        PROVE  origin'.machine = Machine("Confirmed", j)
    <3>1. exec[w] # Idle
      BY Zenon, <2>2, NotIdle
    <3>2. origin.machine = Machine("Confirmed", j)
      BY Zenon, <2>2, <3>1 DEF VerdictInv
    <3> QED
      BY Zenon, <1>1, <3>2
  <2> QED
    BY <2>1, <2>2, DoneByAck
<1>4. VerdictInv'
  <2> SUFFICES ASSUME NEW v \in Worker, exec'[v] # Idle, exec'[v].plan = "done"
               PROVE  /\ exec'[v].job \in landed' \/ Infallible
                      /\ exec'[v].pc = "settle" => origin'.machine = Machine("Confirmed", exec'[v].job)
    BY <1>0 DEF VerdictInv
  <2>1. CASE /\ exec[v] # Idle /\ exec[v].plan = "done" /\ exec'[v].job = exec[v].job
             /\ exec'[v].pc = exec[v].pc
    BY <1>0, <1>1, <2>1 DEF VerdictInv
  <2>2. CASE exec'[v] = exec[v] \/ Fenced(v)
    BY <2>1, <2>2 DEF Fenced
  <2>3. ASSUME NEW w \in Worker, NEW j \in Job, Claim(w, j)
        PROVE  Fenced(v)
    BY <2>3, ClaimEffect
  <2>4. ASSUME NEW w \in Worker, Submit(w) \/ Reconcile(w) \/ Deliver(w) \/ DeliverFails(w)
                                   \/ NothingToTell(w) \/ Timeout(w),
               exec'[v] # exec[v]
        PROVE  /\ exec'[v].job \in landed' \/ Infallible
               /\ exec'[v].pc = "settle" => origin'.machine = Machine("Confirmed", exec'[v].job)
    <3>1. /\ v = w /\ exec[w] \in Execution /\ exec'[w].job = exec[w].job
          /\ \/ exec'[w].pc = "outcome" /\ exec[w].job \in landed'
             \/ exec'[w].pc = "outcome" /\ (exec[w].job \in landed \/ Infallible)
             \/ Deliver(w) /\ exec[w].plan = "done"
      BY Zenon, <2>4, PerformMoves DEF Moves
    <3>2. ASSUME Deliver(w), exec[w].plan = "done"
          PROVE  /\ exec[w].job \in landed \/ Infallible
                 /\ origin'.machine = Machine("Confirmed", exec[w].job)
      <4>1. Tag(exec[w]) = "Confirmed"
        BY <3>2 DEF Tag
      <4>2. origin'.machine = Machine("Confirmed", exec[w].job)
        BY <3>2, <4>1, DeliverMachine DEF Entity
      <4> QED
        BY <3>1, <3>2, <4>2, NotIdle DEF VerdictInv
    <3> QED
      BY <1>0, <3>1, <3>2
  <2>5. ASSUME NEW w \in Worker, Ack(w) \/ Crash(w)
        PROVE  exec'[v] = exec[v]
    BY <2>5, Leaves
  <2> QED
    BY <2>2, <2>3, <2>4, <2>5, StepKinds
<1> QED
  BY <1>2, <1>3, <1>4

-----------------------------------------------------------------------------
(* Dispatched jobs: the theorems.                                         *)

\* IInv is inductive.
LEMMA IInvHolds == Spec => []IInv
<1>1. Init => IInv
  <2> SUFFICES ASSUME Init PROVE IInv
    OBVIOUS
  <2> USE DEF Init
  <2>1. TypeOK
    BY DispatchAssumption DEF TypeOK, Queue!Init, Queue!Entry, JobStatus, IsEntity, Entity, Machine,
       Unborn, IdleMachine
  <2>2. FirstInv /\ VerdictInv /\ NoBlindResubmit
    BY DEF FirstInv, VerdictInv, NoBlindResubmit
  <2>3. ConfirmedIsProof /\ StatusFollowsVerdict
    BY DEF ConfirmedIsProof, StatusFollowsVerdict, Unborn, IdleMachine, Corrupt
  <2>4. DoneIsConfirmed
    BY DEF DoneIsConfirmed, Queue!Init, Queue!Entry
  <2> QED
    BY <2>1, <2>2, <2>3, <2>4 DEF IInv
<1>2. IInv /\ [Next]_vars => IInv'
  <2>1. ASSUME IInv, Next PROVE IInv'
    BY Zenon, <2>1, TypeStep, FirstStep, VerdictStep, MachineStep DEF IInv
  <2>2. ASSUME IInv, UNCHANGED vars PROVE IInv'
    BY <2>2 DEF IInv, vars, TypeOK, IsEntity, FirstInv, VerdictInv, NoBlindResubmit, ConfirmedIsProof,
                DoneIsConfirmed, StatusFollowsVerdict, Infallible
  <2> QED
    BY <2>1, <2>2
<1> QED
  BY <1>1, <1>2, PTL DEF Spec

\* "A follow-up never blindly repeats a call": for any number of workers that
\* take the job over from each other, and any retries and crashes, submit runs
\* without a reconcile before it at most once per job.
THEOREM BlindOnce == Spec => []NoBlindResubmit
<1>1. IInv => NoBlindResubmit
  BY DEF IInv
<1> QED
  BY <1>1, IInvHolds, PTL

\* Confirmed is a proof: the call of the job it names reached the external
\* system, whichever execution delivered it.
THEOREM ConfirmedProves == Spec => []ConfirmedIsProof
<1>1. IInv => ConfirmedIsProof
  BY DEF IInv
<1> QED
  BY <1>1, IInvHolds, PTL

\* The ack comes after the delivery: no job is done whose origin has not taken
\* the verdict, and the origin never loses it again.
THEOREM DoneAfterDelivery == Spec => []DoneIsConfirmed
<1>1. IInv => DoneIsConfirmed
  BY DEF IInv
<1> QED
  BY <1>1, IInvHolds, PTL

\* The status of an Order, a SupportTicket or a Desk moves only on a verdict, and
\* no sequence of accepted commands and verdicts fails to replay.
THEOREM StatusFollows == Spec => []StatusFollowsVerdict
<1>1. IInv => StatusFollowsVerdict
  BY DEF IInv
<1> QED
  BY <1>1, IInvHolds, PTL

-----------------------------------------------------------------------------
(* Induction over the naturals, from the well-foundedness of <.            *)

\* A set of naturals has a least element.
LEMMA Least ==
    ASSUME NEW T, T \subseteq Nat, T # {}
    PROVE  \E n \in T : \A m \in T : ~(m < n)
<1>1. IsWellFoundedOn({ss \in Nat \X Nat : ss[1] < ss[2]}, Nat)
  BY NatLessThanWellFounded DEF OpToRel
<1>2. \E x \in T : \A y \in T : ~ (<<y, x>> \in {ss \in Nat \X Nat : ss[1] < ss[2]})
  BY Zenon, <1>1, WFMin
<1> QED
  BY Zenon, <1>2

\* Induction up to n: a set that has 0, and every successor of its members up
\* to n, has all the numbers up to n.
LEMMA UpTo ==
    ASSUME NEW n \in Nat, NEW G, 0 \in G, \A i \in 1..n : i - 1 \in G => i \in G
    PROVE  0..n \subseteq G
<1>1. SUFFICES ASSUME (0..n) \ G # {} PROVE FALSE
  OBVIOUS
<1>2. PICK i \in (0..n) \ G : \A m \in (0..n) \ G : ~(m < i)
  <2>1. (0..n) \ G \subseteq Nat
    OBVIOUS
  <2> QED
    BY Zenon, <1>1, <2>1, Least
<1>3. i \in 1..n /\ i - 1 \in 0..n /\ i - 1 < i
  BY <1>2
<1> QED
  BY Zenon, <1>2, <1>3

\* Two functions that a recursion over 0..n defines from each other's values
\* agree when they agree at 0 and every step keeps them equal.
LEMMA SameFold ==
    ASSUME NEW n \in Nat, NEW F, NEW G, F[0] = G[0],
           \A i \in 1..n : F[i - 1] = G[i - 1] => F[i] = G[i]
    PROVE  F[n] = G[n]
<1>1. 0 \in {i \in 0..n : F[i] = G[i]}
  OBVIOUS
<1>2. ASSUME NEW i \in 1..n, i - 1 \in {j \in 0..n : F[j] = G[j]}
      PROVE  i \in {j \in 0..n : F[j] = G[j]}
  <2>1. i \in 0..n
    OBVIOUS
  <2> QED
    BY Zenon, <1>2, <2>1
<1>3. 0..n \subseteq {i \in 0..n : F[i] = G[i]}
  BY Zenon, <1>1, <1>2, UpTo
<1>4. n \in 0..n
  OBVIOUS
<1> QED
  BY Zenon, <1>3, <1>4

-----------------------------------------------------------------------------
(* The chain of handlers.                                                  *)

\* HasEntity::inject wraps an event as often as there are entities before its
\* own.
LEMMA InjectIs ==
    ASSUME NEW deps, Len(deps) \in Nat, NEW k \in 1..Len(deps), NEW e
    PROVE  Inject(deps, k, e) = [at |-> k - 1, event |-> e]
<1> DEFINE G == [i \in 0..Len(deps) |-> [at |-> i, event |-> e]]
           Eq(f) == f = [i \in 0..Len(deps) |-> IF i = 0 THEN Here(e) ELSE There(f[i - 1])]
           F == CHOOSE f : Eq(f)
<1>1. ASSUME NEW i \in 1..Len(deps) PROVE There(G[i - 1]) = G[i]
  <2>1. i \in 0..Len(deps) /\ i - 1 \in 0..Len(deps) /\ i - 1 + 1 = i
    OBVIOUS
  <2> QED
    BY Zenon, <2>1 DEF There
<1>2. G[0] = Here(e)
  <2>1. 0 \in 0..Len(deps)
    OBVIOUS
  <2> QED
    BY Zenon, <2>1 DEF Here
<1>3. Eq(F)
  <2>1. \A i \in 0..Len(deps) : i # 0 => i \in 1..Len(deps)
    OBVIOUS
  <2>2. Eq(G)
    BY Zenon, <2>1, <1>1, <1>2
  <2> QED
    BY Zenon, <2>2
<1>4. Inject(deps, k, e) = F[k - 1]
  BY Zenon DEF Inject
<1>5. k - 1 \in Nat /\ k - 1 \in 0..Len(deps)
  OBVIOUS
<1>6. F[k - 1] = G[k - 1]
  <2> HIDE DEF F, G
  <2>1. 0 \in 0..Len(deps) /\ \A i \in 1..k - 1 : i \in 0..Len(deps) /\ i \in 1..Len(deps) /\ i # 0
    OBVIOUS
  <2>2. F[0] = G[0] /\ \A i \in 1..k - 1 : F[i] = There(F[i - 1])
    BY Zenon, <1>2, <1>3, <2>1
  <2>3. \A i \in 1..k - 1 : F[i - 1] = G[i - 1] => F[i] = G[i]
    BY Zenon, <1>1, <2>1, <2>2
  <2> QED
    BY Zenon, <1>5, <2>2, <2>3, SameFold
<1> QED
  BY Zenon, <1>4, <1>5, <1>6

\* What an attempt runs for an event of the k-th entity when the handler at
\* position f has a fallback.
Handled(deps, k, f, fails) ==
    IF fails /\ f = k THEN <<deps[k], "fallback">> ELSE <<deps[k]>>

\* Fold::on and on_with_fallback once a handler has been picked,
LEMMA OnDone ==
    ASSUME NEW calls, NEW h, NEW fails
    PROVE  /\ On(Done(calls), h) = Done(calls)
           /\ OnWithFallback(Done(calls), h, "fallback", fails) = Done(calls)
BY DEF On, OnWithFallback, Done

\* at the event's own handler,
LEMMA OnHere ==
    ASSUME NEW one, NEW h, NEW fails, one.at = 0
    PROVE  /\ On(Remaining(one), h) = Done(<<h>>)
           /\ OnWithFallback(Remaining(one), h, "fallback", fails)
                  = Done(IF fails THEN <<h, "fallback">> ELSE <<h>>)
BY DEF On, OnWithFallback, Remaining

\* and before it.
LEMMA OnThere ==
    ASSUME NEW one, NEW h, NEW fails, one.at # 0
    PROVE  /\ On(Remaining(one), h) = Remaining(Unwrap(one))
           /\ OnWithFallback(Remaining(one), h, "fallback", fails) = Remaining(Unwrap(one))
BY DEF On, OnWithFallback, Remaining

\* The chain of OneOf::on and Fold::on picks the handler of the event's own
\* entity, for dependency lists of any length.
THEOREM ExhaustiveIs ==
    ASSUME NEW deps, Len(deps) \in Nat, NEW k \in 1..Len(deps), NEW e,
           NEW f, NEW fails \in BOOLEAN
    PROVE  Exhaustive(deps, [at |-> k - 1, event |-> e], f, fails) = Handled(deps, k, f, fails)
<1> DEFINE one(n) == [at |-> k - 1 - n, event |-> e]
           G == [n \in 0..Len(deps) |-> IF n < k THEN Remaining(one(n))
                                        ELSE Done(Handled(deps, k, f, fails))]
           Step(g, n) == IF n = f THEN OnWithFallback(g, deps[n], "fallback", fails)
                         ELSE On(g, deps[n])
           Eq(g) == g = [n \in 0..Len(deps) |-> IF n = 0 THEN Remaining([at |-> k - 1, event |-> e])
                                                ELSE Step(g[n - 1], n)]
           F == CHOOSE g : Eq(g)
<1>1. ASSUME NEW n \in 1..Len(deps) PROVE Step(G[n - 1], n) = G[n]
  <2>1. n \in 0..Len(deps) /\ n - 1 \in 0..Len(deps)
    OBVIOUS
  <2>2. CASE n < k
    <3>1. n - 1 < k /\ k - 1 - (n - 1) # 0 /\ k - 1 - (n - 1) - 1 = k - 1 - n
      BY <2>2
    <3>2. G[n - 1] = Remaining(one(n - 1)) /\ G[n] = Remaining(one(n))
      BY Zenon, <2>1, <2>2, <3>1
    <3>3. Unwrap(one(n - 1)) = one(n)
      BY Zenon, <3>1 DEF Unwrap
    <3>4. PICK x, h : x = one(n - 1) /\ h = deps[n]
      BY Zenon
    <3>5. x.at # 0 /\ Unwrap(x) = one(n)
      BY Zenon, <3>1, <3>3, <3>4
    <3>6. /\ On(Remaining(x), h) = Remaining(Unwrap(x))
          /\ OnWithFallback(Remaining(x), h, "fallback", fails) = Remaining(Unwrap(x))
      BY Zenon, <3>5, OnThere
    <3> HIDE DEF one, G
    <3> QED
      BY Zenon, <3>2, <3>4, <3>5, <3>6
  <2>3. CASE n = k
    <3>1. n - 1 < k /\ ~(n < k) /\ k - 1 - (n - 1) = 0
      BY <2>3
    <3>2. G[n - 1] = Remaining(one(n - 1)) /\ G[n] = Done(Handled(deps, k, f, fails))
      BY Zenon, <2>1, <3>1
    <3>3. PICK x, h : x = one(n - 1) /\ h = deps[n]
      BY Zenon
    <3>4. x.at = 0
      BY Zenon, <3>1, <3>3
    <3>5. /\ On(Remaining(x), h) = Done(<<h>>)
          /\ OnWithFallback(Remaining(x), h, "fallback", fails)
                 = Done(IF fails THEN <<h, "fallback">> ELSE <<h>>)
      BY Zenon, <3>4, OnHere
    <3> HIDE DEF one, G
    <3> QED
      BY Zenon, <2>3, <3>2, <3>3, <3>5 DEF Handled
  <2>4. CASE n > k
    <3>1. ~(n - 1 < k) /\ ~(n < k)
      BY <2>4
    <3>2. G[n - 1] = Done(Handled(deps, k, f, fails)) /\ G[n] = G[n - 1]
      BY Zenon, <2>1, <3>1
    <3>3. PICK c, h : c = Handled(deps, k, f, fails) /\ h = deps[n]
      BY Zenon
    <3>4. On(Done(c), h) = Done(c) /\ OnWithFallback(Done(c), h, "fallback", fails) = Done(c)
      BY Zenon, OnDone
    <3> HIDE DEF G
    <3> QED
      BY Zenon, <3>2, <3>3, <3>4
  <2> QED
    BY <2>2, <2>3, <2>4
<1>2. G[0] = Remaining([at |-> k - 1, event |-> e])
  <2>1. 0 \in 0..Len(deps) /\ 0 < k /\ k - 1 - 0 = k - 1
    OBVIOUS
  <2> QED
    BY Zenon, <2>1
<1>3. Eq(F)
  <2>1. \A n \in 0..Len(deps) : n # 0 => n \in 1..Len(deps)
    OBVIOUS
  <2>2. Eq(G)
    <3> HIDE DEF Step
    <3> QED
      BY Zenon, <2>1, <1>1, <1>2
  <2> QED
    BY Zenon, <2>2
<1>4. Exhaustive(deps, [at |-> k - 1, event |-> e], f, fails) = F[Len(deps)].calls
  BY Zenon DEF Exhaustive
<1>5. F[Len(deps)] = G[Len(deps)]
  <2> HIDE DEF F, G, Step
  <2>1. 0 \in 0..Len(deps) /\ \A n \in 1..Len(deps) : n \in 0..Len(deps) /\ n # 0
    OBVIOUS
  <2>2. F[0] = G[0] /\ \A n \in 1..Len(deps) : F[n] = Step(F[n - 1], n)
    BY Zenon, <1>2, <1>3, <2>1
  <2>3. \A n \in 1..Len(deps) : F[n - 1] = G[n - 1] => F[n] = G[n]
    BY Zenon, <1>1, <2>2
  <2> QED
    BY Zenon, <2>2, <2>3, SameFold
<1>6. Len(deps) \in 0..Len(deps) /\ ~(Len(deps) < k)
  OBVIOUS
<1>7. G[Len(deps)] = Done(Handled(deps, k, f, fails))
  BY Zenon, <1>6
<1>8. \A calls : Done(calls).calls = calls
  BY DEF Done
<1> HIDE DEF F, G
<1> QED
  BY Zenon, <1>4, <1>5, <1>7, <1>8

-----------------------------------------------------------------------------
(* What is retried.                                                        *)

\* The nodes of an error's chain: its wrappings, then the database error.
LEMMA ChainIs ==
    ASSUME NEW error \in Errors
    PROVE  \E m \in Nat :
              /\ DOMAIN error.wrapped = 1..m
              /\ Len(ErrorChain(error)) = m + 1
              /\ \A i \in 1..m : /\ ErrorChain(error)[i] = Wrapping(error.wrapped[i])
                                 /\ error.wrapped[i] \in {"source", "persistence", "sealed"}
              /\ ErrorChain(error)[m + 1] = Database(error.code)
<1>1. PICK m \in 0..2 : error.wrapped \in [1..m -> {"source", "persistence", "sealed"}]
  BY Zenon DEF Errors
<1>2. m \in Nat
  OBVIOUS
<1>3. DOMAIN error.wrapped = 1..m
  BY Zenon, <1>1
<1>4. PICK last : last = Database(error.code)
  BY Zenon
<1> DEFINE Node == {Wrapping(kind) : kind \in {"source", "persistence", "sealed"}} \cup {last}
           head == [n \in 1..m |-> Wrapping(error.wrapped[n])]
<1>5. head \in Seq(Node) /\ Len(head) = m
  <2>1. \A n \in 1..m : Wrapping(error.wrapped[n]) \in Node
    BY Zenon, <1>1
  <2>2. head \in [1..m -> Node]
    BY Zenon, <2>1
  <2> HIDE DEF head, Node
  <2> QED
    BY <1>2, <2>2
<1>6. last \in Node
  BY Zenon
<1>7. <<last>> \in Seq(Node) /\ Len(<<last>>) = 1 /\ <<last>>[1] = last
  <2> HIDE DEF Node
  <2> QED
    BY <1>6
<1>8. ErrorChain(error) = head \o <<last>>
  BY Zenon, <1>3, <1>4 DEF ErrorChain
<1>9. PICK tail : tail = <<last>> /\ tail \in Seq(Node) /\ Len(tail) = 1 /\ tail[1] = last
  BY Zenon, <1>7
<1>10. /\ Len(head \o tail) = Len(head) + Len(tail)
       /\ \A i \in 1..Len(head) + Len(tail) :
             (head \o tail)[i] = IF i <= Len(head) THEN head[i] ELSE tail[i - Len(head)]
  <2> HIDE DEF head, Node
  <2> QED
    BY <1>5, <1>9, ConcatProperties
<1>11. /\ m + 1 \in 1..m + 1 /\ ~(m + 1 <= m) /\ m + 1 - m = 1
       /\ \A i \in 1..m : i \in 1..m + 1 /\ i <= m
  BY <1>2
<1>12. Len(head) = m /\ \A i \in 1..m : head[i] = Wrapping(error.wrapped[i])
  BY Zenon, <1>5
<1>13. \A i \in 1..m : error.wrapped[i] \in {"source", "persistence", "sealed"}
  BY Zenon, <1>1
<1>14. /\ Len(head \o tail) = m + 1 /\ (head \o tail)[m + 1] = last
       /\ \A i \in 1..m : (head \o tail)[i] = head[i]
  <2> HIDE DEF head
  <2> QED
    <3>1. Len(head \o tail) = m + 1
      BY Zenon, <1>9, <1>10, <1>12
    <3>2. (head \o tail)[m + 1] = IF m + 1 <= m THEN head[m + 1] ELSE tail[m + 1 - m]
      BY SMT, <1>9, <1>10, <1>11, <1>12
    <3>3. \A i \in 1..m : (head \o tail)[i] = IF i <= m THEN head[i] ELSE tail[i - m]
      BY Zenon, <1>9, <1>10, <1>11, <1>12
    <3> QED
      BY Zenon, <1>9, <1>11, <3>1, <3>2, <3>3
<1> HIDE DEF head
<1> QED
  BY Zenon, <1>2, <1>3, <1>4, <1>8, <1>9, <1>12, <1>13, <1>14

\* is_busy_extended_code tells the busy codes from the others.
LEMMA BusyCode ==
    ASSUME NEW error \in Errors
    PROVE  is_busy_extended_code(error.code) <=> error.code \in BusyCodes
<1>1. error.code \in {5, 261, 517, 773, 1, 6, 8}
  <2>1. error.code \in BusyCodes \cup {1, 6, 8}
    BY Zenon DEF Errors
  <2> QED
    BY <2>1 DEF BusyCodes
<1>2. /\ 5 % 256 = 5 /\ 261 % 256 = 5 /\ 517 % 256 = 5 /\ 773 % 256 = 5
      /\ 1 % 256 = 1 /\ 6 % 256 = 6 /\ 8 % 256 = 8
  OBVIOUS
<1> QED
  BY <1>1, <1>2 DEF is_busy_extended_code, BusyCodes

\* is_retryable_sqlite_busy walks to the database error through every wrapping
\* that leads to its source, and judges by its code: an error is retried exactly
\* when its cause is a busy database.
LEMMA RetryableIsBusy ==
    ASSUME NEW error \in Errors
    PROVE  IsRetryable(ErrorChain(error)) <=> Cause(error) = "busy"
<1>1. PICK m \in Nat :
          /\ DOMAIN error.wrapped = 1..m
          /\ Len(ErrorChain(error)) = m + 1
          /\ \A i \in 1..m : /\ ErrorChain(error)[i] = Wrapping(error.wrapped[i])
                             /\ error.wrapped[i] \in {"source", "persistence", "sealed"}
          /\ ErrorChain(error)[m + 1] = Database(error.code)
  BY Zenon, ChainIs
<1>2. PICK chain : chain = ErrorChain(error)
  BY Zenon
<1> DEFINE Busy == error.code \in BusyCodes
           Leads(n) == n <= m + 1 /\ Busy /\ \A i \in n..m : error.wrapped[i] # "sealed"
           Step(f, n) ==
               /\ n <= Len(chain)
               /\ chain[n].kind # "sealed"
               /\ \/ chain[n].kind = "database" /\ is_busy_extended_code(chain[n].code)
                  \/ f[n + 1]
           G == [n \in 1..Len(chain) + 1 |-> Leads(n)]
           Eq(f) == f = [n \in 1..Len(chain) + 1 |-> Step(f, n)]
           F == CHOOSE f : Eq(f)
<1>3. /\ Len(chain) = m + 1 /\ Len(chain) + 1 = m + 2
      /\ \A i \in 1..m : chain[i] = Wrapping(error.wrapped[i])
      /\ chain[m + 1] = Database(error.code)
  <2>1. Len(chain) = m + 1
    BY Zenon, <1>1, <1>2
  <2> QED
    BY <1>1, <1>2, <2>1
<1>4. chain[m + 1].kind = "database" /\ chain[m + 1].code = error.code
  BY <1>3 DEF Database
<1>5. \A i \in 1..m : chain[i].kind = error.wrapped[i]
  <2>1. \A kind : Wrapping(kind).kind = kind
    BY DEF Wrapping
  <2> QED
    BY Zenon, <1>3, <2>1
<1>6. is_busy_extended_code(error.code) <=> Busy
  BY Zenon, BusyCode
<1>7. ASSUME NEW f, NEW n \in 1..m + 1, f[n + 1] = Leads(n + 1)
      PROVE  Step(f, n) = Leads(n)
  <2>1. CASE n = m + 1
    <3>1. n <= Len(chain) /\ ~(n + 1 <= m + 1) /\ n <= m + 1 /\ n..m = {}
      BY <1>3, <2>1
    <3>2. Step(f, n) <=> (is_busy_extended_code(error.code) \/ f[n + 1])
      BY Zenon, <1>4, <2>1, <3>1
    <3>3. (Leads(n) <=> Busy) /\ ~Leads(n + 1)
      BY SMT, <3>1
    <3>4. f[n + 1] = FALSE
      BY Zenon, <1>7, <3>3
    <3> QED
      BY Zenon, <1>6, <3>2, <3>3, <3>4
  <2>2. CASE n # m + 1
    <3>1. n <= Len(chain) /\ n \in 1..m /\ n <= m + 1 /\ n + 1 <= m + 1
          /\ \A i : i \in n..m <=> i = n \/ i \in n + 1..m
      BY <1>3, <2>2
    <3>2. chain[n].kind = error.wrapped[n]
          /\ error.wrapped[n] \in {"source", "persistence", "sealed"}
      BY Zenon, <1>1, <1>5, <3>1
    <3> QED
      BY Zenon, <1>7, <3>1, <3>2
  <2> QED
    BY Zenon, <2>1, <2>2
<1>8. ASSUME NEW f PROVE Step(f, m + 2) = Leads(m + 2)
  <2>1. ~(m + 2 <= Len(chain)) /\ ~(m + 2 <= m + 1)
    BY <1>3
  <2> QED
    BY Zenon, <2>1
<1>9. \A n \in 1..m + 2 : n = m + 2 \/ (n \in 1..m + 1 /\ n + 1 \in 1..m + 2)
  OBVIOUS
<1>10. DOMAIN G = 1..m + 2 /\ \A n \in 1..m + 2 : G[n] = Leads(n)
  BY Zenon, <1>3
<1>11. Eq(F)
  <2>1. ASSUME NEW n \in 1..m + 2 PROVE Step(G, n) = Leads(n)
    <3>1. CASE n = m + 2
      BY Zenon, <1>8, <3>1
    <3>2. CASE n \in 1..m + 1 /\ n + 1 \in 1..m + 2
      <4>1. G[n + 1] = Leads(n + 1)
        BY Zenon, <1>10, <3>2
      <4> HIDE DEF G, Step, Leads
      <4> QED
        BY Zenon, <1>7, <3>2, <4>1
    <3> QED
      BY Zenon, <1>9, <3>1, <3>2
  <2>2. Eq(G)
    <3> HIDE DEF Step, Leads
    <3> QED
      BY Zenon, <1>3, <2>1
  <2> QED
    BY Zenon, <2>2
<1>12. IsRetryable(ErrorChain(error)) = F[1]
  <2>1. IsRetryable(chain) = F[1]
    BY Zenon DEF IsRetryable
  <2> QED
    BY Zenon, <1>2, <2>1
<1>13. F[1] = Leads(1)
  <2> DEFINE P == [i \in 0..m + 1 |-> F[m + 2 - i]]
             Q == [i \in 0..m + 1 |-> Leads(m + 2 - i)]
  <2> HIDE DEF F, G, Step, Leads
  <2>1. \A n \in 1..m + 2 : F[n] = Step(F, n)
    BY Zenon, <1>3, <1>11
  <2>2. /\ 0 \in 0..m + 1 /\ m + 2 - 0 = m + 2 /\ m + 2 \in 1..m + 2 /\ m + 1 \in Nat
        /\ m + 1 \in 0..m + 1 /\ m + 2 - (m + 1) = 1
    OBVIOUS
  <2>3. P[0] = F[m + 2] /\ Q[0] = Leads(m + 2)
    BY Zenon, <2>2
  <2>4. P[0] = Q[0]
    BY Zenon, <1>8, <2>1, <2>2, <2>3
  <2>5. ASSUME NEW i \in 1..m + 1, P[i - 1] = Q[i - 1] PROVE P[i] = Q[i]
    <3>1. PICK n : n = m + 2 - i
      BY Zenon
    <3>2. /\ i \in 0..m + 1 /\ i - 1 \in 0..m + 1 /\ m + 2 - (i - 1) = n + 1
          /\ n \in 1..m + 1 /\ n \in 1..m + 2
      BY <3>1
    <3>3. F[n + 1] = Leads(n + 1)
      BY Zenon, <2>5, <3>2
    <3>4. F[n] = Leads(n)
      BY Zenon, <1>7, <2>1, <3>2, <3>3
    <3> QED
      BY Zenon, <3>1, <3>2, <3>4
  <2>6. P[m + 1] = Q[m + 1]
    <3> HIDE DEF P, Q
    <3> QED
      BY Zenon, <2>2, <2>4, <2>5, SameFold
  <2> QED
    BY Zenon, <2>2, <2>6
<1>14. 1 <= m + 1
  OBVIOUS
<1>15. Leads(1) <=> Cause(error) = "busy"
  BY Zenon, <1>1, <1>14 DEF Cause
<1> HIDE DEF F, Leads
<1> QED
  BY Zenon, <1>12, <1>13, <1>15

-----------------------------------------------------------------------------
(* The delays.                                                             *)

\* Doubling up to w is well defined.
LEMMA Doubles ==
    ASSUME NEW w \in Nat
    PROVE  \E f : f = [n \in 0..w |-> IF n = 0 THEN 1 ELSE 2 * f[n - 1]]
<1> DEFINE Eq(f, v) == f = [n \in 0..v |-> IF n = 0 THEN 1 ELSE 2 * f[n - 1]]
           G == {v \in 0..w : \E f : Eq(f, v)}
<1>1. 0 \in G
  <2> DEFINE f == [n \in 0..0 |-> 1]
  <2>1. \A n \in 0..0 : n = 0
    OBVIOUS
  <2>2. Eq(f, 0)
    BY Zenon, <2>1
  <2>3. 0 \in 0..w
    OBVIOUS
  <2> QED
    BY Zenon, <2>2, <2>3
<1>2. ASSUME NEW i \in 1..w, i - 1 \in G PROVE i \in G
  <2>1. PICK f : Eq(f, i - 1)
    BY Zenon, <1>2
  <2> DEFINE g == [n \in 0..i |-> IF n = i THEN 2 * f[i - 1] ELSE f[n]]
  <2>2. /\ i \in 0..w /\ i # 0 /\ i - 1 # i /\ i - 1 \in 0..i
        /\ \A n \in 0..i : n # i => n \in 0..i - 1
        /\ \A n \in 0..i : n # i /\ n # 0 => n - 1 # i /\ n - 1 \in 0..i
    OBVIOUS
  <2>3. ASSUME NEW n \in 0..i PROVE g[n] = IF n = 0 THEN 1 ELSE 2 * g[n - 1]
    <3>1. CASE n = i
      BY Zenon, <2>2, <3>1
    <3>2. CASE n # i
      <4>1. g[n] = f[n] /\ f[n] = IF n = 0 THEN 1 ELSE 2 * f[n - 1]
        BY Zenon, <2>1, <2>2, <3>2
      <4>2. n # 0 => g[n - 1] = f[n - 1]
        BY Zenon, <2>2, <3>2
      <4> QED
        BY Zenon, <4>1, <4>2
    <3> QED
      BY Zenon, <3>1, <3>2
  <2>4. Eq(g, i)
    BY Zenon, <2>3
  <2> QED
    BY Zenon, <2>2, <2>4
<1>3. w \in G
  <2>1. 0..w \subseteq G
    <3> HIDE DEF G
    <3> QED
      BY Zenon, <1>1, <1>2, UpTo
  <2>2. w \in 0..w
    OBVIOUS
  <2> QED
    BY Zenon, <2>1, <2>2
<1> QED
  BY Zenon, <1>3

\* So is adding up w numbers.
LEMMA AddsUp ==
    ASSUME NEW w \in Nat, NEW d
    PROVE  \E f : f = [n \in 0..w |-> IF n = 0 THEN 0 ELSE f[n - 1] + d[n]]
<1> DEFINE Eq(f, v) == f = [n \in 0..v |-> IF n = 0 THEN 0 ELSE f[n - 1] + d[n]]
           G == {v \in 0..w : \E f : Eq(f, v)}
<1>1. 0 \in G
  <2> DEFINE f == [n \in 0..0 |-> 0]
  <2>1. \A n \in 0..0 : n = 0
    OBVIOUS
  <2>2. Eq(f, 0)
    BY Zenon, <2>1
  <2>3. 0 \in 0..w
    OBVIOUS
  <2> QED
    BY Zenon, <2>2, <2>3
<1>2. ASSUME NEW i \in 1..w, i - 1 \in G PROVE i \in G
  <2>1. PICK f : Eq(f, i - 1)
    BY Zenon, <1>2
  <2> DEFINE g == [n \in 0..i |-> IF n = i THEN f[i - 1] + d[i] ELSE f[n]]
  <2>2. /\ i \in 0..w /\ i # 0 /\ i - 1 # i /\ i - 1 \in 0..i
        /\ \A n \in 0..i : n # i => n \in 0..i - 1
        /\ \A n \in 0..i : n # i /\ n # 0 => n - 1 # i /\ n - 1 \in 0..i
    OBVIOUS
  <2>3. ASSUME NEW n \in 0..i PROVE g[n] = IF n = 0 THEN 0 ELSE g[n - 1] + d[n]
    <3>1. CASE n = i
      BY Zenon, <2>2, <3>1
    <3>2. CASE n # i
      <4>1. g[n] = f[n] /\ f[n] = IF n = 0 THEN 0 ELSE f[n - 1] + d[n]
        BY Zenon, <2>1, <2>2, <3>2
      <4>2. n # 0 => g[n - 1] = f[n - 1]
        BY Zenon, <2>2, <3>2
      <4> QED
        BY Zenon, <4>1, <4>2
    <3> QED
      BY Zenon, <3>1, <3>2
  <2>4. Eq(g, i)
    BY Zenon, <2>3
  <2> QED
    BY Zenon, <2>2, <2>4
<1>3. w \in G
  <2>1. 0..w \subseteq G
    <3> HIDE DEF G
    <3> QED
      BY Zenon, <1>1, <1>2, UpTo
  <2>2. w \in 0..w
    OBVIOUS
  <2> QED
    BY Zenon, <2>1, <2>2
<1> QED
  BY Zenon, <1>3

\* Power doubles at every step.
LEMMA PowerIs ==
    /\ Power[0] = 1
    /\ \A n \in 1..Width : Power[n] = 2 * Power[n - 1]
    /\ \A n \in 0..Width : Power[n] \in Nat /\ Power[n] # 0
<1>1. Width \in Nat
  BY Zenon, ReactorsAssumption
<1>2. Power = [n \in 0..Width |-> IF n = 0 THEN 1 ELSE 2 * Power[n - 1]]
  BY Zenon, <1>1, Doubles DEF Power
<1>3. 0 \in 0..Width /\ \A n \in 1..Width : n \in 0..Width /\ n # 0
  BY <1>1
<1>4. Power[0] = 1 /\ \A n \in 1..Width : Power[n] = 2 * Power[n - 1]
  BY Zenon, <1>2, <1>3
<1>5. 0..Width \subseteq {n \in 0..Width : Power[n] \in Nat /\ Power[n] # 0}
  <2> DEFINE G == {n \in 0..Width : Power[n] \in Nat /\ Power[n] # 0}
  <2>1. 0 \in G
    BY <1>3, <1>4
  <2>2. ASSUME NEW i \in 1..Width, i - 1 \in G PROVE i \in G
    <3>1. Power[i - 1] \in Nat /\ Power[i - 1] # 0 /\ Power[i] = 2 * Power[i - 1] /\ i \in 0..Width
      BY Zenon, <1>3, <1>4, <2>2
    <3>2. Power[i] \in Nat /\ Power[i] # 0
      BY <3>1
    <3> QED
      BY Zenon, <3>1, <3>2
  <2> HIDE DEF G
  <2>3. 0..Width \subseteq G
    BY Zenon, <1>1, <2>1, <2>2, UpTo
  <2> QED
    BY Zenon, <2>3 DEF G
<1> QED
  BY Zenon, <1>4, <1>5

\* A power that fits is not the one that stands for those that do not.
LEMMA PowerFits ==
    ASSUME NEW n \in 0..Width, n < Width
    PROVE  Power[n] # Unrepresentable
<1>1. Width \in Nat
  BY Zenon, ReactorsAssumption
<1> DEFINE G == {i \in 0..Width : n < i => Power[n] < Power[i]}
<1>2. 0 \in G
  BY <1>1
<1>3. ASSUME NEW i \in 1..Width, i - 1 \in G PROVE i \in G
  <2>1. i - 1 \in 0..Width /\ i \in 0..Width
    BY <1>1
  <2>2. PICK p \in Nat : p = Power[n]
    BY Zenon, PowerIs
  <2>3. PICK q \in Nat : q = Power[i - 1] /\ q # 0 /\ Power[i] = 2 * q
    BY Zenon, <2>1, PowerIs
  <2>4. n < i - 1 => p < q
    BY Zenon, <1>3, <2>2, <2>3
  <2>5. n = i - 1 => p = q
    BY Zenon, <2>2, <2>3
  <2>6. n < i => p < 2 * q
    BY <1>1, <2>1, <2>3, <2>4, <2>5
  <2> QED
    BY Zenon, <2>1, <2>2, <2>3, <2>6
<1>4. 0..Width \subseteq G
  <2> HIDE DEF G
  <2> QED
    BY Zenon, <1>1, <1>2, <1>3, UpTo
<1>5. Width \in 0..Width
  BY <1>1
<1>6. Power[n] < Power[Width] /\ Power[n] \in Nat /\ Power[Width] \in Nat
  BY Zenon, <1>4, <1>5, PowerIs
<1> QED
  BY <1>6 DEF Unrepresentable

\* backoff_delay_ms never passes the cap and never shrinks from one attempt to
\* the next, also where the exponential term stops fitting.
THEOREM BackoffGrows ==
    ASSUME NEW a \in Nat
    PROVE  LET delay(n) == backoff_delay_ms(n, BaseDelay, MaxDelay)
           IN  delay(a) \in Nat /\ delay(a) <= MaxDelay /\ delay(a) <= delay(a + 1)
<1> DEFINE delay(n) == backoff_delay_ms(n, BaseDelay, MaxDelay)
           term(n) == CheckedMul(BaseDelay, CheckedPow(n))
<1>1. BaseDelay \in Nat /\ MaxDelay \in Nat /\ Width \in Nat
  BY Zenon, ReactorsAssumption
<1>2. Unrepresentable \in Nat
  <2>1. Width \in 0..Width
    BY <1>1
  <2> QED
    BY Zenon, <2>1, PowerIs DEF Unrepresentable
<1>3. ASSUME NEW n \in Nat PROVE CheckedPow(n) \in Nat
  <2>1. n < Width => n \in 0..Width
    BY <1>1
  <2> QED
    BY Zenon, <1>2, <2>1, PowerIs DEF CheckedPow
<1>4. ASSUME NEW n \in Nat PROVE term(n) \in Nat
  <2>1. CheckedPow(n) \in Nat
    BY Zenon, <1>3
  <2>2. BaseDelay * CheckedPow(n) \in Nat
    BY <1>1, <2>1
  <2> QED
    BY Zenon, <1>2, <2>2 DEF CheckedMul
<1>5. ASSUME NEW n \in Nat PROVE delay(n) \in Nat /\ delay(n) <= MaxDelay
  <2>1. PICK t \in Nat : t = term(n)
    BY Zenon, <1>4
  <2>2. delay(n) = IF t # Unrepresentable /\ t < MaxDelay THEN t ELSE MaxDelay
    BY Zenon, <2>1 DEF backoff_delay_ms
  <2> QED
    BY <1>1, <1>2, <2>2
<1>6. CASE term(a + 1) # Unrepresentable /\ term(a + 1) < MaxDelay
  <2>1. CheckedPow(a + 1) # Unrepresentable
    BY Zenon, <1>6 DEF CheckedMul
  <2>2. a + 1 < Width
    BY Zenon, <2>1 DEF CheckedPow
  <2>3. a + 1 \in 1..Width /\ a \in 0..Width /\ a < Width /\ a + 1 - 1 = a
    BY <1>1, <2>2
  <2>4. PICK p \in Nat : p = Power[a]
    BY Zenon, <2>3, PowerIs
  <2>5. CheckedPow(a) = p /\ CheckedPow(a + 1) = 2 * p
    <3>1. Power[a + 1] = 2 * Power[a]
      <4>1. PICK n : n = a + 1
        BY Zenon
      <4>2. n \in 1..Width /\ n - 1 = a
        BY <2>3, <4>1
      <4>3. Power[n] = 2 * Power[n - 1]
        BY Zenon, <4>2, PowerIs
      <4> QED
        BY Zenon, <4>1, <4>2, <4>3
    <3> QED
      BY Zenon, <2>2, <2>3, <2>4, <3>1 DEF CheckedPow
  <2>6. PICK b \in Nat : b = BaseDelay
    BY Zenon, <1>1
  <2>7. b * p \in Nat /\ b * (2 * p) \in Nat /\ b * p <= b * (2 * p) /\ p <= 2 * p
    OBVIOUS
  <2>8. term(a + 1) = b * (2 * p) /\ ~(b * (2 * p) >= Unrepresentable)
    BY Zenon, <1>6, <2>5, <2>6 DEF CheckedMul
  <2>9. term(a) = b * p
    <3>1. ~(b * p >= Unrepresentable)
      BY <1>2, <2>7, <2>8
    <3>2. p # Unrepresentable
      BY Zenon, <2>3, <2>4, PowerFits
    <3> QED
      BY Zenon, <2>5, <2>6, <3>1, <3>2 DEF CheckedMul
  <2>10. delay(a + 1) = b * (2 * p)
    BY Zenon, <1>6, <2>8 DEF backoff_delay_ms
  <2>11. delay(a) = b * p
    <3>1. b * p # Unrepresentable /\ b * p < MaxDelay
      <4>1. PICK x \in Nat, y \in Nat : x = b * p /\ y = b * (2 * p)
        BY Zenon, <2>7
      <4>2. x <= y /\ y < MaxDelay /\ ~(y >= Unrepresentable)
        BY Zenon, <1>6, <2>7, <2>8, <4>1
      <4>3. x # Unrepresentable /\ x < MaxDelay
        BY <1>1, <1>2, <4>2
      <4> QED
        BY Zenon, <4>1, <4>3
    <3> QED
      BY Zenon, <2>9, <3>1 DEF backoff_delay_ms
  <2> HIDE DEF delay
  <2> QED
    BY Zenon, <1>5, <2>7, <2>10, <2>11 DEF delay
<1>7. CASE ~(term(a + 1) # Unrepresentable /\ term(a + 1) < MaxDelay)
  <2>1. delay(a + 1) = MaxDelay
    BY Zenon, <1>7 DEF backoff_delay_ms
  <2> QED
    BY Zenon, <1>5, <2>1
<1> QED
  BY Zenon, <1>6, <1>7

\* A schedule that begins like another and is no longer sleeps no longer, and
\* as long if it is not shorter.
LEMMA PrefixSleeps ==
    ASSUME NEW d \in Seq(Nat), NEW s \in Seq(Nat), Len(d) <= Len(s),
           \A n \in 1..Len(d) : d[n] = s[n]
    PROVE  Slept(d) <= Slept(s) /\ (Len(d) = Len(s) => Slept(d) = Slept(s))
<1>1. PICK v \in Nat, w \in Nat : v = Len(d) /\ w = Len(s)
  BY Zenon, LenProperties
<1> DEFINE Eq(f, e) == f = [n \in 0..Len(e) |-> IF n = 0 THEN 0 ELSE f[n - 1] + e[n]]
           F == CHOOSE f : Eq(f, d)
           H == CHOOSE f : Eq(f, s)
<1>2. Slept(d) = F[Len(d)] /\ Slept(s) = H[Len(s)]
  BY Zenon DEF Slept
<1>3. Eq(F, d) /\ Eq(H, s)
  <2>1. (\E f : Eq(f, d)) /\ (\E f : Eq(f, s))
    BY Zenon, <1>1, AddsUp
  <2> QED
    BY Zenon, <2>1
<1> HIDE DEF F, H
<1>4. /\ F[0] = 0 /\ \A n \in 1..v : F[n] = F[n - 1] + d[n]
      /\ H[0] = 0 /\ \A n \in 1..w : H[n] = H[n - 1] + s[n]
  <2>1. 0 \in 0..v /\ 0 \in 0..w
    OBVIOUS
  <2>2. (\A n \in 1..v : n \in 0..v /\ n # 0) /\ (\A n \in 1..w : n \in 0..w /\ n # 0)
    OBVIOUS
  <2> QED
    BY Zenon, <1>1, <1>3, <2>1, <2>2
<1>5. \A n \in 1..v : n \in 1..w
  BY <1>1
<1>6. F[v] = H[v]
  <2>1. F[0] = H[0] /\ \A n \in 1..v : F[n - 1] = H[n - 1] => F[n] = H[n]
    BY Zenon, <1>1, <1>4, <1>5
  <2> QED
    BY Zenon, <2>1, SameFold
<1> DEFINE G == {n \in 0..w : H[n] \in Nat}
<1>7. \A n \in 0..w : H[n] \in Nat
  <2>1. 0 \in G
    BY <1>4
  <2>2. ASSUME NEW n \in 1..w, n - 1 \in G PROVE n \in G
    <3>1. n \in 0..w
      OBVIOUS
    <3>2. s[n] \in Nat
      BY Zenon, <1>1, ElementOfSeq
    <3>3. H[n - 1] \in Nat /\ H[n] = H[n - 1] + s[n]
      BY Zenon, <1>4, <2>2
    <3>4. H[n] \in Nat
      BY <3>2, <3>3
    <3> QED
      BY Zenon, <3>1, <3>4
  <2>3. 0..w \subseteq G
    <3> HIDE DEF G
    <3> QED
      BY Zenon, <2>1, <2>2, UpTo
  <2> QED
    BY Zenon, <2>3
<1> DEFINE B == {n \in 0..w : v <= n => H[v] <= H[n]}
<1>8. 0..w \subseteq B
  <2>0. v \in 0..w
    BY <1>1
  <2>1. 0 \in B
    <3>1. 0 \in 0..w /\ (v <= 0 => v = 0) /\ H[0] <= H[0]
      BY <1>4
    <3> QED
      BY Zenon, <3>1
  <2>2. ASSUME NEW n \in 1..w, n - 1 \in B PROVE n \in B
    <3>1. n \in 0..w /\ n - 1 \in 0..w /\ (v <= n => v <= n - 1 \/ v = n)
      OBVIOUS
    <3>2. s[n] \in Nat
      BY Zenon, <1>1, ElementOfSeq
    <3>3. PICK x \in Nat, y \in Nat, z \in Nat : x = H[v] /\ y = H[n - 1] /\ z = s[n]
      BY Zenon, <1>7, <2>0, <3>1, <3>2
    <3>4. H[n] = y + z
      BY Zenon, <1>4, <3>3
    <3>5. v <= n - 1 => x <= y
      BY Zenon, <2>2, <3>3
    <3>6. v = n => x = y + z
      BY Zenon, <3>3, <3>4
    <3>7. v <= n => x <= y + z
      BY <3>1, <3>5, <3>6
    <3> QED
      BY Zenon, <3>1, <3>3, <3>4, <3>7
  <2> HIDE DEF B
  <2> QED
    BY Zenon, <2>1, <2>2, UpTo
<1>9. H[v] <= H[w]
  <2>1. w \in 0..w /\ v <= w
    BY <1>1
  <2> QED
    BY Zenon, <1>8, <2>1
<1> QED
  BY Zenon, <1>1, <1>2, <1>6, <1>9

-----------------------------------------------------------------------------
(* The inventory.                                                          *)

\* The inventory does not exist or has a quantity a u32 can hold.
InventoryInv == inventory = Absent \/ \E n \in 0..MaxUnits : inventory = OnHand(n)

\* Whatever the inventory decides it can apply, and stays in range: the checks
\* of transition are those of evolve.
LEMMA DecidedApplies ==
    ASSUME InventoryInv, NEW cmd \in InventoryCommands, InventoryDecide(inventory, cmd) # Refused
    PROVE  \E n \in 0..MaxUnits :
              InventoryApply(inventory, InventoryDecide(inventory, cmd)) = OnHand(n)
<1>1. cmd.type \in {"Initialize", "Restock", "Consume"} /\ cmd.n \in 0..MaxUnits
  BY Zenon DEF InventoryCommands
<1>2. MaxUnits \in Nat
  BY Zenon, ReactorsAssumption
<1>3. PICK e : e = InventoryDecide(inventory, cmd)
  BY Zenon
<1>4. CASE inventory = Absent
  <2>1. inventory.exists = FALSE
    BY <1>4 DEF Absent
  <2>2. e = InventoryInitialize(cmd)
    BY Zenon, <1>3, <2>1 DEF InventoryDecide
  <2>3. e = [type |-> "Initialized", n |-> cmd.n]
    BY Zenon, <1>3, <2>2 DEF InventoryInitialize
  <2>4. e.type = "Initialized" /\ e.n = cmd.n
    BY <2>3
  <2>5. InventoryApply(inventory, e) = OnHand(e.n)
    BY Zenon, <2>1, <2>4 DEF InventoryApply
  <2> QED
    BY Zenon, <1>1, <1>3, <2>4, <2>5
<1>5. CASE \E n \in 0..MaxUnits : inventory = OnHand(n)
  <2>1. PICK n \in 0..MaxUnits : inventory = OnHand(n)
    BY Zenon, <1>5
  <2>2. inventory.exists = TRUE /\ inventory.n = n
    BY <2>1 DEF OnHand
  <2>3. e = InventoryTransition(n, cmd) /\ e # Refused
    BY Zenon, <1>3, <2>2 DEF InventoryDecide
  <2>4. PICK c : c = cmd.n /\ c \in 0..MaxUnits
    BY Zenon, <1>1
  <2>5. CASE cmd.type = "Restock"
    <3>1. e = IF n + c > MaxUnits THEN Refused ELSE [type |-> "Restocked", n |-> c]
      BY Zenon, <2>3, <2>4, <2>5 DEF InventoryTransition
    <3>2. ~(n + c > MaxUnits) /\ e.type = "Restocked" /\ e.n = c
      BY <2>3, <3>1
    <3>3. n + c <= MaxUnits /\ n + c \in 0..MaxUnits
      BY <1>2, <2>4, <3>2
    <3>4. InventoryApply(inventory, e) = OnHand(n + c)
      BY Zenon, <2>2, <3>2, <3>3 DEF InventoryApply
    <3> QED
      BY Zenon, <1>3, <3>3, <3>4
  <2>6. CASE cmd.type = "Consume"
    <3>1. ~(c > n) /\ e = [type |-> "Consumed", n |-> c]
      BY Zenon, <2>3, <2>4, <2>6 DEF InventoryTransition
    <3>2. e.type = "Consumed" /\ e.n = c
      BY <3>1
    <3>3. c <= n /\ n - c \in 0..MaxUnits
      BY <1>2, <2>4, <3>1
    <3>4. InventoryApply(inventory, e) = OnHand(n - c)
      BY Zenon, <2>2, <3>2, <3>3 DEF InventoryApply
    <3> QED
      BY Zenon, <1>3, <3>3, <3>4
  <2>7. CASE cmd.type = "Initialize"
    BY Zenon, <2>3, <2>7 DEF InventoryTransition
  <2> QED
    BY Zenon, <1>1, <2>5, <2>6, <2>7
<1> QED
  BY Zenon, <1>4, <1>5 DEF InventoryInv

\* The lifecycle's own refusal is no inventory.
LEMMA OnHandApplies == \A n : OnHand(n) # Corrupted
  BY DEF OnHand, Corrupted

-----------------------------------------------------------------------------
(* A delivery: the inductive invariant.                                    *)

Schedule == [n \in 1..Attempts |-> backoff_delay_ms(n - 1, BaseDelay, MaxDelay)]

Name == {"Order", "Inventory", "Ticket", "fallback"}

\* An event on its way to a reactor.
Deliveries == [pc : {"react", "done"}, deps : Seq(Name), event : Nat, fallback : Nat,
               delays : Seq(Nat), calls : Seq(Name), failed : BOOLEAN,
               cause : {"none", "busy", "other"}]

\* Its last attempt ran what it should have, it has slept the beginning of the
\* schedule, and a busy database is why.
Sound(d) ==
    /\ d.event \in 1..Len(d.deps)
    /\ d.calls # <<>> => d.calls = Handled(d.deps, d.event, d.fallback, d.failed)
    /\ Len(d.delays) <= Attempts
    /\ \A n \in 1..Len(d.delays) : d.delays[n] = Schedule[n]
    /\ d.pc = "react" /\ d.delays # <<>> => d.cause = "busy"
    /\ d.pc = "done" /\ d.cause = "busy" => Len(d.delays) = Attempts

DeliveryInv == delivery = NoDelivery \/ (delivery \in Deliveries /\ Sound(delivery))

ReactorsInv == InventoryInv /\ DeliveryInv

\* Delivering begins with nothing run and nothing slept.
LEMMA DeliverSound ==
    ASSUME NEW n \in 1..3, NEW k \in 1..3, k <= n, NEW f \in 0..3, f <= n, BridgeDispatch(n, k, f)
    PROVE  DeliveryInv'
<1>1. Entities \in Seq(Name) /\ Len(Entities) = 3
  BY DEF Entities, Name
<1>2. PICK deps : deps = SubSeq(Entities, 1, n)
  BY Zenon
<1>3. deps \in Seq(Name) /\ Len(deps) = n
  <2>1. PICK e \in Seq(Name) : e = Entities /\ Len(e) = 3
    BY Zenon, <1>1
  <2>2. 1 \in Int /\ n \in Int /\ 1..n \subseteq 1..Len(e)
    BY <2>1
  <2>3. \A i \in 1..n : e[i] \in Name
    BY Zenon, <2>1, <2>2, ElementOfSeq
  <2>4. PICK o \in Int : o = 1
    OBVIOUS
  <2>5. \A i \in o..n : e[i] \in Name
    BY Zenon, <2>3, <2>4
  <2>6. SubSeq(e, o, n) \in Seq(Name)
    BY Zenon, <2>2, <2>5, SubSeqProperties
  <2>7. Len(SubSeq(e, o, n)) = n
    <3>1. PICK l : l = Len(SubSeq(e, o, n))
      BY Zenon
    <3>2. l = IF o <= n THEN n - o + 1 ELSE 0
      BY SMT, <2>2, <2>5, <3>1, SubSeqProperties
    <3> QED
      BY <2>4, <3>1, <3>2
  <2> QED
    BY Zenon, <1>2, <2>1, <2>2, <2>4, <2>6, <2>7
<1>4. delivery' = [pc |-> "react", deps |-> deps, event |-> k, fallback |-> f,
                   delays |-> <<>>, calls |-> <<>>, failed |-> FALSE, cause |-> "none"]
  BY Zenon, <1>2 DEF BridgeDispatch
<1>5. PICK none : none = <<>> /\ none \in Seq(Name) /\ none \in Seq(Nat) /\ Len(none) = 0
  BY Zenon, EmptySeq
<1>6. Attempts \in Nat
  BY Zenon, ReactorsAssumption
<1>7. delivery' \in Deliveries
  <2>1. k \in Nat /\ f \in Nat
    OBVIOUS
  <2> QED
    BY Zenon, <1>3, <1>4, <1>5, <2>1 DEF Deliveries
<1>8. /\ delivery'.deps = deps /\ delivery'.event = k /\ delivery'.delays = none
      /\ delivery'.calls = none /\ delivery'.pc = "react"
  BY Zenon, <1>4, <1>5
<1>9. Sound(delivery')
  <2>1. k \in 1..Len(deps) /\ 0 <= Attempts /\ 1..0 = {}
    BY <1>3, <1>6
  <2> QED
    BY Zenon, <1>5, <1>8, <2>1 DEF Sound
<1> QED
  BY Zenon, <1>7, <1>9 DEF DeliveryInv

\* Every attempt runs the handler of the event's own entity, and its fallback
\* when that fails.
LEMMA CallsAre ==
    ASSUME delivery \in Deliveries, Sound(delivery), NEW fails \in BOOLEAN
    PROVE  /\ Calls(fails) = Handled(delivery.deps, delivery.event, delivery.fallback, fails)
           /\ Calls(fails) \in Seq(Name)
<1>1. PICK deps, k, f : deps = delivery.deps /\ k = delivery.event /\ f = delivery.fallback
  BY Zenon
<1>2. deps \in Seq(Name) /\ k \in 1..Len(deps)
  BY Zenon, <1>1 DEF Deliveries, Sound
<1>3. Len(deps) \in Nat /\ deps[k] \in Name
  BY Zenon, <1>2, LenProperties, ElementOfSeq
<1>4. PICK e : e = deps[k]
  BY Zenon
<1>5. Calls(fails) = Exhaustive(deps, Inject(deps, k, e), f, fails)
  BY Zenon, <1>1, <1>4 DEF Calls
<1>6. Inject(deps, k, e) = [at |-> k - 1, event |-> e]
  BY Zenon, <1>2, <1>3, InjectIs
<1>7. Exhaustive(deps, [at |-> k - 1, event |-> e], f, fails) = Handled(deps, k, f, fails)
  BY Zenon, <1>2, <1>3, ExhaustiveIs
<1>8. "fallback" \in Name
  BY Zenon DEF Name
<1>9. PICK x : x = "fallback" /\ x \in Name
  BY Zenon, <1>8
<1>10. e \in Name
  BY Zenon, <1>3, <1>4
<1>11. <<e>> \in Seq(Name) /\ <<e, x>> \in Seq(Name)
  BY <1>9, <1>10
<1>12. Handled(deps, k, f, fails) \in Seq(Name)
  BY Zenon, <1>4, <1>9, <1>11 DEF Handled
<1> QED
  BY Zenon, <1>1, <1>5, <1>6, <1>7, <1>12

\* What an attempt leaves: the delivery with its calls and its outcome.
LEMMA AttemptSound ==
    ASSUME delivery \in Deliveries, Sound(delivery), NEW fails \in BOOLEAN,
           NEW p \in {"react", "done"}, NEW c \in {"none", "busy", "other"}, NEW ds \in Seq(Nat),
           delivery' = [Outcome(fails) EXCEPT !.pc = p, !.cause = c, !.delays = ds],
           Len(ds) <= Attempts, \A n \in 1..Len(ds) : ds[n] = Schedule[n],
           p = "react" => c = "busy", p = "done" /\ c = "busy" => Len(ds) = Attempts
    PROVE  DeliveryInv'
<1>1. PICK calls : calls = Calls(fails)
  BY Zenon
<1>2. /\ calls = Handled(delivery.deps, delivery.event, delivery.fallback, fails)
      /\ calls \in Seq(Name)
  BY Zenon, <1>1, CallsAre
<1>3. delivery' = [delivery EXCEPT !.calls = calls, !.failed = fails, !.pc = p, !.cause = c,
                                   !.delays = ds]
  BY Zenon, <1>1 DEF Outcome
<1>4. /\ delivery'.deps = delivery.deps /\ delivery'.event = delivery.event
      /\ delivery'.fallback = delivery.fallback /\ delivery'.calls = calls
      /\ delivery'.failed = fails /\ delivery'.pc = p /\ delivery'.cause = c
      /\ delivery'.delays = ds
  BY Zenon, <1>3 DEF Deliveries
<1>5. delivery' \in Deliveries
  BY Zenon, <1>2, <1>3 DEF Deliveries
<1>6. Sound(delivery')
  BY Zenon, <1>2, <1>4 DEF Sound
<1> QED
  BY Zenon, <1>5, <1>6 DEF DeliveryInv

\* The next delay is the schedule's.
LEMMA NextDelay ==
    ASSUME NEW ds \in Seq(Nat), Len(ds) < Attempts, \A n \in 1..Len(ds) : ds[n] = Schedule[n],
           NEW t, t = Append(ds, backoff_delay_ms(Len(ds), BaseDelay, MaxDelay))
    PROVE  t \in Seq(Nat) /\ Len(t) <= Attempts /\ \A n \in 1..Len(t) : t[n] = Schedule[n]
<1>1. PICK m \in Nat : m = Len(ds)
  BY Zenon, LenProperties
<1>2. PICK x : x = backoff_delay_ms(m, BaseDelay, MaxDelay) /\ x \in Nat
  BY Zenon, BackoffGrows
<1>3. /\ t \in Seq(Nat) /\ Len(t) = m + 1 /\ t[m + 1] = x
      /\ \A n \in 1..m : t[n] = ds[n]
  BY <1>1, <1>2, AppendProperties
<1>4. Attempts \in Nat
  BY Zenon, ReactorsAssumption
<1>5. /\ m + 1 <= Attempts /\ m + 1 \in 1..Attempts /\ m + 1 - 1 = m
      /\ \A n \in 1..m + 1 : n = m + 1 \/ n \in 1..m
  BY <1>1, <1>4
<1>6. Schedule[m + 1] = x
  <2>1. PICK i : i = m + 1
    BY Zenon
  <2>2. i \in 1..Attempts /\ i - 1 = m
    BY <1>5, <2>1
  <2> QED
    BY Zenon, <1>2, <2>1, <2>2 DEF Schedule
<1> QED
  BY Zenon, <1>1, <1>3, <1>5, <1>6

\* Every step of the inventory and of a delivery keeps the invariant.
LEMMA ReactorsStep ==
    ASSUME ReactorsInv, [ReactorsNext]_reactorVars
    PROVE  ReactorsInv'
<1>0. InventoryInv /\ DeliveryInv
  BY Zenon DEF ReactorsInv
<1>a. UNCHANGED inventory => InventoryInv'
  BY Zenon, <1>0 DEF InventoryInv
<1>b. delivery.pc \in {"react", "done"} => delivery \in Deliveries /\ Sound(delivery)
  <2>1. NoDelivery.pc = "none"
    BY DEF NoDelivery
  <2> QED
    BY Zenon, <1>0, <2>1 DEF DeliveryInv
<1>1. ASSUME NEW cmd \in InventoryCommands, InventoryCommand(cmd) PROVE ReactorsInv'
  <2>1. PICK e, next : /\ e = InventoryDecide(inventory, cmd) /\ e # Refused
                       /\ next = InventoryApply(inventory, e)
    BY Zenon, <1>1 DEF InventoryCommand
  <2>2. PICK n \in 0..MaxUnits : next = OnHand(n)
    BY Zenon, <1>0, <2>1, DecidedApplies
  <2>3. next # Corrupted
    BY Zenon, <2>2, OnHandApplies
  <2>4. inventory' = next /\ \E i \in 2..3, f \in 0..3 : f <= i /\ BridgeDispatch(i, 2, f)
    BY Zenon, <1>1, <2>1, <2>3 DEF InventoryCommand
  <2>5. PICK i \in 2..3, f \in 0..3 : f <= i /\ BridgeDispatch(i, 2, f)
    BY Zenon, <2>4
  <2>6. i \in 1..3 /\ 2 \in 1..3 /\ 2 <= i
    OBVIOUS
  <2>7. DeliveryInv'
    BY Zenon, <2>5, <2>6, DeliverSound
  <2>8. InventoryInv'
    BY Zenon, <2>2, <2>4 DEF InventoryInv
  <2> QED
    BY Zenon, <2>7, <2>8 DEF ReactorsInv
<1>2. ASSUME NEW n \in 1..3, NEW k \in 1..3, NEW f \in 0..3, k <= n, f <= n, OtherEvent(n, k, f)
      PROVE  ReactorsInv'
  BY Zenon, <1>a, <1>2, DeliverSound DEF OtherEvent, ReactorsInv
<1>3. CASE Succeed
  <2>1. PICK fails \in BOOLEAN : delivery' = [Outcome(fails) EXCEPT !.pc = "done", !.cause = "none"]
    BY Zenon, <1>3 DEF Succeed
  <2>2. delivery \in Deliveries /\ Sound(delivery)
    BY Zenon, <1>3, <1>b DEF Succeed
  <2>3. PICK ds : ds = delivery.delays
    BY Zenon
  <2>4. delivery' = [Outcome(fails) EXCEPT !.pc = "done", !.cause = "none", !.delays = ds]
    BY Zenon, <2>1, <2>2, <2>3 DEF Outcome, Deliveries
  <2>5. ds \in Seq(Nat) /\ Len(ds) <= Attempts /\ \A n \in 1..Len(ds) : ds[n] = Schedule[n]
    BY Zenon, <2>2, <2>3 DEF Deliveries, Sound
  <2>6. PICK p, c : p = "done" /\ c = "none"
    BY Zenon
  <2>7. /\ p \in {"react", "done"} /\ c \in {"none", "busy", "other"}
        /\ (p = "react" => c = "busy") /\ (p = "done" /\ c = "busy" => Len(ds) = Attempts)
    BY Zenon, <2>6
  <2>8. delivery' = [Outcome(fails) EXCEPT !.pc = p, !.cause = c, !.delays = ds]
    BY Zenon, <2>4, <2>6
  <2>9. DeliveryInv'
    BY Zenon, <2>2, <2>5, <2>7, <2>8, AttemptSound
  <2> QED
    BY Zenon, <1>3, <1>a, <2>9 DEF Succeed, ReactorsInv
<1>4. ASSUME NEW error \in Errors, RetryAfter(error) PROVE ReactorsInv'
  <2>1. delivery \in Deliveries /\ Sound(delivery)
    BY Zenon, <1>4, <1>b DEF RetryAfter
  <2>2. PICK old : old = delivery.delays
    BY Zenon
  <2>3. PICK ds : ds = Append(old, backoff_delay_ms(Len(old), BaseDelay, MaxDelay))
    BY Zenon
  <2>4. old \in Seq(Nat) /\ \A n \in 1..Len(old) : old[n] = Schedule[n]
    BY Zenon, <2>1, <2>2 DEF Deliveries, Sound
  <2>5. Len(old) < Attempts /\ Cause(error) = "busy"
    BY Zenon, <1>4, <2>2, RetryableIsBusy DEF RetryAfter
  <2>6. ds \in Seq(Nat) /\ Len(ds) <= Attempts /\ \A n \in 1..Len(ds) : ds[n] = Schedule[n]
    BY Zenon, <2>3, <2>4, <2>5, NextDelay
  <2>7. PICK p, c, fails : p = "react" /\ c = "busy" /\ fails = TRUE
    BY Zenon
  <2>8. delivery' = [Outcome(fails) EXCEPT !.cause = c, !.delays = ds]
    <3>1. delivery' = [Outcome(TRUE) EXCEPT !.cause = Cause(error),
             !.delays = Append(@, backoff_delay_ms(Len(old), BaseDelay, MaxDelay))]
      BY Zenon, <1>4, <2>2 DEF RetryAfter
    <3>2. Outcome(TRUE).delays = old
      BY <2>1, <2>2 DEF Outcome, Deliveries
    <3> QED
      BY Zenon, <2>3, <2>5, <2>7, <3>1, <3>2
  <2>9. delivery' = [Outcome(fails) EXCEPT !.pc = p, !.cause = c, !.delays = ds]
    <3>1. delivery.pc = p
      BY Zenon, <1>4, <2>7 DEF RetryAfter
    <3> QED
      BY Zenon, <2>1, <2>8, <3>1 DEF Outcome, Deliveries
  <2>10. /\ p \in {"react", "done"} /\ c \in {"none", "busy", "other"} /\ fails \in BOOLEAN
         /\ (p = "react" => c = "busy") /\ (p = "done" /\ c = "busy" => Len(ds) = Attempts)
    BY Zenon, <2>7
  <2>11. DeliveryInv'
    BY Zenon, <2>1, <2>6, <2>9, <2>10, AttemptSound
  <2> QED
    BY Zenon, <1>4, <1>a, <2>11 DEF RetryAfter, ReactorsInv
<1>5. ASSUME NEW error \in Errors, GiveUp(error) PROVE ReactorsInv'
  <2>1. delivery \in Deliveries /\ Sound(delivery)
    BY Zenon, <1>5, <1>b DEF GiveUp
  <2>2. PICK ds : ds = delivery.delays
    BY Zenon
  <2>3. ds \in Seq(Nat) /\ Len(ds) <= Attempts /\ \A n \in 1..Len(ds) : ds[n] = Schedule[n]
    BY Zenon, <2>1, <2>2 DEF Deliveries, Sound
  <2>4. PICK p, c, fails : p = "done" /\ c = Cause(error) /\ fails = TRUE
    BY Zenon
  <2>5. c = "busy" => Len(ds) = Attempts
    <3>1. c = "busy" => ~(Len(ds) < Attempts)
      BY Zenon, <1>5, <2>2, <2>4, RetryableIsBusy DEF GiveUp
    <3>2. Len(ds) \in Nat /\ Attempts \in Nat
      BY Zenon, <2>3, LenProperties, ReactorsAssumption
    <3> QED
      BY <2>3, <3>1, <3>2
  <2>6. delivery' = [Outcome(fails) EXCEPT !.pc = p, !.cause = c]
    BY Zenon, <1>5, <2>4 DEF GiveUp
  <2>7. delivery' = [Outcome(fails) EXCEPT !.pc = p, !.cause = c, !.delays = ds]
    BY Zenon, <2>1, <2>2, <2>6 DEF Outcome, Deliveries
  <2>8. /\ p \in {"react", "done"} /\ c \in {"none", "busy", "other"} /\ fails \in BOOLEAN
        /\ (p = "react" => c = "busy") /\ (p = "done" /\ c = "busy" => Len(ds) = Attempts)
    BY Zenon, <2>4, <2>5 DEF Cause
  <2>9. DeliveryInv'
    BY Zenon, <2>1, <2>3, <2>7, <2>8, AttemptSound
  <2> QED
    BY Zenon, <1>5, <1>a, <2>9 DEF GiveUp, ReactorsInv
<1>6. CASE Delivered
  BY Zenon, <1>6, <1>a DEF Delivered, DeliveryInv, ReactorsInv
<1>7. CASE UNCHANGED reactorVars
  BY Zenon, <1>0, <1>7 DEF reactorVars, InventoryInv, DeliveryInv, ReactorsInv
<1> QED
  BY Zenon, <1>1, <1>2, <1>3, <1>4, <1>5, <1>6, <1>7 DEF ReactorsNext

-----------------------------------------------------------------------------
(* A delivery: the theorems.                                               *)

\* The inductive invariant holds throughout.
THEOREM ReactorsSafety == ReactorsSpec => []ReactorsInv
<1>1. ReactorsInit => ReactorsInv
  BY Zenon DEF ReactorsInit, ReactorsInv, InventoryInv, DeliveryInv
<1>2. ReactorsInv /\ [ReactorsNext]_reactorVars => ReactorsInv'
  BY Zenon, ReactorsStep
<1> QED
  BY <1>1, <1>2, PTL DEF ReactorsSpec

\* on_with_fallback runs the fallback of the event's own handler, once and after
\* it, in exactly the attempts in which that handler fails.
THEOREM FallbackRuns == ReactorsSpec => []FallbackAfterFailure
<1>1. ASSUME ReactorsInv PROVE FallbackAfterFailure
  <2>1. delivery.pc \in {"react", "done"} => Sound(delivery)
    <3>1. NoDelivery.pc = "none"
      BY DEF NoDelivery
    <3> QED
      BY Zenon, <1>1, <3>1 DEF ReactorsInv, DeliveryInv
  <2> QED
    BY Zenon, <2>1 DEF Sound, Handled, FallbackAfterFailure
<1> QED
  BY <1>1, ReactorsSafety, PTL

\* What the inventory accepts it can apply: handle and evolve agree up to both
\* ends of u32 (inventory.rs:93-171).
THEOREM Accepts == ReactorsSpec => []AcceptedApplies
<1>1. ASSUME ReactorsInv PROVE AcceptedApplies
  <2>1. NoDelivery.pc = "none" /\ LifecycleRefusal.pc = "refused"
    BY DEF NoDelivery, LifecycleRefusal
  <2>2. delivery \in Deliveries => delivery.pc \in {"react", "done"}
    BY Zenon DEF Deliveries
  <2> QED
    BY Zenon, <1>1, <2>1, <2>2 DEF ReactorsInv, DeliveryInv, AcceptedApplies
<1> QED
  BY <1>1, ReactorsSafety, PTL

\* retry_with_backoff retries for a busy database only, whatever wraps the
\* error, gives up with one only when every delay of the schedule was slept, and
\* its delays never shrink: for every number of attempts, base, cap and width of
\* the integers, if Budget is what the schedule adds up to.
THEOREM Retries ==
    ASSUME Budget = Slept(Schedule)
    PROVE  ReactorsSpec => []RetryBounded
<1>1. ASSUME ReactorsInv PROVE RetryBounded
  <2>1. SUFFICES ASSUME delivery.pc \in {"react", "done"}, NEW ds, ds = delivery.delays
                 PROVE  /\ delivery.pc = "react" /\ ds # <<>> => delivery.cause = "busy"
                        /\ delivery.pc = "done" /\ delivery.cause = "busy" => Slept(ds) = Budget
                        /\ Slept(ds) <= Budget
                        /\ \A n \in 2..Len(ds) : ds[n - 1] <= ds[n]
    BY Zenon DEF RetryBounded
  <2>2. delivery \in Deliveries /\ Sound(delivery)
    <3>1. NoDelivery.pc = "none"
      BY DEF NoDelivery
    <3> QED
      BY Zenon, <1>1, <2>1, <3>1 DEF ReactorsInv, DeliveryInv
  <2>3. /\ ds \in Seq(Nat) /\ Len(ds) <= Attempts /\ \A n \in 1..Len(ds) : ds[n] = Schedule[n]
        /\ delivery.pc = "react" /\ ds # <<>> => delivery.cause = "busy"
        /\ delivery.pc = "done" /\ delivery.cause = "busy" => Len(ds) = Attempts
    BY Zenon, <2>1, <2>2 DEF Deliveries, Sound
  <2>4. Attempts \in Nat /\ Len(ds) \in Nat
    BY Zenon, <2>3, LenProperties, ReactorsAssumption
  <2>5. ASSUME NEW n \in 1..Attempts
        PROVE  /\ n - 1 \in Nat /\ Schedule[n] = backoff_delay_ms(n - 1, BaseDelay, MaxDelay)
               /\ Schedule[n] \in Nat
    <3>1. PICK a \in Nat : a = n - 1
      BY <2>4
    <3>2. backoff_delay_ms(a, BaseDelay, MaxDelay) \in Nat
      BY Zenon, BackoffGrows
    <3> QED
      BY Zenon, <3>1, <3>2 DEF Schedule
  <2>6. Schedule \in Seq(Nat) /\ Len(Schedule) = Attempts
    <3>1. Schedule \in [1..Attempts -> Nat]
      BY Zenon, <2>5 DEF Schedule
    <3> QED
      BY <2>4, <3>1
  <2>7. Slept(ds) <= Slept(Schedule) /\ (Len(ds) = Attempts => Slept(ds) = Slept(Schedule))
    BY Zenon, <2>3, <2>6, PrefixSleeps
  <2>8. ASSUME NEW n \in 2..Len(ds) PROVE ds[n - 1] <= ds[n]
    <3>1. PICK a \in Nat : a = n - 2
      BY <2>4
    <3>2. /\ n - 1 \in 1..Len(ds) /\ n \in 1..Len(ds) /\ n - 1 \in 1..Attempts /\ n \in 1..Attempts
          /\ n - 1 - 1 = a /\ n - 1 = a + 1
      BY <2>3, <2>4, <3>1
    <3>3. backoff_delay_ms(a, BaseDelay, MaxDelay) <= backoff_delay_ms(a + 1, BaseDelay, MaxDelay)
      BY Zenon, BackoffGrows
    <3>4. Schedule[n - 1] = backoff_delay_ms(a, BaseDelay, MaxDelay)
      BY Zenon, <2>5, <3>2
    <3>5. Schedule[n] = backoff_delay_ms(a + 1, BaseDelay, MaxDelay)
      BY Zenon, <2>5, <3>2
    <3> QED
      BY Zenon, <2>3, <3>2, <3>3, <3>4, <3>5
  <2> QED
    BY Zenon, <2>3, <2>7, <2>8
<1> QED
  BY <1>1, ReactorsSafety, PTL

=============================================================================

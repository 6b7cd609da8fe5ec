------------------------------ MODULE Dispatch ------------------------------
(***************************************************************************)
(* Jobs dispatched by an entity, from the command that kicks one off to    *)
(* the verdict delivered back (dispatch.rs), with the entities that embed  *)
(* a DispatchedJob: Order and SupportTicket of the examples, and Desk, the *)
(* reference entity of the dispatch tests.                                 *)
(*                                                                         *)
(* The job side is JobLifecycle, the abstract queue that JobQueue          *)
(* implements.  What is added here is what an execution does between its   *)
(* claim and its settlement: it calls an external system, tells the origin *)
(* and only then settles, while its claim may be taken over, its process   *)
(* may die and its time may run out at every step.                         *)
(***************************************************************************)
EXTENDS Naturals, FiniteSets

CONSTANTS Job,           \* job ids; each kick-off mints a fresh one
          NoJob,
          Worker,        \* worker tasks
          Flavor,        \* the entity types to consider
          MaxAttempts,   \* JobWorkerConfig::max_attempts
          MaxClaims,     \* JobWorkerConfig::max_claims
          MaxFaults      \* bound: failed deliveries, deferrals by the job,
                         \* timeouts and crashes, together

ASSUME DispatchAssumption ==
    /\ Flavor \subseteq {"Desk", "Order", "SupportTicket"}
    /\ NoJob \notin Job
    /\ MaxAttempts \in Nat \ {0} /\ MaxClaims \in Nat \ {0}
    /\ MaxFaults \in Nat

VARIABLES job,       \* JobLifecycle's: status and budgets per job
          flavor,    \* the type of the origin, fixed for good
          origin,    \* the origin entity
          claimed,   \* jobs that have a Claimed event
          exec,      \* exec[w]: what w is executing
          landed,    \* jobs whose call reached the external system
          blind,     \* blind[j]: calls made for j without asking first
          faults     \* how many of MaxFaults have happened

vars == <<job, flavor, origin, claimed, exec, landed, blind, faults>>

Queue == INSTANCE JobLifecycle

-----------------------------------------------------------------------------
(***************************************************************************)
(* DispatchedJob: the state machine embedded in the origin.                *)
(***************************************************************************)

IdleMachine == [tag |-> "Idle", job |-> NoJob]
Machine(tag, j) == [tag |-> tag, job |-> j]

\* DispatchedJob::dispatch.
MayDispatch(m) == m.tag \in {"Idle", "Failed"}

\* DispatchedJob::settle: news for the job in flight, or the same verdict for
\* the job it already settled, which is absorbed; all else is a mismatch.
Settleable(m, tag, j) == m = Machine("InFlight", j) \/ m = Machine(tag, j)

\* DispatchedJob::evolve (and originate, from Idle): the events that can follow
\* from a state; DispatchReplay otherwise, and the entity is lost.
Corrupt == [tag |-> "Replay", job |-> NoJob]
Evolve(m, tag, j) ==
    IF \/ m.tag \in {"Idle", "Failed"} /\ tag = "InFlight"
       \/ m = Machine("InFlight", j) /\ tag \in {"Confirmed", "Failed"}
    THEN Machine(tag, j)
    ELSE Corrupt

-----------------------------------------------------------------------------
(***************************************************************************)
(* The origins.  Each handler's events are folded at once: a command is    *)
(* one commit.                                                             *)
(***************************************************************************)

Unborn == [status |-> "none", machine |-> IdleMachine]
Entity(status, machine) == [status |-> status, machine |-> machine]

\* The status an origin has after a DispatchEvent (its originate and evolve): a
\* failed confirmation or notification leaves it waiting.  A Desk stands for
\* any entity that is nothing but its machine: it has no status of its own and
\* its handler only asks the machine.
DeskStatus(tag) == "open"
OrderStatus(tag) == IF tag = "Confirmed" THEN "Placed" ELSE "PendingConfirmation"
TicketStatus(tag) == IF tag = "Confirmed" THEN "Closed" ELSE "Closing"
StatusAfter(tag) == CASE flavor = "Desk" -> DeskStatus(tag)
                      [] flavor = "Order" -> OrderStatus(tag)
                      [] flavor = "SupportTicket" -> TicketStatus(tag)

\* Whether the handler of a kick-off reaches the dispatch: Desk's Place, the
\* Place of a new order, the Close of a ticket.
DeskAsks(e) == MayDispatch(e.machine)
OrderAsks(e) == e = Unborn
TicketAsks(e) == e.status \in {"Open", "Pending"} /\ MayDispatch(e.machine)
Asks == CASE flavor = "Desk" -> DeskAsks(origin)
          [] flavor = "Order" -> OrderAsks(origin)
          [] flavor = "SupportTicket" -> TicketAsks(origin)

\* Mutant: an order is filled or cancelled before it is confirmed.
OrderOwnUnconfirmed(e) ==
    IF e.status \in {"PendingConfirmation", "Placed"} THEN {"Filled", "Cancelled"} ELSE {}

\* The statuses the commands that need no job lead to: Fill and Cancel of a
\* confirmed order, Open and AwaitCustomer of a ticket.
OrderOwn(e) == IF e.status = "Placed" THEN {"Filled", "Cancelled"} ELSE {}
TicketOwn(e) == IF e = Unborn THEN {"Open"}
                ELSE IF e.status \in {"Open", "Pending"} THEN {"Pending"} ELSE {}
OwnCommand == CASE flavor = "Desk" -> {}
                [] flavor = "Order" -> OrderOwn(origin)
                [] flavor = "SupportTicket" -> TicketOwn(origin)

-----------------------------------------------------------------------------
Idle == [pc |-> "idle"]

Init == /\ Queue!Init
        /\ flavor \in Flavor
        /\ origin = Unborn
        /\ claimed = {}
        /\ exec = [w \in Worker |-> Idle]
        /\ landed = {}
        /\ blind = [j \in Job |-> 0]
        /\ faults = 0

world == <<landed, blind>>

Fault == /\ faults < MaxFaults
         /\ faults' = faults + 1

\* kick: the Dispatched event and the job commit together.
Fresh == {j \in Job : job[j].status = "none"}
Kick(j) ==
    /\ Asks
    /\ Fresh # {} /\ j = CHOOSE fresh \in Fresh : TRUE
    /\ Queue!Enqueue(j)
    /\ origin' = Entity(StatusAfter("Dispatched"), Evolve(origin.machine, "InFlight", j))
    /\ UNCHANGED <<flavor, claimed, exec, world, faults>>

Own == /\ \E status \in OwnCommand :
             origin' = [origin EXCEPT !.status = status]
       /\ UNCHANGED <<job, flavor, claimed, exec, world, faults>>

\* Mutant: an execution counts as the first until an attempt was recorded.
FirstByAttempt(j) == job[j].attempt = 0

\* is_first_execution: no earlier claim.
First(j) == j \notin claimed

\* A worker claims the job, anew or when the lease of an execution that may
\* still be running is over; the claim it replaces can settle no more.
Claim(w, j) ==
    /\ exec[w] = Idle
    /\ Queue!Claim(j)
    /\ exec' = [v \in Worker |->
          IF v = w THEN [pc |-> "start", job |-> j, first |-> First(j),
                         attempt |-> job[j].attempt, current |-> TRUE, plan |-> "none"]
          ELSE IF exec[v] # Idle /\ exec[v].job = j THEN [exec[v] EXCEPT !.current = FALSE]
          ELSE exec[v]]
    /\ claimed' = claimed \cup {j}
    /\ UNCHANGED <<flavor, origin, world, faults>>

\* The claim budget is spent: dead, and no execution to tell the origin.
Abandon(j) ==
    /\ Queue!Abandon(j)
    /\ exec' = [v \in Worker |->
          IF exec[v] # Idle /\ exec[v].job = j THEN [exec[v] EXCEPT !.current = FALSE]
          ELSE exec[v]]
    /\ UNCHANGED <<flavor, origin, claimed, world, faults>>

-----------------------------------------------------------------------------
(***************************************************************************)
(* perform: route, call, deliver.                                          *)
(***************************************************************************)

Goto(w, pc, plan) ==
    exec' = [exec EXCEPT ![w].pc = pc, ![w].plan = plan, ![w].first = FALSE]

\* What a job type may report: the examples' jobs cannot fail and claim
\* success for an unknown fate; Desk's stands for any honest job.
Infallible == flavor # "Desk"

\* Job::submit.
Submit(w) ==
    LET x == exec[w]
    IN  /\ \/ x.pc = "start" /\ x.first
           \/ x.pc = "authorized"
        /\ blind' = IF x.pc = "start" THEN [blind EXCEPT ![x.job] = @ + 1] ELSE blind
        /\ \/ /\ landed' = landed \cup {x.job}
              /\ \/ Goto(w, "outcome", "done") /\ UNCHANGED faults
                 \/ ~Infallible /\ Goto(w, "outcome", "transient") /\ UNCHANGED faults
                 \/ ~Infallible /\ Fault /\ Goto(w, "outcome", "defer")
           \/ /\ ~Infallible
              /\ landed' = landed
              /\ \E plan \in {"transient", "terminal"} : Goto(w, "outcome", plan)
              /\ UNCHANGED faults
        /\ UNCHANGED <<job, flavor, origin, claimed>>

\* Job::reconcile, of every execution but the first.
Reconcile(w) ==
    LET x == exec[w]
    IN  /\ x.pc = "start" /\ ~x.first
        /\ \/ (x.job \in landed \/ Infallible) /\ Goto(w, "outcome", "done") /\ UNCHANGED faults
           \/ /\ x.job \notin landed /\ ~Infallible
              /\ Goto(w, "authorized", "none") /\ UNCHANGED faults
           \/ ~Infallible /\ Fault /\ Goto(w, "outcome", "defer")
           \/ ~Infallible /\ Goto(w, "outcome", "transient") /\ UNCHANGED faults
           \/ /\ x.job \notin landed /\ ~Infallible
              /\ Goto(w, "outcome", "terminal") /\ UNCHANGED faults
        /\ UNCHANGED <<job, flavor, origin, claimed, world>>

FinalAttempt(x) == x.attempt + 1 >= MaxAttempts

\* Mutant: only failures are reported.
ReportsFailures(x) == x.plan = "terminal" \/ (x.plan = "transient" /\ FinalAttempt(x))

\* The verdict an outcome is reported with, and which outcomes are.
Tag(x) == IF x.plan = "done" THEN "Confirmed" ELSE "Failed"
Reports(x) == \/ x.plan \in {"done", "terminal"}
              \/ x.plan = "transient" /\ FinalAttempt(x)

\* Mutant: settle takes any verdict for one on the job in flight, whose id it
\* does not compare.
DeliverUncompared(w) ==
    LET x == exec[w]
        m == origin.machine
    IN  /\ x.pc = "outcome" /\ Reports(x)
        /\ m.tag \in {"InFlight", Tag(x)}
        /\ origin' = IF m.tag = "InFlight"
                     THEN Entity(StatusAfter(Tag(x)), Evolve(m, Tag(x), m.job))
                     ELSE origin
        /\ Goto(w, "settle", x.plan)
        /\ UNCHANGED <<job, flavor, claimed, world, faults>>

\* OriginPort::deliver succeeds.
Deliver(w) ==
    LET x == exec[w]
    IN  /\ x.pc = "outcome" /\ Reports(x)
        /\ Settleable(origin.machine, Tag(x), x.job)
        /\ origin' = IF origin.machine.tag = "InFlight"
                     THEN Entity(StatusAfter(Tag(x)),
                                 Evolve(origin.machine, Tag(x), x.job))
                     ELSE origin
        /\ Goto(w, "settle", x.plan)
        /\ UNCHANGED <<job, flavor, claimed, world, faults>>

\* Mutant: a verdict that could not be delivered is forgotten.
UndeliveredIgnored(x) == x.plan

\* delivery_deferral: a verdict the origin did not take comes back later, but
\* the failure of a last attempt is final.
Undelivered(x) == IF x.plan = "transient" THEN "transient" ELSE "defer"

\* OriginPort::deliver fails: refused by the guard, or the origin cannot be
\* written.
DeliverFails(w) ==
    LET x == exec[w]
    IN  /\ x.pc = "outcome" /\ Reports(x)
        /\ \/ ~Settleable(origin.machine, Tag(x), x.job) /\ UNCHANGED faults
           \/ Fault
        /\ Goto(w, "settle", Undelivered(x))
        /\ UNCHANGED <<job, flavor, origin, claimed, world>>

\* A deferral, or a failure with attempts to spare: nothing to tell.
NothingToTell(w) ==
    LET x == exec[w]
    IN  /\ x.pc = "outcome" /\ ~Reports(x)
        /\ Goto(w, "settle", x.plan)
        /\ UNCHANGED <<job, flavor, origin, claimed, world, faults>>

\* The execution timeout drops perform where it awaits: a call that may have
\* landed or not, or a delivery that may have been taken or not.  A transient
\* failure, with nothing said to the origin about it.
Timeout(w) ==
    /\ \/ exec[w].pc \in {"start", "authorized"}
       \/ exec[w].pc = "outcome" /\ Reports(exec[w])
       \/ exec[w].pc = "settle" /\ exec[w].plan \in {"done", "terminal"}
    /\ Fault
    /\ Goto(w, "settle", "transient")
    /\ UNCHANGED <<job, flavor, origin, claimed, world>>

\* ack, fenced by the claim.
Ack(w) ==
    LET x == exec[w]
        j == x.job
    IN  /\ x.pc = "settle"
        /\ \/ ~x.current /\ UNCHANGED job
           \/ /\ x.current
              /\ \/ x.plan = "done" /\ Queue!Finish(j) /\ job'[j].status = "done"
                 \/ x.plan = "terminal" /\ Queue!Finish(j) /\ job'[j].status = "dead"
                 \/ x.plan = "defer" /\ Queue!Defer(j)
                 \/ x.plan = "transient" /\ ~FinalAttempt(x) /\ Queue!Retry(j)
                 \/ /\ x.plan = "transient" /\ FinalAttempt(x)
                    /\ Queue!Finish(j) /\ job'[j].status = "dead"
        /\ exec' = [exec EXCEPT ![w] = Idle]
        /\ UNCHANGED <<flavor, origin, claimed, world, faults>>

\* The process of a worker dies.
Crash(w) ==
    /\ exec[w] # Idle
    /\ Fault
    /\ exec' = [exec EXCEPT ![w] = Idle]
    /\ UNCHANGED <<job, flavor, origin, claimed, world>>

-----------------------------------------------------------------------------
Execute(w) == \/ Submit(w) \/ Reconcile(w)
              \/ Deliver(w) \/ DeliverFails(w) \/ NothingToTell(w) \/ Ack(w)

Next == \/ \E j \in Job : Kick(j)
        \/ Own
        \/ \E w \in Worker, j \in Job : Claim(w, j)
        \/ \E j \in Job : Abandon(j)
        \/ \E w \in Worker : Execute(w) \/ Timeout(w) \/ Crash(w)

Spec == Init /\ [][Next]_vars

\* Executions run, and a job that nobody executes is not passed over for ever:
\* polls take due jobs by due time and a refused one comes back later each
\* time.  Commands, takeovers of running executions and faults need not come.
Held(j) == \E w \in Worker : exec[w] # Idle /\ exec[w].job = j /\ exec[w].current
Poll(j) == ~Held(j) /\ (Abandon(j) \/ \E w \in Worker : Claim(w, j))
FairSpec == /\ Spec
            /\ \A w \in Worker : WF_vars(Execute(w))
            /\ \A j \in Job : SF_vars(Poll(j))

-----------------------------------------------------------------------------
\* Confirmed is a proof that the job settled, not a claim (dispatch.rs:9-10):
\* the call it stands for reached the external system, whichever of several
\* executions delivered the verdict.  (The examples' jobs report success for
\* an unknown fate, by choice.)
ConfirmedIsProof ==
    origin.machine.tag = "Confirmed" /\ ~Infallible => origin.machine.job \in landed

\* A job is done only when its origin has taken the verdict: delivery comes
\* before the ack, and a verdict refused or lost never is acknowledged.
DoneIsConfirmed ==
    \A j \in Job : job[j].status = "done" => origin.machine = Machine("Confirmed", j)

\* A follow-up never blindly repeats a call whose fate is unknown
\* (dispatch.rs:13-15): over retries, takeovers and crashes, one execution at
\* most calls without asking first.
NoBlindResubmit == \A j \in Job : blind[j] <= 1

\* The entity's own status keeps step with the verdict: no order is placed,
\* filled or cancelled and no ticket closed but by a confirmed job; and what
\* the guards let through, evolve can follow, so no replay loses the entity.
StatusFollowsVerdict ==
    /\ origin.machine # Corrupt
    /\ origin.status \in {"Placed", "Filled", "Cancelled", "Closed"}
          => origin.machine.tag = "Confirmed"

\* A dispatch does not dangle: its verdict arrives, unless its job is dead.
DispatchSettles ==
    \A j \in Job :
        origin.machine = Machine("InFlight", j)
            ~> (origin.machine # Machine("InFlight", j) \/ job[j].status = "dead")
=============================================================================

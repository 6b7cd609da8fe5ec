------------------------------ MODULE Reactors ------------------------------
(***************************************************************************)
(* One reactor and what it reacts to: an entity decides a command, here    *)
(* the inventory of the complex example in its bounded arithmetic, and its *)
(* event is delivered to a reactor that depends on several entities and is *)
(* wrapped in RetryOnBusy.  Every attempt walks the chain of handlers to   *)
(* the event's own; an error that leads to a busy database is retried      *)
(* after a growing delay.                                                  *)
(***************************************************************************)
EXTENDS Naturals, Sequences, FiniteSets

CONSTANTS MaxUnits,    \* u32::MAX of the inventory's quantities
          Width,       \* bits of the integers a delay is computed in
          Attempts,    \* RETRY_MAX_ATTEMPTS
          BaseDelay,   \* RETRY_BASE_DELAY_MS
          MaxDelay,    \* RETRY_MAX_DELAY_MS
          Budget       \* the "~4.3s total retry budget" of reactor.rs:176

ASSUME ReactorsAssumption ==
    /\ MaxUnits \in Nat \ {0} /\ Width \in Nat \ {0}
    /\ Attempts \in Nat /\ BaseDelay \in Nat /\ MaxDelay \in Nat /\ Budget \in Nat

VARIABLES inventory,   \* the inventory entity
          delivery     \* the event being delivered to the reactor

reactorVars == <<inventory, delivery>>

-----------------------------------------------------------------------------
(* dependency.rs: an event of one of several entities.                     *)

\* OneOf: There once for every entity listed before the event's own, then
\* Here.  HasEntity::inject, as register_entities! writes it.
Here(e) == [at |-> 0, event |-> e]
There(one) == [at |-> one.at + 1, event |-> one.event]
Inject(deps, k, e) ==
    LET wrap[done \in 0..Len(deps)] == IF done = 0 THEN Here(e) ELSE There(wrap[done - 1])
    IN  wrap[k - 1]

\* Fold: Done(calls) once a handler has been picked, Remaining(one) before.
Done(calls) == [done |-> TRUE, calls |-> calls]
Remaining(one) == [done |-> FALSE, one |-> one]
Unwrap(one) == [at |-> one.at - 1, event |-> one.event]

\* Fold::on, and OneOf::on, which starts the chain.
On(fold, h) ==
    IF fold.done THEN fold
    ELSE IF fold.one.at = 0 THEN Done(<<h>>)
    ELSE Remaining(Unwrap(fold.one))

\* Mutant: the fallback runs whatever the handler returns.
OnWithFallbackAlways(fold, h, fallback, fails) ==
    IF fold.done THEN fold
    ELSE IF fold.one.at = 0 THEN Done(<<h, fallback>>)
    ELSE Remaining(Unwrap(fold.one))

\* on_with_fallback: the fallback gets the event the handler failed on.
OnWithFallback(fold, h, fallback, fails) ==
    IF fold.done THEN fold
    ELSE IF fold.one.at = 0 THEN Done(IF fails THEN <<h, fallback>> ELSE <<h>>)
    ELSE Remaining(Unwrap(fold.one))

\* exhaustive: the chain has one handler per entity, so it is done.  The
\* handler at position f, if any, has a fallback.
Exhaustive(deps, one, f, fails) ==
    LET chain[n \in 0..Len(deps)] ==
            IF n = 0 THEN Remaining(one)
            ELSE IF n = f THEN OnWithFallback(chain[n - 1], deps[n], "fallback", fails)
            ELSE On(chain[n - 1], deps[n])
    IN  chain[Len(deps)].calls

-----------------------------------------------------------------------------
(* reactor.rs: retries.                                                    *)

\* The powers of two up to the first that does not fit, which stands for the
\* value checked arithmetic does not have.
Power[n \in 0..Width] == IF n = 0 THEN 1 ELSE 2 * Power[n - 1]
Unrepresentable == Power[Width]
CheckedPow(attempt) == IF attempt < Width THEN Power[attempt] ELSE Unrepresentable
CheckedMul(base, multiplier) ==
    IF multiplier = Unrepresentable \/ base * multiplier >= Unrepresentable THEN Unrepresentable
    ELSE base * multiplier

\* Mutant: the exponential term wraps around.
BackoffWraps(attempt, base, cap) ==
    LET computed == IF attempt < Width THEN (base * Power[attempt]) % Power[Width] ELSE 0
    IN  IF computed < cap THEN computed ELSE cap

\* backoff_delay_ms.
backoff_delay_ms(attempt, base, cap) ==
    LET computed == CheckedMul(base, CheckedPow(attempt))
    IN  IF computed # Unrepresentable /\ computed < cap THEN computed ELSE cap

\* The time spent in a sequence of delays.
Slept(delays) ==
    LET slept[n \in 0..Len(delays)] == IF n = 0 THEN 0 ELSE slept[n - 1] + delays[n]
    IN  slept[Len(delays)]

\* is_busy_extended_code: the primary code is the low byte.
is_busy_extended_code(code) == code % 256 = 5

\* is_retryable_sqlite_busy walks the chain of sources from the outside in.
\* A node is a database error (bare, in sqlx::Error or boxed) with its code,
\* an error that names its source, a PersistenceError that boxes one without
\* naming it, or one whose source cannot be reached (AggregateError, or a
\* PersistenceError that has none).
Wrapping(kind) == [kind |-> kind, code |-> 0]
Database(code) == [kind |-> "database", code |-> code]
IsRetryable(chain) ==
    LET walk[n \in 1..Len(chain) + 1] ==
            /\ n <= Len(chain)
            /\ chain[n].kind # "sealed"
            /\ \/ chain[n].kind = "database" /\ is_busy_extended_code(chain[n].code)
               \/ walk[n + 1]
    IN  walk[1]

-----------------------------------------------------------------------------
(* inventory.rs.  An entity is absent or has on-hand units.                *)

InventoryCommands == [type : {"Initialize", "Restock", "Consume"}, n : 0..MaxUnits]
Absent == [exists |-> FALSE, n |-> 0]
OnHand(n) == [exists |-> TRUE, n |-> n]
Refused == [type |-> "error", n |-> 0]
Corrupted == [exists |-> FALSE, n |-> 1]

\* originate and evolve: Corrupted is a lifecycle that failed.
InventoryApply(entity, e) ==
    CASE ~entity.exists /\ e.type = "Initialized" -> OnHand(e.n)
      [] /\ entity.exists /\ e.type = "Restocked" /\ entity.n + e.n <= MaxUnits ->
             OnHand(entity.n + e.n)
      [] entity.exists /\ e.type = "Consumed" /\ e.n <= entity.n -> OnHand(entity.n - e.n)
      [] OTHER -> Corrupted

\* initialize.
InventoryInitialize(cmd) ==
    IF cmd.type = "Initialize" THEN [type |-> "Initialized", n |-> cmd.n] ELSE Refused

\* Mutant: the sum is not checked when a restock is decided.
TransitionUnchecked(onHand, cmd) ==
    CASE cmd.type = "Initialize" -> Refused
      [] cmd.type = "Restock" -> [type |-> "Restocked", n |-> cmd.n]
      [] cmd.type = "Consume" /\ cmd.n > onHand -> Refused
      [] OTHER -> [type |-> "Consumed", n |-> cmd.n]

\* transition.
InventoryTransition(onHand, cmd) ==
    CASE cmd.type = "Initialize" -> Refused
      [] cmd.type = "Restock" -> IF onHand + cmd.n > MaxUnits THEN Refused
                                 ELSE [type |-> "Restocked", n |-> cmd.n]
      [] cmd.type = "Consume" /\ cmd.n > onHand -> Refused
      [] OTHER -> [type |-> "Consumed", n |-> cmd.n]

InventoryDecide(entity, cmd) ==
    IF entity.exists THEN InventoryTransition(entity.n, cmd) ELSE InventoryInitialize(cmd)

-----------------------------------------------------------------------------
(* The delivery of an event: RetryOnBusy around a chain of handlers.       *)

Entities == <<"Order", "Inventory", "Ticket">>
NoDelivery == [pc |-> "none"]
LifecycleRefusal == [pc |-> "refused"]

ReactorsInit == inventory = Absent /\ delivery = NoDelivery

\* An event of the k-th of the first n entities.
BridgeDispatch(n, k, f) ==
    delivery' = [pc |-> "react", deps |-> SubSeq(Entities, 1, n), event |-> k, fallback |-> f,
                 delays |-> <<>>, calls |-> <<>>, failed |-> FALSE, cause |-> "none"]

\* A command the inventory accepts.  Lifecycle::handle tries its event on a
\* scratch copy; one that does not apply fails the command, any other is
\* committed and delivered.
InventoryCommand(cmd) ==
    LET e == InventoryDecide(inventory, cmd)
        scratch == InventoryApply(inventory, e)
    IN  /\ delivery = NoDelivery
        /\ e # Refused
        /\ IF scratch = Corrupted
           THEN delivery' = LifecycleRefusal /\ UNCHANGED inventory
           ELSE /\ inventory' = scratch
                /\ \E n \in 2..3, f \in 0..3 : f <= n /\ BridgeDispatch(n, 2, f)

\* An event of another entity.
OtherEvent(n, k, f) ==
    /\ delivery = NoDelivery
    /\ Entities[k] # "Inventory"
    /\ BridgeDispatch(n, k, f)
    /\ UNCHANGED inventory

\* The handlers an attempt runs, and whether it ends in an error: one
\* handler may fail, and its fallback may recover.
Calls(fails) ==
    LET d == delivery
    IN  Exhaustive(d.deps, Inject(d.deps, d.event, d.deps[d.event]), d.fallback, fails)
Outcome(fails) == [delivery EXCEPT !.calls = Calls(fails), !.failed = fails]

\* What an error is, by definition: a busy code behind wrappings that all
\* lead to their source.
BusyCodes == {5, 261, 517, 773}
Errors == [wrapped : UNION {[1..n -> {"source", "persistence", "sealed"}] : n \in 0..2},
           code : BusyCodes \cup {1, 6, 8}]
ErrorChain(error) ==
    [n \in DOMAIN error.wrapped |-> Wrapping(error.wrapped[n])] \o <<Database(error.code)>>
Cause(error) ==
    IF error.code \in BusyCodes /\ \A n \in DOMAIN error.wrapped : error.wrapped[n] # "sealed"
    THEN "busy" ELSE "other"

\* retry_with_backoff: an attempt succeeds,
Succeed ==
    /\ delivery.pc = "react"
    /\ \E fails \in BOOLEAN :
          /\ fails => delivery.fallback = delivery.event
          /\ delivery' = [Outcome(fails) EXCEPT !.pc = "done", !.cause = "none"]
    /\ UNCHANGED inventory

\* fails with an error that is retried after a delay,
RetryAfter(error) ==
    LET d == delivery
        attempt == Len(d.delays)
    IN  /\ d.pc = "react"
        /\ attempt < Attempts
        /\ IsRetryable(ErrorChain(error))
        /\ delivery' = [Outcome(TRUE) EXCEPT !.cause = Cause(error),
              !.delays = Append(@, backoff_delay_ms(attempt, BaseDelay, MaxDelay))]
        /\ UNCHANGED inventory

\* or fails for good.
GiveUp(error) ==
    /\ delivery.pc = "react"
    /\ Len(delivery.delays) < Attempts => ~IsRetryable(ErrorChain(error))
    /\ delivery' = [Outcome(TRUE) EXCEPT !.pc = "done", !.cause = Cause(error)]
    /\ UNCHANGED inventory

\* The bridge logs an error and goes on to the next event.
Delivered == /\ delivery.pc = "done"
             /\ delivery' = NoDelivery
             /\ UNCHANGED inventory

ReactorsNext ==
    \/ \E cmd \in InventoryCommands : InventoryCommand(cmd)
    \/ \E n \in 1..3, k \in 1..3, f \in 0..3 : k <= n /\ f <= n /\ OtherEvent(n, k, f)
    \/ Succeed
    \/ \E error \in Errors : RetryAfter(error) \/ GiveUp(error)
    \/ Delivered

ReactorsSpec == ReactorsInit /\ [][ReactorsNext]_reactorVars

-----------------------------------------------------------------------------
\* A fallback reprocesses an event that its own handler has failed on, and no
\* other: in every attempt, the retries of a busy database included, it runs
\* once, after the handler and only when that has failed, and the fallback at
\* another position of the list of dependencies never does.
FallbackAfterFailure ==
    delivery.pc \in {"react", "done"} /\ delivery.calls # <<>> =>
        LET own == delivery.deps[delivery.event]
        IN  delivery.calls = IF delivery.failed /\ delivery.fallback = delivery.event
                             THEN <<own, "fallback">> ELSE <<own>>

\* A reactor is retried for a busy database and for nothing else, whatever
\* the error is wrapped in, and is given up with one only when the budget is
\* spent.  The delays never shrink, also where the exponential term no
\* longer fits its integer, never pass their cap, and add up to the budget
\* the comments promise (reactor.rs:176, projection.rs:540).
RetryBounded ==
    delivery.pc \in {"react", "done"} =>
        LET delays == delivery.delays
        IN  /\ delivery.pc = "react" /\ delays # <<>> => delivery.cause = "busy"
            /\ delivery.pc = "done" /\ delivery.cause = "busy" => Slept(delays) = Budget
            /\ Slept(delays) <= Budget
            /\ \A n \in 2..Len(delays) : delays[n - 1] <= delays[n]

\* No sequence of commands brings the inventory to accept one whose event it
\* cannot apply: the arithmetic that decides and the arithmetic that evolves
\* agree up to both ends of u32, so callers are told Overflow or Underflow
\* and never meet the lifecycle's own refusal.
AcceptedApplies == delivery # LifecycleRefusal
=============================================================================

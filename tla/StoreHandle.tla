----------------------------- MODULE StoreHandle -----------------------------
(***************************************************************************)
(* The life of a store handle across the C ABI (event-sorcery-ffi): a      *)
(* process-wide registry maps the address of the caller's owner cell to    *)
(* the store published there; every call takes a lease on the store for    *)
(* its duration; es_close turns the store away from new calls, waits on a  *)
(* condition variable until the leases are gone, tears the engine down,    *)
(* and retires the registry entry.  Closers that find the store already    *)
(* closing join the first.  A panicking call poisons the store.            *)
(*                                                                         *)
(* Each step is one critical section: the registry mutex, the state mutex  *)
(* or a notify_all outside both.  A call that returns early with an error  *)
(* and changes nothing is a stuttering step and has no action.             *)
(***************************************************************************)
EXTENDS Naturals, FiniteSets

CONSTANTS
    Cell,     \* addresses of owner cells
    Store,    \* EsStore allocations; never reused while a closer holds one
    Thread,   \* threads calling the ABI
    None      \* null, or no entry

ASSUME NoneAssumption == None \notin Store
ASSUME ThreadAssumption == IsFiniteSet(Thread)

VARIABLES
    registry,  \* per cell, the store its StoreEntry holds
    cell,      \* per cell, the pointer the caller's memory holds
    state,     \* per store, its StoreState
    active,    \* per store, active_calls
    slot,      \* per store, is `inner` still Some?
    poisoned,  \* per store
    freed,     \* per store, how often its raw Arc was released
    pc,        \* per thread, where its current call stands
    at,        \* per thread, the cell its call names
    on         \* per thread, the store its call works on

vars == <<registry, cell, state, active, slot, poisoned, freed, pc, at, on>>

StoreState == {"unborn", "open", "closing", "closed", "closed_panic"}

Closed == {"closed", "closed_panic"}

Phase == {"idle",
          "opening",     \* es_open: the cell is nulled, nothing published yet
          "leased",      \* a StoreLease is held, ffi_call not entered
          "body",        \* inside the closure of ffi_call
          "drop",        \* the call is over, StoreLease::drop runs next
          "notify",      \* the last lease is back, notify_all pending
          "fields",      \* the lease's Arc<StoreInner> is still held
          "destroy",     \* closing as Destroy, about to look at active_calls
          "destroyWait", \* parked on state_changed
          "teardown",    \* inner taken, being dropped
          "announce",    \* outcome stored, notify_all pending
          "join",        \* closing as Join, about to look at the state
          "joinWait",    \* parked on state_changed
          "retire"}      \* about to retire the registry entry

Init ==
    /\ registry = [c \in Cell |-> None] /\ cell = [c \in Cell |-> None]
    /\ state = [s \in Store |-> "unborn"] /\ active = [s \in Store |-> 0]
    /\ slot = [s \in Store |-> FALSE] /\ poisoned = [s \in Store |-> FALSE]
    /\ freed = [s \in Store |-> 0]
    /\ pc = [t \in Thread |-> "idle"]
    /\ at = [t \in Thread |-> None] /\ on = [t \in Thread |-> None]

Goto(t, phase) == pc' = [pc EXCEPT ![t] = phase]

\* The call of t returns.
Return(t) ==
    /\ Goto(t, "idle")
    /\ at' = [at EXCEPT ![t] = None]
    /\ on' = [on EXCEPT ![t] = None]

\* notify_all on the state_changed of s.  A thread parks under the state mutex
\* it tested its condition under, so it is parked before any later change.
NotifyAll(s) ==
    [u \in Thread |-> IF on[u] = s /\ pc[u] = "destroyWait" THEN "destroy"
                      ELSE IF on[u] = s /\ pc[u] = "joinWait" THEN "join"
                      ELSE pc[u]]

-----------------------------------------------------------------------------
(* es_open.                                                                *)

\* The contract of out_store: an unowned cell, no other es_open on it.  The
\* cell is nulled before the options are looked at.
OpenBegin(t, c) ==
    /\ pc[t] = "idle"
    /\ cell[c] = None /\ \A u \in Thread : ~(pc[u] = "opening" /\ at[u] = c)
    /\ cell' = [cell EXCEPT ![c] = None]
    /\ Goto(t, "opening")
    /\ at' = [at EXCEPT ![t] = c]
    /\ UNCHANGED <<registry, state, active, slot, poisoned, freed, on>>

\* publish_store; a cell whose close has not retired its entry is refused.
OpenPublish(t, s) ==
    /\ pc[t] = "opening"
    /\ state[s] = "unborn"
    /\ registry[at[t]] = None
    /\ registry' = [registry EXCEPT ![at[t]] = s]
    /\ cell' = [cell EXCEPT ![at[t]] = s]
    /\ state' = [state EXCEPT ![s] = "open"]
    /\ slot' = [slot EXCEPT ![s] = TRUE]
    /\ Return(t)
    /\ UNCHANGED <<active, poisoned, freed>>

\* Options, runtime, pool or migration fail, or the cell is still registered.
OpenFail(t) ==
    /\ pc[t] = "opening"
    /\ Return(t)
    /\ UNCHANGED <<registry, cell, state, active, slot, poisoned, freed>>

-----------------------------------------------------------------------------
(* Data calls: acquire, ffi_call, StoreLease::drop.                        *)

\* The checks of EsStore::acquire, under the registry and the state mutex.
Acquirable(c) ==
    /\ registry[c] # None
    /\ cell[c] = registry[c]
    /\ state[registry[c]] = "open"
    /\ slot[registry[c]]

Acquire(t, c) ==
    /\ pc[t] = "idle"
    /\ Acquirable(c)
    /\ active' = [active EXCEPT ![registry[c]] = @ + 1]
    /\ Goto(t, "leased")
    /\ at' = [at EXCEPT ![t] = c]
    /\ on' = [on EXCEPT ![t] = registry[c]]
    /\ UNCHANGED <<registry, cell, state, slot, poisoned, freed>>

\* ffi_call refuses a poisoned store before running the call.
Enter(t) ==
    /\ pc[t] = "leased"
    /\ Goto(t, IF poisoned[on[t]] THEN "drop" ELSE "body")
    /\ UNCHANGED <<registry, cell, state, active, slot, poisoned, freed, at, on>>

\* The call returns a value or an error, or unwinds and poisons the store.
Body(t) ==
    /\ pc[t] = "body"
    /\ Goto(t, "drop")
    /\ \E panics \in BOOLEAN : poisoned' = [poisoned EXCEPT ![on[t]] = @ \/ panics]
    /\ UNCHANGED <<registry, cell, state, active, slot, freed, at, on>>

\* Counted down as long as the store counts; otherwise the count is corrupt and
\* the store is poisoned.
Counted(s) == state[s] \notin Closed /\ active[s] > 0

\* Mutant: only a store that is still open wakes its closer.
DrainedWhileOpen(s) == active[s] = 1 /\ state[s] = "open"

Drained(s) == Counted(s) => active[s] = 1

\* StoreLease::drop, up to the unlock of the state mutex.
DropLease(t) ==
    /\ pc[t] = "drop"
    /\ active' = IF Counted(on[t]) THEN [active EXCEPT ![on[t]] = @ - 1] ELSE active
    /\ poisoned' = [poisoned EXCEPT ![on[t]] = @ \/ ~Counted(on[t])]
    /\ Goto(t, IF Drained(on[t]) THEN "notify" ELSE "fields")
    /\ UNCHANGED <<registry, cell, state, slot, freed, at, on>>

NotifyDrained(t) ==
    /\ pc[t] = "notify"
    /\ pc' = [NotifyAll(on[t]) EXCEPT ![t] = "fields"]
    /\ UNCHANGED <<registry, cell, state, active, slot, poisoned, freed, at, on>>

\* The fields of the lease are dropped after its drop body, Arc<StoreInner>
\* among them: the last one to go destroys the engine on this thread.
DropFields(t) ==
    /\ pc[t] = "fields"
    /\ Return(t)
    /\ UNCHANGED <<registry, cell, state, active, slot, poisoned, freed>>

-----------------------------------------------------------------------------
(* es_close.                                                               *)

\* Mutant: every closer destroys.
DestroysAlways(s) == TRUE

\* CloseOutcome: the first closer destroys the store, the others join it.
Destroys(s) == state[s] = "open"

\* linearize_close: the registry entry decides, the cell is nulled.
CloseBegin(t, c) ==
    /\ pc[t] = "idle"
    /\ registry[c] # None
    /\ cell[c] \in {None, registry[c]}
    /\ cell' = [cell EXCEPT ![c] = None]
    /\ at' = [at EXCEPT ![t] = c]
    /\ LET s == registry[c]
       IN  /\ on' = [on EXCEPT ![t] = s]
           /\ state' = [state EXCEPT ![s] = IF @ = "open" THEN "closing" ELSE @]
           /\ pc' = [NotifyAll(s) EXCEPT ![t] = IF Destroys(s) THEN "destroy" ELSE "join"]
    /\ UNCHANGED <<registry, active, slot, poisoned, freed>>

\* Without an entry the call nulls the cell and answers ES_OK.
CloseAbsent(t, c) ==
    /\ pc[t] = "idle"
    /\ registry[c] = None
    /\ cell' = [cell EXCEPT ![c] = None]
    /\ UNCHANGED <<registry, state, active, slot, poisoned, freed, pc, at, on>>

\* Mutant: the engine is taken without waiting for the calls.
DestroyTakesAtOnce(t) ==
    /\ pc[t] = "destroy"
    /\ Goto(t, "teardown")
    /\ slot' = [slot EXCEPT ![on[t]] = FALSE]
    /\ UNCHANGED <<registry, cell, state, active, poisoned, freed, at, on>>

\* EsStore::close as Destroy: park while calls are active, then take the engine.
Destroy(t) ==
    /\ pc[t] = "destroy"
    /\ IF state[on[t]] = "closing" /\ active[on[t]] # 0
       THEN Goto(t, "destroyWait") /\ UNCHANGED slot
       ELSE Goto(t, "teardown") /\ slot' = [slot EXCEPT ![on[t]] = FALSE]
    /\ UNCHANGED <<registry, cell, state, active, poisoned, freed, at, on>>

\* The engine is dropped inside catch_unwind; the outcome is stored.
Teardown(t) ==
    /\ pc[t] = "teardown"
    /\ \E outcome \in Closed : state' = [state EXCEPT ![on[t]] = outcome]
    /\ Goto(t, "announce")
    /\ UNCHANGED <<registry, cell, active, slot, poisoned, freed, at, on>>

Announce(t) ==
    /\ pc[t] = "announce"
    /\ pc' = [NotifyAll(on[t]) EXCEPT ![t] = "retire"]
    /\ UNCHANGED <<registry, cell, state, active, slot, poisoned, freed, at, on>>

\* EsStore::close as Join.
Join(t) ==
    /\ pc[t] = "join"
    /\ Goto(t, IF state[on[t]] \in Closed THEN "retire" ELSE "joinWait")
    /\ UNCHANGED <<registry, cell, state, active, slot, poisoned, freed, at, on>>

\* Mutant: whatever store the cell names is retired.
RetiresAnyEntry(t) == registry[at[t]] # None

\* retire_store removes the entry only if it is still this store's.
RetiresEntry(t) == registry[at[t]] = on[t]

Retire(t) ==
    /\ pc[t] = "retire"
    /\ IF RetiresEntry(t)
       THEN /\ registry' = [registry EXCEPT ![at[t]] = None]
            /\ freed' = [freed EXCEPT ![registry[at[t]]] = @ + 1]
       ELSE UNCHANGED <<registry, freed>>
    /\ Return(t)
    /\ UNCHANGED <<cell, state, active, slot, poisoned>>

-----------------------------------------------------------------------------
Call(t) == Enter(t) \/ Body(t) \/ DropLease(t) \/ NotifyDrained(t) \/ DropFields(t)

Close(t) == Destroy(t) \/ Teardown(t) \/ Announce(t) \/ Join(t) \/ Retire(t)

Next == \E t \in Thread :
    \/ \E c \in Cell : OpenBegin(t, c) \/ Acquire(t, c) \/ CloseBegin(t, c) \/ CloseAbsent(t, c)
    \/ \E s \in Store : OpenPublish(t, s)
    \/ OpenFail(t) \/ Call(t) \/ Close(t)

Spec == Init /\ [][Next]_vars

\* Threads run: a call in progress returns, a thread that is not parked goes on.
\* Nobody is obliged to start a call.
FairSpec == Spec /\ \A t \in Thread : WF_vars(Call(t)) /\ WF_vars(Close(t))

-----------------------------------------------------------------------------
(* Properties.                                                             *)

\* The threads whose lease still counts, and those that keep the engine alive.
Counting(s) == {t \in Thread : on[t] = s /\ pc[t] \in {"leased", "body", "drop"}}

Holding(s) ==
    {t \in Thread : on[t] = s /\ pc[t] \in {"leased", "body", "drop", "notify", "fields", "teardown"}}

\* "Close MUST wait for acquired calls to drain before destroying the engine":
\* once the destroyer has taken the engine, and ever after, no call of that store
\* is running, whatever calls, closers and panics came in between.
ClosedIsDrained ==
    \A s \in Store : (state[s] # "unborn" /\ ~slot[s]) => Counting(s) = {}

\* One closer destroys: two threads never tear the same store down, and once the
\* outcome is stored nobody is left who would.
DestroyedOnce ==
    \A s \in Store :
        LET destroyers == {t \in Thread : on[t] = s /\ pc[t] \in {"destroy", "destroyWait", "teardown"}}
        IN  /\ Cardinality(destroyers) <= 1
            /\ state[s] \in Closed => destroyers = {}
            /\ state[s] = "closing" => destroyers # {}

\* A pointer in an owner cell is never dangling, and the raw Arc behind it is
\* released at most once, however many closers retire the entry.
HandleIsAlive ==
    /\ \A c \in Cell : cell[c] # None => registry[c] = cell[c] /\ freed[cell[c]] = 0
    /\ \A s \in Store : freed[s] <= 1

\* An open store stays reachable through its cell: a late closer of the store
\* that lived there before (retire_store after a reopen) does not unregister it.
OpenIsRegistered ==
    \A s \in Store : state[s] = "open" => \E c \in Cell : registry[c] = s /\ cell[c] = s

\* No wakeup is lost: every es_close returns once the calls in flight return,
\* for the destroyer and for every joiner, poisoned store or not.
CloseReturns ==
    \A t \in Thread : (pc[t] \in {"destroy", "destroyWait", "join", "joinWait"}) ~> (pc[t] = "idle")

\* The engine of a closed store is let go of by everyone in the end (a returning
\* call may be the last to hold it, after es_close has answered).
EngineReleased ==
    \A s \in Store : (state[s] = "closing") ~> (~slot[s] /\ Holding(s) = {})

=============================================================================

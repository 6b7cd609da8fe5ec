-------------------------- MODULE StoreHandleProofs --------------------------
(***************************************************************************)
(* The safety of the store handle (StoreHandle), for any number of cells,  *)
(* stores and threads.  The four invariants of the run follow from IInv:   *)
(* the phases of the calls, the registry, the engine slot and the count of *)
(* active calls have to be carried together, because es_close looks at one *)
(* of them only (the count) before it takes the engine.                    *)
(***************************************************************************)
EXTENDS StoreHandle, FiniteSetTheorems, TLAPS

TypeOK ==
    /\ registry \in [Cell -> Store \cup {None}]
    /\ cell \in [Cell -> Store \cup {None}]
    /\ state \in [Store -> StoreState]
    /\ active \in [Store -> Nat]
    /\ slot \in [Store -> BOOLEAN]
    /\ poisoned \in [Store -> BOOLEAN]
    /\ freed \in [Store -> Nat]
    /\ pc \in [Thread -> Phase]
    /\ at \in [Thread -> Cell \cup {None}]
    /\ on \in [Thread -> Store \cup {None}]

Leasing == {"leased", "body", "drop"}

Destroying == {"destroy", "destroyWait", "teardown"}

\* What the phase of a call says of the store it works on.
PhaseInv ==
    \A t \in Thread :
        /\ pc[t] # "idle" => at[t] \in Cell
        /\ pc[t] \in {"idle", "opening"} => on[t] = None
        /\ pc[t] \notin {"idle", "opening"} => on[t] \in Store /\ state[on[t]] # "unborn"
        /\ pc[t] \in Destroying => state[on[t]] = "closing"
        /\ pc[t] = "teardown" => ~slot[on[t]]
        /\ pc[t] \in {"announce", "retire"} => state[on[t]] \in Closed

\* A closing store has one destroyer.
DestroyerInv ==
    /\ \A t, u \in Thread :
          pc[t] \in Destroying /\ pc[u] \in Destroying /\ on[t] = on[u] => t = u
    /\ \A s \in Store :
          state[s] = "closing" => \E t \in Thread : on[t] = s /\ pc[t] \in Destroying

\* The registry maps cells to distinct live stores; a cell names an open one.
RegistryInv ==
    /\ \A c \in Cell : registry[c] # None => state[registry[c]] # "unborn" /\ freed[registry[c]] = 0
    /\ \A c, d \in Cell : registry[c] # None /\ registry[c] = registry[d] => c = d
    /\ \A c \in Cell : cell[c] # None => registry[c] = cell[c] /\ state[cell[c]] = "open"
    /\ \A s \in Store : freed[s] <= 1 /\ (state[s] = "unborn" => freed[s] = 0)
    /\ OpenIsRegistered

\* The count of active calls is exact, and a store without its engine has none.
CountInv ==
    /\ \A s \in Store : active[s] = Cardinality(Counting(s))
    /\ \A s \in Store : slot[s] => state[s] \in {"open", "closing"}
    /\ \A s \in Store : ~slot[s] => Counting(s) = {}

IInv == TypeOK /\ PhaseInv /\ DestroyerInv /\ RegistryInv /\ CountInv

-----------------------------------------------------------------------------
(* The frame: what a step of one thread does to the others.                *)

\* A step of thread t, the body of Next.
Step(t) ==
    \/ \E c \in Cell : OpenBegin(t, c) \/ Acquire(t, c) \/ CloseBegin(t, c) \/ CloseAbsent(t, c)
    \/ \E s \in Store : OpenPublish(t, s)
    \/ OpenFail(t) \/ Call(t) \/ Close(t)

\* The others keep their store and their place, unless they are woken.
Others(t) ==
    \A u \in Thread \ {t} :
        /\ at'[u] = at[u] /\ on'[u] = on[u]
        /\ \/ pc'[u] = pc[u]
           \/ pc[u] = "destroyWait" /\ pc'[u] = "destroy"
           \/ pc[u] = "joinWait" /\ pc'[u] = "join"

\* Every step is the step of one thread.
LEMMA StepOfOne == Next <=> \E t \in Thread : Step(t)
BY DEF Next, Step

\* notify_all moves the parked threads of one store and nobody else.
LEMMA NotifyWakes ==
    ASSUME TypeOK, NEW s \in Store, NEW t \in Thread, NEW p \in Phase,
           pc' = [NotifyAll(s) EXCEPT ![t] = p]
    PROVE  /\ pc' \in [Thread -> Phase] /\ pc'[t] = p
           /\ \A u \in Thread \ {t} :
                 \/ pc'[u] = pc[u]
                 \/ pc[u] = "destroyWait" /\ pc'[u] = "destroy"
                 \/ pc[u] = "joinWait" /\ pc'[u] = "join"
<1>1. NotifyAll(s) \in [Thread -> Phase]
  BY DEF TypeOK, NotifyAll, Phase
<1>2. \A u \in Thread : NotifyAll(s)[u] = (IF on[u] = s /\ pc[u] = "destroyWait" THEN "destroy"
                                           ELSE IF on[u] = s /\ pc[u] = "joinWait" THEN "join"
                                           ELSE pc[u])
  BY DEF NotifyAll
<1>3. pc' \in [Thread -> Phase] /\ pc'[t] = p /\ \A u \in Thread \ {t} : pc'[u] = NotifyAll(s)[u]
  BY <1>1
<1> QED
  BY <1>2, <1>3

\* No step moves, rebinds or unparks a thread other than by notify_all.
LEMMA OthersKept ==
    ASSUME TypeOK, PhaseInv, NEW t \in Thread, Step(t)
    PROVE  Others(t) /\ TypeOK'
<1> USE DEF TypeOK, PhaseInv, Others, Goto, Return, Phase, StoreState, Closed
<1>1. ASSUME NEW c \in Cell, OpenBegin(t, c) PROVE Others(t) /\ TypeOK'
  BY <1>1 DEF OpenBegin
<1>2. ASSUME NEW c \in Cell, Acquire(t, c) PROVE Others(t) /\ TypeOK'
  BY <1>2 DEF Acquire, Acquirable
<1>3. ASSUME NEW c \in Cell, CloseBegin(t, c) PROVE Others(t) /\ TypeOK'
  <2> DEFINE p == IF Destroys(registry[c]) THEN "destroy" ELSE "join"
  <2>1. registry[c] \in Store /\ p \in Phase
    BY <1>3 DEF CloseBegin
  <2>2. pc' = [NotifyAll(registry[c]) EXCEPT ![t] = p]
    BY Zenon, <1>3 DEF CloseBegin
  <2> HIDE DEF p
  <2>3. pc' \in [Thread -> Phase] /\ \A u \in Thread \ {t} :
                 \/ pc'[u] = pc[u]
                 \/ pc[u] = "destroyWait" /\ pc'[u] = "destroy"
                 \/ pc[u] = "joinWait" /\ pc'[u] = "join"
    BY Zenon, <2>1, <2>2, NotifyWakes
  <2> QED
    BY <1>3, <2>1, <2>3 DEF CloseBegin
<1>4. ASSUME NEW c \in Cell, CloseAbsent(t, c) PROVE Others(t) /\ TypeOK'
  BY <1>4 DEF CloseAbsent
<1>5. ASSUME NEW s \in Store, OpenPublish(t, s) PROVE Others(t) /\ TypeOK'
  BY <1>5 DEF OpenPublish
<1>6. CASE OpenFail(t)
  BY <1>6 DEF OpenFail
<1>7. CASE Call(t)
  <2>1. CASE Enter(t)
    BY <2>1 DEF Enter
  <2>2. CASE Body(t)
    BY <2>2 DEF Body
  <2>3. CASE DropLease(t)
    BY SMTT(30), <2>3 DEF DropLease, Counted
  <2>4. CASE NotifyDrained(t)
    BY Zenon, <2>4, NotifyWakes DEF NotifyDrained
  <2>5. CASE DropFields(t)
    BY <2>5 DEF DropFields
  <2> QED
    BY <1>7, <2>1, <2>2, <2>3, <2>4, <2>5 DEF Call
<1>8. CASE Close(t)
  <2>1. CASE Destroy(t)
    BY Zenon, <2>1 DEF Destroy
  <2>2. CASE Teardown(t)
    BY <2>2 DEF Teardown
  <2>3. CASE Announce(t)
    BY Zenon, <2>3, NotifyWakes DEF Announce
  <2>4. CASE Join(t)
    BY <2>4 DEF Join
  <2>5. CASE Retire(t)
    BY <2>5 DEF Retire, RetiresEntry
  <2> QED
    BY <1>8, <2>1, <2>2, <2>3, <2>4, <2>5 DEF Close
<1> QED
  BY <1>1, <1>2, <1>3, <1>4, <1>5, <1>6, <1>7, <1>8 DEF Step

-----------------------------------------------------------------------------
(* The four parts of IInv, each kept by every step.                        *)

\* A call's phase and its store's state move together: only the destroyer
\* changes a closing store, and it does so between its own phases.
LEMMA PhaseKept ==
    ASSUME TypeOK, PhaseInv, DestroyerInv, RegistryInv, NEW t \in Thread, Step(t)
    PROVE  PhaseInv'
<1> USE DEF TypeOK, PhaseInv, Others, Goto, Return, Phase, StoreState, Closed, Destroying
<1>0. Others(t) /\ TypeOK'
  BY OthersKept
<1>1. ASSUME NEW c \in Cell, OpenBegin(t, c) PROVE PhaseInv'
  BY <1>1 DEF OpenBegin
<1>2. ASSUME NEW c \in Cell, Acquire(t, c) PROVE PhaseInv'
  BY <1>2 DEF Acquire, Acquirable
<1>3. ASSUME NEW c \in Cell, CloseBegin(t, c) PROVE PhaseInv'
  <2>1. registry[c] \in Store /\ state[registry[c]] # "unborn"
    BY <1>3 DEF CloseBegin, RegistryInv
  <2>2. pc'[t] = (IF state[registry[c]] = "open" THEN "destroy" ELSE "join")
    BY <1>3 DEF CloseBegin, Destroys, NotifyAll
  <2>3. on'[t] = registry[c] /\ at'[t] = c /\ slot' = slot
    BY <1>3 DEF CloseBegin
  <2>4. \A s \in Store : state'[s] = (IF s = registry[c] /\ state[s] = "open" THEN "closing" ELSE state[s])
    BY <1>3, <2>1 DEF CloseBegin
  <2> QED
    BY <1>0, <2>1, <2>2, <2>3, <2>4
<1>4. ASSUME NEW c \in Cell, CloseAbsent(t, c) PROVE PhaseInv'
  BY <1>4 DEF CloseAbsent
<1>5. ASSUME NEW s \in Store, OpenPublish(t, s) PROVE PhaseInv'
  BY <1>5 DEF OpenPublish
<1>6. CASE OpenFail(t)
  BY <1>6 DEF OpenFail
<1>7. CASE Call(t)
  <2>1. CASE Enter(t)
    BY <2>1 DEF Enter
  <2>2. CASE Body(t)
    BY <2>2 DEF Body
  <2>3. CASE DropLease(t)
    BY <2>3 DEF DropLease
  <2>4. CASE NotifyDrained(t)
    <3>1. pc[t] = "notify" /\ pc'[t] = "fields" /\ UNCHANGED <<state, slot, at, on>>
      BY <2>4 DEF NotifyDrained, NotifyAll
    <3> QED
      BY <1>0, <3>1
  <2>5. CASE DropFields(t)
    BY <2>5 DEF DropFields
  <2> QED
    BY <1>7, <2>1, <2>2, <2>3, <2>4, <2>5 DEF Call
<1>8. CASE Close(t)
  <2>1. CASE Destroy(t)
    BY <2>1 DEF Destroy
  <2>2. CASE Teardown(t)
    BY <2>2 DEF Teardown, DestroyerInv
  <2>3. CASE Announce(t)
    <3>1. pc[t] = "announce" /\ pc'[t] = "retire" /\ UNCHANGED <<state, slot, at, on>>
      BY <2>3 DEF Announce, NotifyAll
    <3> QED
      BY <1>0, <3>1
  <2>4. CASE Join(t)
    BY <2>4 DEF Join
  <2>5. CASE Retire(t)
    BY <2>5 DEF Retire, RetiresEntry
  <2> QED
    BY <1>8, <2>1, <2>2, <2>3, <2>4, <2>5 DEF Close
<1> QED
  BY <1>1, <1>2, <1>3, <1>4, <1>5, <1>6, <1>7, <1>8 DEF Step

\* Only the closer that finds the store open becomes its destroyer, and it stays
\* the destroyer until it stores the outcome.
LEMMA DestroyerKept ==
    ASSUME TypeOK, PhaseInv, DestroyerInv, RegistryInv, NEW t \in Thread, Step(t)
    PROVE  DestroyerInv'
<1> USE DEF TypeOK, PhaseInv, Others, Goto, Return, Phase, StoreState, Closed, Destroying, DestroyerInv
<1>0. Others(t) /\ TypeOK'
  BY OthersKept
<1>1. ASSUME NEW c \in Cell, OpenBegin(t, c) PROVE DestroyerInv'
  BY <1>1 DEF OpenBegin
<1>2. ASSUME NEW c \in Cell, Acquire(t, c) PROVE DestroyerInv'
  BY <1>2 DEF Acquire, Acquirable
<1>3. ASSUME NEW c \in Cell, CloseBegin(t, c) PROVE DestroyerInv'
  <2>1. registry[c] \in Store /\ state[registry[c]] # "unborn" /\ pc[t] = "idle"
    BY <1>3 DEF CloseBegin, RegistryInv
  <2>2. pc'[t] = (IF state[registry[c]] = "open" THEN "destroy" ELSE "join")
    BY <1>3 DEF CloseBegin, Destroys, NotifyAll
  <2>3. on'[t] = registry[c]
    BY <1>3 DEF CloseBegin
  <2>4. \A s \in Store : state'[s] = (IF s = registry[c] /\ state[s] = "open" THEN "closing" ELSE state[s])
    BY <1>3, <2>1 DEF CloseBegin
  <2> QED
    BY SMTT(30), <1>0, <2>1, <2>2, <2>3, <2>4
<1>4. ASSUME NEW c \in Cell, CloseAbsent(t, c) PROVE DestroyerInv'
  BY <1>4 DEF CloseAbsent
<1>5. ASSUME NEW s \in Store, OpenPublish(t, s) PROVE DestroyerInv'
  BY <1>5 DEF OpenPublish
<1>6. CASE OpenFail(t)
  BY <1>6 DEF OpenFail
<1>7. CASE Call(t)
  <2>1. CASE Enter(t)
    BY <2>1 DEF Enter
  <2>2. CASE Body(t)
    BY <2>2 DEF Body
  <2>3. CASE DropLease(t)
    BY <2>3 DEF DropLease
  <2>4. CASE NotifyDrained(t)
    <3>1. pc[t] = "notify" /\ pc'[t] = "fields" /\ UNCHANGED <<state, slot, at, on>>
      BY <2>4 DEF NotifyDrained, NotifyAll
    <3> QED
      BY <1>0, <3>1
  <2>5. CASE DropFields(t)
    BY <2>5 DEF DropFields
  <2> QED
    BY <1>7, <2>1, <2>2, <2>3, <2>4, <2>5 DEF Call
<1>8. CASE Close(t)
  <2>1. CASE Destroy(t)
    BY <2>1 DEF Destroy
  <2>2. CASE Teardown(t)
    BY <2>2 DEF Teardown
  <2>3. CASE Announce(t)
    <3>1. pc[t] = "announce" /\ pc'[t] = "retire" /\ UNCHANGED <<state, slot, at, on>>
      BY <2>3 DEF Announce, NotifyAll
    <3> QED
      BY <1>0, <3>1
  <2>4. CASE Join(t)
    BY <2>4 DEF Join
  <2>5. CASE Retire(t)
    BY SMTT(30), <2>5 DEF Retire, RetiresEntry
  <2> QED
    BY <1>8, <2>1, <2>2, <2>3, <2>4, <2>5 DEF Close
<1> QED
  BY <1>1, <1>2, <1>3, <1>4, <1>5, <1>6, <1>7, <1>8 DEF Step


\* The registry changes when a store is published or retired, and a store leaves
\* the open state when its cell is nulled: under one critical section each.
LEMMA RegistryKept ==
    ASSUME TypeOK, PhaseInv, DestroyerInv, RegistryInv, NEW t \in Thread, Step(t)
    PROVE  RegistryInv'
<1> USE NoneAssumption DEF TypeOK, RegistryInv, OpenIsRegistered, Return, Goto
<1>0. CASE UNCHANGED <<registry, cell, state, freed>>
  BY <1>0
<1>1. ASSUME NEW c \in Cell, OpenBegin(t, c) PROVE RegistryInv'
  BY <1>0, <1>1 DEF OpenBegin
<1>2. ASSUME NEW c \in Cell, Acquire(t, c) PROVE RegistryInv'
  BY <1>0, <1>2 DEF Acquire
<1>3. ASSUME NEW c \in Cell, CloseBegin(t, c) PROVE RegistryInv'
  <2>1. registry[c] \in Store /\ UNCHANGED <<registry, freed>> /\ cell' = [cell EXCEPT ![c] = None]
    BY <1>3 DEF CloseBegin
  <2>2. \A s \in Store : state'[s] = (IF s = registry[c] /\ state[s] = "open" THEN "closing" ELSE state[s])
    BY <1>3, <2>1 DEF CloseBegin
  <2> QED
    BY <2>1, <2>2
<1>4. ASSUME NEW c \in Cell, CloseAbsent(t, c) PROVE RegistryInv'
  BY <1>0, <1>4 DEF CloseAbsent
<1>5. ASSUME NEW s \in Store, OpenPublish(t, s) PROVE RegistryInv'
  <2>1. at[t] \in Cell
    BY <1>5 DEF OpenPublish, PhaseInv
  <2> QED
    BY <1>5, <2>1 DEF OpenPublish
<1>6. CASE OpenFail(t)
  BY <1>0, <1>6 DEF OpenFail
<1>7. CASE Call(t)
  BY <1>0, <1>7 DEF Call, Enter, Body, DropLease, NotifyDrained, DropFields
<1>8. CASE Close(t)
  <2>1. CASE Destroy(t) \/ Announce(t) \/ Join(t)
    BY <1>0, <2>1 DEF Destroy, Announce, Join
  <2>2. CASE Teardown(t)
    <3>1. on[t] \in Store /\ state[on[t]] = "closing"
      BY <2>2 DEF Teardown, PhaseInv, Destroying
    <3>2. PICK outcome \in Closed : state' = [state EXCEPT ![on[t]] = outcome]
      BY Zenon, <2>2 DEF Teardown
    <3>3. UNCHANGED <<registry, cell, freed>>
      BY <2>2 DEF Teardown
    <3> QED
      BY <3>1, <3>2, <3>3 DEF Closed
  <2>3. CASE Retire(t)
    <3>1. at[t] \in Cell /\ on[t] \in Store /\ state[on[t]] \in Closed
      BY <2>3 DEF Retire, PhaseInv
    <3>2. CASE RetiresEntry(t)
      BY <2>3, <3>1, <3>2 DEF Retire, RetiresEntry, Closed
    <3>3. CASE ~RetiresEntry(t)
      BY <1>0, <2>3, <3>3 DEF Retire
    <3> QED
      BY <3>2, <3>3
  <2> QED
    BY <1>8, <2>1, <2>2, <2>3 DEF Close
<1> QED
  BY <1>1, <1>2, <1>3, <1>4, <1>5, <1>6, <1>7, <1>8 DEF Step

\* A thread that takes or gives back no lease changes no count.
LEMMA CountingFrame ==
    ASSUME TypeOK, NEW t \in Thread, Others(t),
           pc[t] \in Leasing <=> pc'[t] \in Leasing,
           pc[t] \in Leasing => on'[t] = on[t]
    PROVE  \A s \in Store : Counting(s)' = Counting(s)
BY DEF Others, Counting, Leasing

\* The threads that count for a store are finitely many.
LEMMA CountingFinite == \A s : IsFiniteSet(Counting(s))
BY SMTT(30), ThreadAssumption, FS_Subset DEF Counting

\* The count follows the leases: StoreLease::drop never finds it corrupt, and the
\* destroyer takes the engine only when nobody counts.
LEMMA CountKept ==
    ASSUME TypeOK, PhaseInv, DestroyerInv, RegistryInv, CountInv, NEW t \in Thread, Step(t)
    PROVE  CountInv'
<1> USE DEF TypeOK, CountInv, Return, Goto
<1>0. Others(t) /\ TypeOK'
  BY OthersKept
<1>a. ASSUME pc[t] \in Leasing <=> pc'[t] \in Leasing, pc[t] \in Leasing => on'[t] = on[t],
             UNCHANGED <<active, slot, state>>
      PROVE  CountInv'
  BY <1>0, <1>a, CountingFrame
<1>1. ASSUME NEW c \in Cell, OpenBegin(t, c) PROVE CountInv'
  BY <1>a, <1>1 DEF OpenBegin, Leasing
<1>2. ASSUME NEW c \in Cell, Acquire(t, c) PROVE CountInv'
  <2>0. PICK r \in Store : r = registry[c]
    BY <1>2 DEF Acquire, Acquirable
  <2>1. state[r] = "open" /\ slot[r] /\ t \notin Counting(r)
    BY <1>2, <2>0 DEF Acquire, Acquirable, Counting
  <2>2. UNCHANGED <<state, slot>> /\ active' = [active EXCEPT ![r] = @ + 1]
    BY <1>2, <2>0 DEF Acquire
  <2>3. pc[t] = "idle" /\ pc'[t] = "leased" /\ on'[t] = r
    BY <1>2, <2>0 DEF Acquire
  <2>4. Counting(r)' = Counting(r) \cup {t} /\ \A s \in Store \ {r} : Counting(s)' = Counting(s)
    BY <1>0, <2>3 DEF Others, Counting
  <2>5. Cardinality(Counting(r) \cup {t}) = Cardinality(Counting(r)) + 1
    <3>1. IsFiniteSet(Counting(r)) /\ t \notin Counting(r)
      BY <2>1, CountingFinite
    <3> QED
      BY ONLY <3>1, FS_AddElement, Zenon
  <2> QED
    BY Zenon, <2>1, <2>2, <2>4, <2>5
<1>3. ASSUME NEW c \in Cell, CloseBegin(t, c) PROVE CountInv'
  <2>1. pc[t] = "idle" /\ pc'[t] \in {"destroy", "join"} /\ UNCHANGED <<active, slot>>
    BY <1>3 DEF CloseBegin, Destroys, NotifyAll
  <2>2. \A s \in Store : state'[s] = state[s] \/ state'[s] = "closing"
    BY <1>3 DEF CloseBegin
  <2>3. \A s \in Store : Counting(s)' = Counting(s)
    BY <1>0, <2>1, CountingFrame DEF Leasing
  <2> QED
    BY <2>1, <2>2, <2>3
<1>4. ASSUME NEW c \in Cell, CloseAbsent(t, c) PROVE CountInv'
  BY <1>a, <1>4 DEF CloseAbsent
<1>5. ASSUME NEW s \in Store, OpenPublish(t, s) PROVE CountInv'
  <2>1. pc[t] = "opening" /\ pc'[t] = "idle" /\ UNCHANGED active
    BY <1>5 DEF OpenPublish
  <2>2. \A r \in Store : Counting(r)' = Counting(r)
    BY <1>0, <2>1, CountingFrame DEF Leasing
  <2>3. state' = [state EXCEPT ![s] = "open"] /\ slot' = [slot EXCEPT ![s] = TRUE]
    BY <1>5 DEF OpenPublish
  <2> QED
    BY <2>1, <2>2, <2>3
<1>6. CASE OpenFail(t)
  BY <1>a, <1>6 DEF OpenFail, Leasing
<1>7. CASE Call(t)
  <2>1. CASE Enter(t)
    BY <1>a, <2>1 DEF Enter, Leasing
  <2>2. CASE Body(t)
    BY <1>a, <2>2 DEF Body, Leasing
  <2>3. CASE DropLease(t)
    <3>0. PICK r \in Store : r = on[t]
      BY <2>3 DEF DropLease, PhaseInv
    <3>1. pc[t] = "drop" /\ t \in Counting(r)
      BY <2>3, <3>0 DEF DropLease, Counting
    <3>2. slot[r] /\ state[r] \notin Closed
      BY <3>1 DEF Closed
    <3>3. Cardinality(Counting(r)) \in Nat \ {0}
      BY <3>1, CountingFinite, FS_CardinalityType, FS_EmptySet
    <3>4. Counted(r)
      BY <3>1, <3>2, <3>3 DEF Counted
    <3>5. active' = [active EXCEPT ![r] = @ - 1] /\ UNCHANGED <<state, slot>>
      BY <2>3, <3>0, <3>4 DEF DropLease
    <3>6. pc'[t] \in {"notify", "fields"} /\ on'[t] = r
      BY <2>3, <3>0 DEF DropLease
    <3>7. Counting(r)' = Counting(r) \ {t} /\ \A s \in Store \ {r} : Counting(s)' = Counting(s)
      BY <1>0, <3>0, <3>1, <3>6 DEF Others, Counting
    <3>8. Cardinality(Counting(r) \ {t}) = Cardinality(Counting(r)) - 1
      <4>1. IsFiniteSet(Counting(r)) /\ t \in Counting(r)
        BY <3>1, CountingFinite
      <4> QED
        BY ONLY <4>1, FS_RemoveElement, Zenon
    <3> QED
      BY Zenon, <3>1, <3>2, <3>5, <3>7, <3>8
  <2>4. CASE NotifyDrained(t)
    BY <1>a, <2>4 DEF NotifyDrained, NotifyAll, Leasing
  <2>5. CASE DropFields(t)
    BY <1>a, <2>5 DEF DropFields, Leasing
  <2> QED
    BY <1>7, <2>1, <2>2, <2>3, <2>4, <2>5 DEF Call
<1>8. CASE Close(t)
  <2>1. CASE Destroy(t)
    <3>1. PICK r \in Store : r = on[t] /\ state[r] = "closing"
      BY <2>1 DEF Destroy, PhaseInv, Destroying
    <3>2. CASE active[r] # 0
      BY <1>a, <2>1, <3>1, <3>2 DEF Destroy, Leasing
    <3>3. CASE active[r] = 0
      <4>1. pc'[t] = "teardown" /\ slot' = [slot EXCEPT ![r] = FALSE] /\ UNCHANGED <<active, state>>
        BY <2>1, <3>1, <3>3 DEF Destroy
      <4>2. \A s \in Store : Counting(s)' = Counting(s)
        BY <1>0, <2>1, <4>1, CountingFrame DEF Leasing, Destroy
      <4>3. Counting(r) = {}
        BY <3>1, <3>3, CountingFinite, FS_EmptySet
      <4> QED
        BY <3>1, <4>1, <4>2, <4>3
    <3> QED
      BY <3>2, <3>3
  <2>2. CASE Teardown(t)
    <3>1. on[t] \in Store /\ ~slot[on[t]]
      BY <2>2 DEF Teardown, PhaseInv
    <3>2. pc[t] = "teardown" /\ pc'[t] = "announce" /\ UNCHANGED <<active, slot>>
      BY <2>2 DEF Teardown
    <3>3. \A s \in Store \ {on[t]} : state'[s] = state[s]
      BY <2>2 DEF Teardown
    <3>4. \A s \in Store : Counting(s)' = Counting(s)
      BY <1>0, <3>2, CountingFrame DEF Leasing
    <3> QED
      BY <3>1, <3>2, <3>3, <3>4
  <2>3. CASE Announce(t)
    BY <1>a, <2>3 DEF Announce, NotifyAll, Leasing
  <2>4. CASE Join(t)
    BY <1>a, <2>4 DEF Join, Leasing
  <2>5. CASE Retire(t)
    BY <1>a, <2>5 DEF Retire, Leasing
  <2> QED
    BY <1>8, <2>1, <2>2, <2>3, <2>4, <2>5 DEF Close
<1> QED
  BY <1>1, <1>2, <1>3, <1>4, <1>5, <1>6, <1>7, <1>8 DEF Step


-----------------------------------------------------------------------------
(* The theorems.                                                           *)

\* IInv is inductive: it holds before the first es_open and every step of every
\* thread, open, call or close, keeps it.
LEMMA IInvHolds == Spec => []IInv
<1>1. Init => IInv
  <2> SUFFICES ASSUME Init PROVE IInv
    OBVIOUS
  <2> USE DEF Init
  <2>1. TypeOK /\ PhaseInv /\ DestroyerInv
    BY DEF TypeOK, PhaseInv, DestroyerInv, Phase, StoreState, Destroying
  <2>2. RegistryInv
    BY DEF RegistryInv, OpenIsRegistered
  <2>3. \A s \in Store : Counting(s) = {}
    BY DEF Counting
  <2>4. CountInv
    BY <2>3, FS_EmptySet DEF CountInv
  <2> QED
    BY <2>1, <2>2, <2>4 DEF IInv
<1>2. IInv /\ [Next]_vars => IInv'
  <2>1. ASSUME IInv, Next PROVE IInv'
    <3>1. PICK t \in Thread : Step(t)
      BY <2>1, StepOfOne
    <3> QED
      BY <2>1, <3>1, OthersKept, PhaseKept, DestroyerKept, RegistryKept, CountKept DEF IInv
  <2>2. ASSUME IInv, UNCHANGED vars PROVE IInv'
    BY <2>2 DEF IInv, vars, TypeOK, PhaseInv, DestroyerInv, RegistryInv, OpenIsRegistered,
                CountInv, Counting
  <2> QED
    BY <2>1, <2>2
<1> QED
  BY <1>1, <1>2, PTL DEF Spec

\* es_close waits for the acquired calls: for any number of threads, stores and
\* cells, a store whose engine is gone has no call running on it.
THEOREM CloseDrains == Spec => []ClosedIsDrained
<1>1. IInv => ClosedIsDrained
  BY DEF IInv, CountInv, ClosedIsDrained
<1> QED
  BY <1>1, IInvHolds, PTL

\* One closer destroys, however many race: linearize_close hands the Destroy
\* outcome to a single thread and every other one joins.
THEOREM OneDestroyer == Spec => []DestroyedOnce
<1>1. ASSUME IInv, NEW s \in Store,
             NEW D, D = {t \in Thread : on[t] = s /\ pc[t] \in Destroying}
      PROVE  /\ Cardinality(D) <= 1
             /\ state[s] \in Closed => D = {}
             /\ state[s] = "closing" => D # {}
  <2>1. CASE D = {}
    <3>1. Cardinality(D) = 0
      BY <2>1, FS_EmptySet
    <3> QED
      BY <1>1, <2>1, <3>1 DEF IInv, DestroyerInv, Closed
  <2>2. CASE D # {}
    <3>1. PICK t \in D : TRUE
      BY <2>2
    <3>2. D = {t}
      BY <1>1, <3>1 DEF IInv, DestroyerInv
    <3>3. Cardinality(D) = 1
      BY <3>2, FS_Singleton
    <3>4. state[s] \notin Closed
      BY <1>1, <3>1 DEF IInv, PhaseInv, Closed
    <3> QED
      BY <2>2, <3>3, <3>4
  <2> QED
    BY <2>1, <2>2
<1>2. IInv => DestroyedOnce
  BY <1>1, Zenon DEF DestroyedOnce, Destroying
<1> QED
  BY <1>2, IInvHolds, PTL

\* The pointer in an owner cell is a live store, and retire_store releases the
\* raw Arc of a store once.
THEOREM HandlesAlive == Spec => []HandleIsAlive
<1>1. IInv => HandleIsAlive
  BY DEF IInv, RegistryInv, HandleIsAlive
<1> QED
  BY <1>1, IInvHolds, PTL

\* A store is open exactly as long as its cell reaches it: no late closer of an
\* earlier store in the cell unregisters it.
THEOREM OpenReachable == Spec => []OpenIsRegistered
<1>1. IInv => OpenIsRegistered
  BY DEF IInv, RegistryInv
<1> QED
  BY <1>1, IInvHolds, PTL

\* The branch of StoreLease::drop that poisons a store because its count of
\* active calls is corrupt (closed already, or zero) is never taken.
THEOREM CountNeverCorrupt == Spec => [](\A t \in Thread : pc[t] = "drop" => Counted(on[t]))
<1>1. ASSUME IInv, NEW t \in Thread, pc[t] = "drop" PROVE Counted(on[t])
  <2>1. on[t] \in Store /\ t \in Counting(on[t])
    BY <1>1 DEF IInv, PhaseInv, Counting
  <2>2. Cardinality(Counting(on[t])) \in Nat \ {0}
    BY <2>1, CountingFinite, FS_CardinalityType, FS_EmptySet
  <2> QED
    BY <1>1, <2>1, <2>2 DEF IInv, CountInv, Counted, Closed
<1>2. IInv => \A t \in Thread : pc[t] = "drop" => Counted(on[t])
  BY <1>1
<1> QED
  BY <1>2, IInvHolds, PTL

=============================================================================

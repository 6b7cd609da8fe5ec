-------------------------- MODULE ProjectionProofs --------------------------
(***************************************************************************)
(* What the projection guarantees, for any entities, any writers and any   *)
(* number of events, retries, faults and deployments.                      *)
(***************************************************************************)
EXTENDS Projection, TLAPS

-----------------------------------------------------------------------------
(* The inductive invariant.                                                *)

Row == [version : Nat, seen : Seq(Nat), form : Nat]
StaleRow == [id : Id, version : Nat, max : Nat]
Batch == Seq(Nat) \ {<<>>}
Delivering == [pc : {"react", "load"}, id : Id, batch : Batch, todo : Batch, tries : Nat]
Updating == [pc : {"update"}, id : Id, batch : Batch, todo : Batch, tries : Nat,
             version : Nat, seen : Seq(Nat)]
Replaying == [pc : {"fetch"}, row : StaleRow, from : Nat, seen : Seq(Nat)]
                 \cup [pc : {"write"}, row : StaleRow, seen : Seq(Nat)]
Stage == {"down", "rebuild", "catch_up", "replay", "ready"}

\* The type invariant.
TypeOK ==
    /\ events \in [Id -> Nat]
    /\ view \in [Id -> Row]
    /\ registry \in Nat
    /\ deployed \in [schema : Nat, form : Nat]
    /\ stage \in Stage
    /\ stale \subseteq StaleRow
    /\ replay \in {NoReplay} \cup Replaying
    /\ writer \in [Writer -> {Idle} \cup Delivering \cup Updating]
    /\ handled \in [Id -> Seq(Nat)]
    /\ faults \in [busy : Nat, crashes : Nat]
    /\ damaged \subseteq Id

\* w is finishing a command on i.
On(w, i) == writer[w] # Idle /\ writer[w].id = i

\* Commands run only on a store that was handed out, and an entity whose
\* commands never overlapped has at most one of them under way.
AloneInv ==
    /\ stage # "ready" => \A w \in Writer : writer[w] = Idle
    /\ \A i \in Id \ damaged, v, w \in Writer : On(v, i) /\ On(w, i) => v = w

\* A row at version 0 is no row, and a view is never ahead of its entity.
RowInv ==
    /\ \A i \in Id : view[i].version = 0 => view[i] = NoRow
    /\ \A i \in Id \ damaged : view[i].version <= events[i]

\* What is left of a batch ends with the entity's last event.
Remaining(s, h) == Len(s) <= h /\ s = Between(h - Len(s), h)

\* A command under way on an undamaged entity holds the entity's last events;
\* a view the program can read lacks exactly those still to be applied.
Progress(c) ==
    LET i == c.id
    IN  /\ Remaining(c.batch, events[i]) /\ Remaining(c.todo, events[i])
        /\ c.pc = "react" /\ Readable(i) => view[i].version = events[i] - Len(c.batch)
        /\ c.pc = "load" /\ Readable(i) => view[i].version = events[i] - Len(c.todo)
        /\ c.pc = "update" => /\ Readable(i) /\ c.version = view[i].version
                              /\ view[i].version = events[i] - Len(c.todo)
                              /\ c.seen = Between(0, c.version + 1)
ProgressInv == \A w \in Writer : \A i \in Id \ damaged : On(w, i) => Progress(writer[w])

\* An undamaged entity without a command under way is current, if readable.
CurrentInv ==
    stage = "ready" =>
        \A i \in Id \ damaged :
            Readable(i) /\ (\A w \in Writer : ~On(w, i)) => view[i].version = events[i]

\* The rows to replay are exactly the entities whose view is behind.
StaleInv ==
    /\ stale # {} => stage = "replay"
    /\ \A r \in stale : /\ r.version = view[r.id].version
                        /\ r.max = events[r.id] /\ r.max > r.version
    /\ stage = "replay" => \A i \in Id : Behind(i) => \E r \in stale : r.id = i

\* A replay under way folds a prefix of its entity's events, then all of them.
ReplayInv ==
    replay # NoReplay =>
        /\ replay.row \in stale
        /\ replay.pc = "fetch" => replay.from <= events[replay.row.id]
        /\ replay.row.id \notin damaged =>
              /\ replay.pc = "fetch" => replay.seen = Between(0, replay.from)
              /\ replay.pc = "write" => replay.seen = Between(0, events[replay.row.id])

\* As long as every deployment bumped the schema version, a version on record
\* and a startup past the rebuild both mean that every row is readable.
FormInv ==
    /\ registry <= deployed.schema /\ deployed.schema <= deployed.form
    /\ /\ deployed.schema = deployed.form
       /\ stage \in {"catch_up", "replay", "ready"} \/ registry = deployed.schema
       => \A i \in Id : Readable(i)

\* The events w still has to hand to the reactor.
Pending(w, i) == IF writer[w].pc = "react" /\ writer[w].id = i THEN Range(writer[w].todo) ELSE {}

\* They were committed, the reactor did not take them yet, and no other command
\* holds them.
HandledInv ==
    /\ \A w \in Writer : writer[w].pc = "react" => IsInjective(writer[w].todo)
    /\ \A i \in Id : Range(handled[i]) \subseteq 1..events[i]
    /\ \A i \in Id, w \in Writer : Pending(w, i) \subseteq 1..events[i] \ Range(handled[i])
    /\ \A i \in Id, v, w \in Writer : v # w => Pending(v, i) \cap Pending(w, i) = {}

ViewInv == /\ AloneInv /\ RowInv /\ ViewIsFold /\ ProgressInv /\ CurrentInv
           /\ StaleInv /\ ReplayInv /\ FormInv

IInv == TypeOK /\ ViewInv /\ HandledInv /\ HandledOnce

-----------------------------------------------------------------------------
(* Runs of consecutive events.                                             *)

\* Sequences are equal when they have the same length and elements.
LEMMA SameSeq ==
    ASSUME NEW s \in Seq(Nat), NEW t \in Seq(Nat), Len(s) = Len(t),
           \A x \in 1..Len(s) : s[x] = t[x]
    PROVE  s = t
<1>1. s \in [1..Len(s) -> Nat] /\ t \in [1..Len(s) -> Nat]
  OBVIOUS
<1> QED
  BY <1>1

\* Between lists the sequences after lo up to hi.
LEMMA BetweenIs ==
    ASSUME NEW lo \in Nat, NEW hi \in Nat, lo <= hi
    PROVE  /\ Between(lo, hi) \in Seq(Nat) /\ Len(Between(lo, hi)) = hi - lo
           /\ \A x \in 1..(hi - lo) : Between(lo, hi)[x] = lo + x
BY DEF Between

\* The first of a run, and the rest of it.
LEMMA BetweenTail ==
    ASSUME NEW lo \in Nat, NEW hi \in Nat, lo < hi
    PROVE  Head(Between(lo, hi)) = lo + 1 /\ Tail(Between(lo, hi)) = Between(lo + 1, hi)
<1>1. Between(lo, hi) \in Seq(Nat) /\ Len(Between(lo, hi)) = hi - lo
  BY BetweenIs
<1>2. Between(lo + 1, hi) \in Seq(Nat) /\ Len(Between(lo + 1, hi)) = hi - lo - 1
  BY BetweenIs
<1>3. \A x \in 1..(hi - lo - 1) : Tail(Between(lo, hi))[x] = Between(lo + 1, hi)[x]
  BY <1>1, <1>2 DEF Between
<1>4. /\ Tail(Between(lo, hi)) \in Seq(Nat) /\ Len(Tail(Between(lo, hi))) = hi - lo - 1
      /\ Head(Between(lo, hi)) = Between(lo, hi)[1]
  BY <1>1
<1>5. Tail(Between(lo, hi)) = Between(lo + 1, hi)
  BY Zenon, <1>2, <1>3, <1>4, SameSeq
<1>6. Between(lo, hi)[1] = lo + 1
  BY DEF Between
<1> QED
  BY <1>4, <1>5, <1>6

\* A view that folds the next event.
LEMMA BetweenAppend ==
    ASSUME NEW n \in Nat
    PROVE  Append(Between(0, n), n + 1) = Between(0, n + 1)
BY BetweenIs DEF Between

\* A replay that folds the events after a prefix.
LEMMA BetweenJoin ==
    ASSUME NEW m \in Nat, NEW n \in Nat, m <= n
    PROVE  Between(0, m) \o Between(m, n) = Between(0, n)
<1> DEFINE p == Between(0, m)  q == Between(m, n)  all == Between(0, n)
<1>1. /\ p \in Seq(Nat) /\ Len(p) = m /\ \A x \in 1..m : p[x] = x
      /\ q \in Seq(Nat) /\ Len(q) = n - m /\ \A x \in 1..(n - m) : q[x] = m + x
      /\ all \in Seq(Nat) /\ Len(all) = n /\ \A x \in 1..n : all[x] = x
  BY DEF Between
<1> HIDE DEF p, q, all
<1>2. /\ p \o q \in Seq(Nat) /\ Len(p \o q) = n
      /\ \A x \in 1..n : (p \o q)[x] = IF x <= m THEN p[x] ELSE q[x - m]
  BY <1>1
<1>3. ASSUME NEW x \in 1..n PROVE (p \o q)[x] = all[x]
  <2>1. CASE x <= m
    BY <1>1, <1>2, <2>1
  <2>2. CASE ~(x <= m)
    <3>1. x - m \in 1..(n - m) /\ m + (x - m) = x
      BY <2>2
    <3> QED
      BY Zenon, <1>1, <1>2, <2>2, <3>1
  <2> QED
    BY Zenon, <2>1, <2>2
<1>4. p \o q = all
  BY Zenon, <1>1, <1>2, <1>3, SameSeq
<1> QED
  BY <1>4 DEF p, q, all

\* A run names each of its events once.
LEMMA BetweenRange ==
    ASSUME NEW lo \in Nat, NEW hi \in Nat, lo <= hi
    PROVE  IsInjective(Between(lo, hi)) /\ Range(Between(lo, hi)) \subseteq lo + 1 .. hi
BY DEF Between, IsInjective, Range

\* A sequence with an element is a batch.
LEMMA NonEmpty ==
    ASSUME NEW t \in Seq(Nat), Len(t) > 0
    PROVE  t \in Batch
BY DEF Batch

\* One less than more than one.
LEMMA MoreThanOne ==
    ASSUME NEW n \in Nat, n > 1
    PROVE  n - 1 > 0
OBVIOUS

\* What is left after the head of a batch is taken.
LEMMA RemainingTail ==
    ASSUME NEW s \in Batch, NEW h \in Nat, Remaining(s, h)
    PROVE  /\ Head(s) = h - Len(s) + 1 /\ Len(s) \in Nat \ {0}
           /\ Len(s) > 1 => Tail(s) \in Batch /\ Remaining(Tail(s), h) /\ Len(Tail(s)) = Len(s) - 1
<1>1. Len(s) \in Nat \ {0} /\ h - Len(s) \in Nat /\ h - Len(s) < h
  BY DEF Batch, Remaining
<1>2. Head(s) = h - Len(s) + 1 /\ Tail(s) = Between(h - Len(s) + 1, h)
  BY <1>1, BetweenTail DEF Remaining
<1>3. Len(Tail(s)) = Len(s) - 1 /\ Tail(s) \in Seq(Nat)
  BY <1>1 DEF Batch
<1>4. CASE Len(s) > 1
  <2>1. Tail(s) = Between(h - Len(Tail(s)), h)
    BY <1>1, <1>2, <1>3
  <2>2. Len(Tail(s)) > 0
    BY Zenon, <1>3, <1>1, <1>4, MoreThanOne
  <2>3. Tail(s) \in Batch
    BY Zenon, <1>3, <2>2, NonEmpty
  <2> QED
    BY <1>1, <1>2, <1>3, <2>1, <2>3 DEF Remaining
<1> QED
  BY <1>1, <1>2, <1>4

\* The tail of a sequence without repetition does without its head.
LEMMA TailRange ==
    ASSUME NEW s \in Batch, IsInjective(s)
    PROVE  /\ IsInjective(Tail(s)) /\ Range(Tail(s)) \subseteq Range(s) \ {Head(s)}
           /\ Head(s) \in Range(s)
<1>1. /\ Tail(s) \in Seq(Nat) /\ Len(Tail(s)) = Len(s) - 1
      /\ \A x \in 1..Len(s) - 1 : Tail(s)[x] = s[x + 1]
      /\ DOMAIN s = 1..Len(s) /\ DOMAIN Tail(s) = 1..Len(s) - 1
      /\ Len(s) \in Nat \ {0} /\ Head(s) = s[1]
  BY DEF Batch
<1>2. ASSUME NEW x \in DOMAIN Tail(s), NEW y \in DOMAIN Tail(s), Tail(s)[x] = Tail(s)[y]
      PROVE  x = y
  <2>1. x + 1 \in DOMAIN s /\ y + 1 \in DOMAIN s /\ x \in 1..Len(s) - 1 /\ y \in 1..Len(s) - 1
    <3>1. x \in 1..Len(s) - 1 /\ y \in 1..Len(s) - 1
      BY Zenon, <1>1
    <3>2. x + 1 \in 1..Len(s) /\ y + 1 \in 1..Len(s)
      BY <1>1, <3>1
    <3> QED
      BY Zenon, <1>1, <3>1, <3>2
  <2>2. s[x + 1] = s[y + 1]
    BY Zenon, <1>1, <1>2, <2>1
  <2>3. x + 1 = y + 1
    BY Zenon, <2>1, <2>2 DEF IsInjective
  <2> QED
    BY <1>1, <2>1, <2>3
<1>3. ASSUME NEW x \in DOMAIN Tail(s)
      PROVE  Tail(s)[x] \in Range(s) /\ Tail(s)[x] # Head(s)
  <2>1. x + 1 \in DOMAIN s /\ Tail(s)[x] = s[x + 1] /\ x + 1 # 1 /\ 1 \in DOMAIN s
    BY <1>1, <1>3
  <2> QED
    BY Zenon, <1>1, <2>1 DEF IsInjective, Range
<1>4. Head(s) \in Range(s)
  BY <1>1 DEF Range
<1> QED
  BY Zenon, <1>2, <1>3, <1>4 DEF Range, IsInjective

\* Appending a new element repeats nothing.
LEMMA AppendRange ==
    ASSUME NEW s \in Seq(Nat), NEW n \in Nat
    PROVE  /\ Range(Append(s, n)) = Range(s) \cup {n}
           /\ IsInjective(s) /\ n \notin Range(s) => IsInjective(Append(s, n))
<1>1. /\ DOMAIN s = 1..Len(s) /\ DOMAIN Append(s, n) = 1..Len(s) + 1 /\ Len(s) \in Nat
      /\ \A x \in 1..Len(s) : Append(s, n)[x] = s[x]
      /\ Append(s, n)[Len(s) + 1] = n
  OBVIOUS
<1>2. \A x : x \in DOMAIN Append(s, n) <=> x \in DOMAIN s \/ x = Len(s) + 1
  BY <1>1
<1>3. Len(s) + 1 \notin DOMAIN s
  BY <1>1
<1>4. \A x \in DOMAIN s : Append(s, n)[x] = s[x]
  BY Zenon, <1>1
<1>5. Range(Append(s, n)) = Range(s) \cup {n}
  BY Zenon, <1>1, <1>2, <1>4 DEF Range
<1>6. ASSUME IsInjective(s), n \notin Range(s),
             NEW x \in DOMAIN Append(s, n), NEW y \in DOMAIN Append(s, n),
             Append(s, n)[x] = Append(s, n)[y]
      PROVE  x = y
  <2>1. CASE x \in DOMAIN s /\ y \in DOMAIN s
    BY Zenon, <1>4, <1>6, <2>1 DEF IsInjective
  <2>2. \A z \in DOMAIN s : Append(s, n)[z] # n
    BY Zenon, <1>4, <1>6 DEF Range
  <2> QED
    BY Zenon, <1>1, <1>2, <1>6, <2>1, <2>2
<1> QED
  BY Zenon, <1>5, <1>6 DEF IsInjective

-----------------------------------------------------------------------------
(* Commands under way.                                                     *)

\* Where ReactorBridge::dispatch goes on after an event.
LEMMA AdvanceIs ==
    ASSUME NEW c \in Delivering \cup Updating
    PROVE  /\ Advance(c) \in {Idle} \cup Delivering
           /\ Advance(c) # Idle => Advance(c).id = c.id /\ Advance(c).batch = c.batch
           /\ Len(c.todo) > 1 => /\ Advance(c) # Idle /\ Advance(c).todo = Tail(c.todo)
                                 /\ Advance(c).pc = IF c.pc = "react" THEN "react" ELSE "load"
           /\ ~(Len(c.todo) > 1) /\ c.pc = "react" =>
                 Advance(c) # Idle /\ Advance(c).todo = c.batch /\ Advance(c).pc = "load"
           /\ ~(Len(c.todo) > 1) /\ c.pc # "react" => Advance(c) = Idle
<1>1. c.todo \in Seq(Nat) /\ Len(c.todo) \in Nat /\ c.batch \in Batch /\ c.id \in Id
  BY DEF Delivering, Updating, Batch
<1>2. CASE Len(c.todo) > 1
  <2>1. Tail(c.todo) \in Seq(Nat) /\ Len(Tail(c.todo)) = Len(c.todo) - 1
    BY <1>1, <1>2
  <2>2. Tail(c.todo) \in Batch
    BY Zenon, <1>1, <1>2, <2>1, NonEmpty, MoreThanOne
  <2>3. Advance(c) = [pc |-> IF c.pc = "react" THEN "react" ELSE "load", id |-> c.id,
                      batch |-> c.batch, todo |-> Tail(c.todo), tries |-> 0]
    BY Zenon, <1>2 DEF Advance
  <2> QED
    BY <1>1, <1>2, <2>2, <2>3 DEF Delivering, Idle
<1>3. CASE ~(Len(c.todo) > 1) /\ c.pc = "react"
  <2>1. c \in Delivering
    BY <1>3 DEF Delivering, Updating
  <2>2. Advance(c) = [c EXCEPT !.todo = c.batch, !.pc = "load", !.tries = 0]
    BY Zenon, <1>3 DEF Advance
  <2>3. Advance(c) = [pc |-> "load", id |-> c.id, batch |-> c.batch, todo |-> c.batch, tries |-> 0]
    BY Zenon, <2>1, <2>2 DEF Delivering
  <2> QED
    BY <1>1, <1>3, <2>3 DEF Delivering, Idle
<1>4. CASE ~(Len(c.todo) > 1) /\ c.pc # "react"
  BY Zenon, <1>4 DEF Advance
<1> QED
  BY Zenon, <1>2, <1>3, <1>4

\* A step of the command on i disturbs nothing else: what must be shown of it
\* is where it leaves i, and that only if i is undamaged after it.
LEMMA CommandKeeps ==
    ASSUME TypeOK, ViewInv, TypeOK', NEW w \in Writer, NEW i \in Id, On(w, i),
           UNCHANGED <<events, registry, deployed, stage, stale, replay>>,
           \A v \in Writer \ {w} : writer'[v] = writer[v],
           writer'[w] # Idle => writer'[w].id = i,
           damaged \subseteq damaged', damaged' \subseteq damaged \cup {i},
           \A k \in Id \ {i} : view'[k] = view[k],
           view'[i] = view[i] \/ (view'[i].version # 0 /\ view'[i].form = deployed.form),
           i \notin damaged' =>
              /\ view'[i].version <= events[i] /\ view'[i].seen = Between(0, view'[i].version)
              /\ writer'[w] # Idle => Progress(writer[w])'
              /\ writer'[w] = Idle /\ Readable(i)' => view'[i].version = events[i]
    PROVE  ViewInv'
<1>1. stage = "ready" /\ stale = {} /\ replay = NoReplay
  BY Zenon DEF ViewInv, AloneInv, StaleInv, ReplayInv, On
<1>2. \A v \in Writer, k \in Id : On(v, k)' => On(v, k)
  BY Zenon DEF On
<1>3. \A k \in Id \ {i} : Readable(k)' <=> Readable(k)
  BY Zenon DEF Readable, Exists
<1>4. AloneInv'
  BY Zenon, <1>1, <1>2 DEF ViewInv, AloneInv
<1>5. RowInv'
  BY Zenon DEF ViewInv, RowInv
<1>6. ViewIsFold'
  BY Zenon DEF ViewInv, ViewIsFold
<1>7. ProgressInv'
  <2> SUFFICES ASSUME NEW v \in Writer, NEW k \in Id \ damaged', On(v, k)'
               PROVE  Progress(writer[v])'
    BY Zenon DEF ProgressInv
  <2>1. CASE v = w
    BY Zenon, <2>1 DEF On
  <2>2. CASE v # w
    <3>1. On(v, k) /\ k \notin damaged /\ writer'[v] = writer[v] /\ writer[v].id = k
      BY Zenon, <1>2, <2>2 DEF On
    <3>2. k # i
      BY Zenon, <2>2, <3>1 DEF ViewInv, AloneInv
    <3>3. Progress(writer[v])
      BY Zenon, <3>1 DEF ViewInv, ProgressInv
    <3>4. view'[k] = view[k] /\ (Readable(k)' <=> Readable(k)) /\ events' = events
      BY Zenon, <1>3, <3>2
    <3> QED
      BY Zenon, <3>1, <3>3, <3>4 DEF Progress
  <2> QED
    BY Zenon, <2>1, <2>2
<1>8. CurrentInv'
  <2> SUFFICES ASSUME NEW k \in Id \ damaged', Readable(k)', \A v \in Writer : ~On(v, k)'
               PROVE  view'[k].version = events[k]
    BY Zenon DEF CurrentInv
  <2>1. CASE k = i
    BY Zenon, <2>1 DEF On
  <2>2. CASE k # i
    <3>1. \A v \in Writer : ~On(v, k)
      BY Zenon, <2>2 DEF On
    <3> QED
      BY Zenon, <1>1, <1>3, <2>2, <3>1 DEF ViewInv, CurrentInv
  <2> QED
    BY Zenon, <2>1, <2>2
<1>9. StaleInv' /\ ReplayInv'
  BY Zenon, <1>1 DEF StaleInv, ReplayInv
<1>10. FormInv'
  <2>1. \A k \in Id : Readable(k) => Readable(k)'
    BY Zenon, <1>3 DEF Readable, Exists
  <2> QED
    BY Zenon, <2>1 DEF ViewInv, FormInv
<1> QED
  BY Zenon, <1>4, <1>5, <1>6, <1>7, <1>8, <1>9, <1>10 DEF ViewInv


\* A command with something to do is one with a batch.
LEMMA CommandIs ==
    ASSUME TypeOK, NEW w \in Writer, writer[w].pc \in {"react", "load", "update"}
    PROVE  /\ writer[w] \in Delivering \cup Updating
           /\ writer[w].pc # "update" => writer[w] \in Delivering
           /\ writer[w].pc = "update" => /\ writer[w].version \in Nat
                                         /\ writer[w].seen \in Seq(Nat)
           /\ writer[w].id \in Id /\ On(w, writer[w].id)
           /\ writer[w].todo \in Batch /\ writer[w].batch \in Batch /\ writer[w].tries \in Nat
<1>1. writer[w] \in {Idle} \cup Delivering \cup Updating
  BY Zenon DEF TypeOK
<1>2. writer[w] # Idle
  BY <1>1 DEF Idle
<1> QED
  BY <1>1, <1>2 DEF Delivering, Updating, On

\* A command moves on its own.
LEMMA Moves ==
    ASSUME TypeOK, NEW w \in Writer, NEW d \in {Idle} \cup Delivering \cup Updating,
           writer' = [writer EXCEPT ![w] = d]
    PROVE  /\ writer' \in [Writer -> {Idle} \cup Delivering \cup Updating] /\ writer'[w] = d
           /\ \A v \in Writer \ {w} : writer'[v] = writer[v]
BY Zenon DEF TypeOK

\* retry_with_backoff: the same event again, or on to the next.
LEMMA RetryIs ==
    ASSUME TypeOK, NEW w \in Writer, writer[w].pc \in {"react", "load", "update"},
           NEW pc \in {"react", "load"}, Retry(w, pc)
    PROVE  /\ writer' \in [Writer -> {Idle} \cup Delivering \cup Updating]
           /\ \A v \in Writer \ {w} : writer'[v] = writer[v]
           /\ writer'[w] # Idle => writer'[w].id = writer[w].id
           /\ ~Retried(writer[w]) => writer'[w] = Advance(writer[w])
           /\ Retried(writer[w]) => /\ writer'[w] # Idle /\ writer'[w].pc = pc
                                    /\ writer'[w].todo = writer[w].todo
                                    /\ writer'[w].batch = writer[w].batch
<1> DEFINE c == writer[w]
           again == [pc |-> pc, id |-> c.id, batch |-> c.batch, todo |-> c.todo, tries |-> c.tries + 1]
<1>1. c \in Delivering \cup Updating /\ c.id \in Id /\ c.batch \in Batch /\ c.todo \in Batch /\ c.tries \in Nat
  BY Zenon, CommandIs
<1>2. again \in Delivering /\ again # Idle /\ again.pc = pc /\ again.todo = c.todo
      /\ again.batch = c.batch /\ again.id = c.id
  BY <1>1 DEF Delivering, Idle
<1>3. writer' = [writer EXCEPT ![w] = IF Retried(c) THEN again ELSE Advance(c)]
  BY DEF Retry, TypeOK
<1>4. Advance(c) \in {Idle} \cup Delivering /\ (Advance(c) # Idle => Advance(c).id = c.id)
  BY Zenon, <1>1, AdvanceIs
<1> HIDE DEF c, again
<1>5. CASE Retried(c)
  <2>1. writer' = [writer EXCEPT ![w] = again]
    BY Zenon, <1>3, <1>5
  <2>2. again \in {Idle} \cup Delivering \cup Updating
    BY Zenon, <1>2
  <2> QED
    BY Zenon, <1>2, <1>5, <2>1, <2>2, Moves DEF c
<1>6. CASE ~Retried(c)
  <2>1. writer' = [writer EXCEPT ![w] = Advance(c)]
    BY Zenon, <1>3, <1>6
  <2>2. Advance(c) \in {Idle} \cup Delivering \cup Updating
    BY Zenon, <1>4
  <2> QED
    BY Zenon, <1>4, <1>6, <2>1, <2>2, Moves DEF c
<1> QED
  BY Zenon, <1>5, <1>6

\* The same, where the command simply goes on.
LEMMA AdvanceMoves ==
    ASSUME TypeOK, NEW w \in Writer, writer[w].pc \in {"react", "load", "update"},
           writer' = [writer EXCEPT ![w] = Advance(writer[w])]
    PROVE  /\ writer' \in [Writer -> {Idle} \cup Delivering \cup Updating]
           /\ writer'[w] = Advance(writer[w])
           /\ \A v \in Writer \ {w} : writer'[v] = writer[v]
           /\ writer'[w] # Idle => writer'[w].id = writer[w].id
<1>1. writer[w] \in Delivering \cup Updating
  BY Zenon, CommandIs
<1>2. /\ Advance(writer[w]) \in {Idle} \cup Delivering \cup Updating
      /\ Advance(writer[w]) # Idle => Advance(writer[w]).id = writer[w].id
  BY Zenon, <1>1, AdvanceIs
<1> QED
  BY Zenon, <1>2, Moves

\* A command's progress is judged by its entity alone.
LEMMA ProgressKept ==
    ASSUME NEW w \in Writer, NEW i, writer'[w].id = i,
           events' = events, view'[i] = view[i], deployed' = deployed,
           Remaining(writer'[w].batch, events[i]), Remaining(writer'[w].todo, events[i]),
           writer'[w].pc = "react" /\ Readable(i) =>
              view[i].version = events[i] - Len(writer'[w].batch),
           writer'[w].pc = "load" /\ Readable(i) =>
              view[i].version = events[i] - Len(writer'[w].todo),
           writer'[w].pc # "update"
    PROVE  Progress(writer[w])'
BY Zenon DEF Progress, Readable, Exists

\* The reactor is done with an event: the view lacks what it lacked.
LEMMA ReactProgress ==
    ASSUME TypeOK, NEW w \in Writer, NEW i \in Id, writer[w].pc = "react", writer[w].id = i,
           Progress(writer[w]), writer'[w] = Advance(writer[w]),
           events' = events, view'[i] = view[i], deployed' = deployed
    PROVE  writer'[w] # Idle /\ Progress(writer[w])'
<1> DEFINE c == writer[w]
<1>1. c \in Delivering \cup Updating /\ c.todo \in Batch /\ c.batch \in Batch /\ events[i] \in Nat
  BY Zenon, CommandIs DEF TypeOK
<1>2. /\ Remaining(c.batch, events[i]) /\ Remaining(c.todo, events[i])
      /\ Readable(i) => view[i].version = events[i] - Len(c.batch)
  BY Zenon DEF Progress
<1>3. CASE Len(c.todo) > 1
  <2>1. /\ Advance(c) # Idle /\ Advance(c).todo = Tail(c.todo) /\ Advance(c).pc = "react"
        /\ Advance(c).id = c.id /\ Advance(c).batch = c.batch
    BY Zenon, <1>1, <1>3, AdvanceIs
  <2>2. Remaining(Tail(c.todo), events[i])
    BY Zenon, <1>1, <1>2, <1>3, RemainingTail
  <2> QED
    BY Zenon, <1>2, <2>1, <2>2, ProgressKept
<1>4. CASE ~(Len(c.todo) > 1)
  <2>1. /\ Advance(c) # Idle /\ Advance(c).todo = c.batch /\ Advance(c).pc = "load"
        /\ Advance(c).id = c.id /\ Advance(c).batch = c.batch
    BY Zenon, <1>1, <1>4, AdvanceIs
  <2> QED
    BY Zenon, <1>2, <2>1, ProgressKept
<1> QED
  BY Zenon, <1>3, <1>4


\* What an undamaged entity's command relies on.
LEMMA Undamaged ==
    ASSUME TypeOK, ViewInv, NEW w \in Writer, NEW i \in Id, On(w, i), i \notin damaged
    PROVE  /\ Progress(writer[w]) /\ view[i].version <= events[i]
           /\ view[i].seen = Between(0, view[i].version)
BY Zenon DEF ViewInv, ProgressInv, RowInv, ViewIsFold

\* The same for a step that leaves the views alone.
LEMMA CommandStays ==
    ASSUME TypeOK, ViewInv, TypeOK', NEW w \in Writer, NEW i \in Id, On(w, i),
           UNCHANGED <<events, view, registry, deployed, stage, stale, replay>>,
           \A v \in Writer \ {w} : writer'[v] = writer[v],
           writer'[w] # Idle => writer'[w].id = i,
           damaged' \in {damaged, damaged \cup {i}},
           i \notin damaged' =>
              /\ writer'[w] # Idle => Progress(writer[w])'
              /\ writer'[w] = Idle => ~Readable(i)
    PROVE  ViewInv'
<1>1. damaged \subseteq damaged' /\ damaged' \subseteq damaged \cup {i}
  BY Zenon
<1>2. \A k \in Id : view'[k] = view[k]
  BY Zenon
<1>3. Readable(i)' <=> Readable(i)
  BY Zenon DEF Readable, Exists
<1>4. i \notin damaged' => view'[i].version <= events[i] /\ view'[i].seen = Between(0, view'[i].version)
  BY Zenon, <1>1, <1>2, Undamaged
<1>5. i \notin damaged' =>
         /\ view'[i].version <= events[i] /\ view'[i].seen = Between(0, view'[i].version)
         /\ writer'[w] # Idle => Progress(writer[w])'
         /\ writer'[w] = Idle /\ Readable(i)' => view'[i].version = events[i]
  BY Zenon, <1>3, <1>4
<1>6. \A k \in Id \ {i} : view'[k] = view[k]
  BY Zenon, <1>2
<1>7. UNCHANGED <<events, registry, deployed, stage, stale, replay>>
  OBVIOUS
<1>8. view'[i] = view[i] \/ (view'[i].version # 0 /\ view'[i].form = deployed.form)
  BY Zenon, <1>2
<1> QED
  BY Zenon, <1>1, <1>5, <1>6, <1>7, <1>8, CommandKeeps

\* RetryOnBusy::react, taking the event or failing for good.
LEMMA ReactInv ==
    ASSUME TypeOK, ViewInv, NEW w \in Writer, React(w)
    PROVE  TypeOK' /\ ViewInv'
<1>i. PICK i \in Id : i = writer[w].id
  BY Zenon, CommandIs DEF React, ReactBusy
<1>1. /\ writer[w].pc = "react" /\ writer' = [writer EXCEPT ![w] = Advance(writer[w])]
      /\ UNCHANGED <<events, view, registry, deployed, stage, stale, replay, faults, damaged>>
      /\ \/ handled' = [handled EXCEPT ![i] = Append(@, Head(writer[w].todo))]
         \/ UNCHANGED handled
  BY Zenon, <1>i DEF React, database, startup
<1>2. i \in Id /\ On(w, i) /\ writer[w].todo \in Batch
  BY Zenon, <1>i, <1>1, CommandIs
<1>3. /\ writer' \in [Writer -> {Idle} \cup Delivering \cup Updating]
      /\ writer'[w] = Advance(writer[w]) /\ \A v \in Writer \ {w} : writer'[v] = writer[v]
      /\ writer'[w] # Idle => writer'[w].id = i
  BY Zenon, <1>i, <1>1, AdvanceMoves
<1>4. handled' \in [Id -> Seq(Nat)]
  <2>1. Head(writer[w].todo) \in Nat
    BY <1>2 DEF Batch
  <2>2. handled[i] \in Seq(Nat) /\ Append(handled[i], Head(writer[w].todo)) \in Seq(Nat)
    BY <2>1 DEF TypeOK
  <2> QED
    BY Zenon, <1>1, <2>2 DEF TypeOK
<1>5. TypeOK'
  BY Zenon, <1>1, <1>3, <1>4 DEF TypeOK
<1>6. ASSUME i \notin damaged
      PROVE  writer'[w] # Idle /\ Progress(writer[w])'
  BY Zenon, <1>1, <1>2, <1>3, <1>6, <1>i, Undamaged, ReactProgress
<1>7. ViewInv'
  BY Zenon, <1>1, <1>2, <1>3, <1>5, <1>6, CommandStays
<1> QED
  BY Zenon, <1>5, <1>7

\* RetryOnBusy::react on a busy database.
LEMMA ReactBusyInv ==
    ASSUME TypeOK, ViewInv, NEW w \in Writer, ReactBusy(w)
    PROVE  TypeOK' /\ ViewInv'
<1>i. PICK i \in Id : i = writer[w].id
  BY Zenon, CommandIs DEF React, ReactBusy
<1>1. /\ writer[w].pc = "react" /\ Retry(w, "react")
      /\ UNCHANGED <<events, view, registry, deployed, stage, stale, replay, handled, damaged>>
      /\ faults' = [faults EXCEPT !.busy = @ + 1]
  BY Zenon DEF ReactBusy, Busy, database, startup
<1>2. i \in Id /\ On(w, i)
  BY Zenon, <1>i, <1>1, CommandIs
<1>3. /\ writer' \in [Writer -> {Idle} \cup Delivering \cup Updating]
      /\ \A v \in Writer \ {w} : writer'[v] = writer[v]
      /\ writer'[w] # Idle => writer'[w].id = i
      /\ ~Retried(writer[w]) => writer'[w] = Advance(writer[w])
      /\ Retried(writer[w]) => /\ writer'[w] # Idle /\ writer'[w].pc = "react"
                               /\ writer'[w].todo = writer[w].todo
                               /\ writer'[w].batch = writer[w].batch
  BY Zenon, <1>i, <1>1, RetryIs
<1>4. faults' \in [busy : Nat, crashes : Nat]
  BY <1>1 DEF TypeOK
<1>5. TypeOK'
  BY Zenon, <1>1, <1>3, <1>4 DEF TypeOK
<1>6. ASSUME i \notin damaged
      PROVE  writer'[w] # Idle /\ Progress(writer[w])'
  <2>1. Progress(writer[w]) /\ i \in Id /\ writer[w].id = i
    BY Zenon, <1>2, <1>6, <1>i, Undamaged
  <2>2. CASE Retried(writer[w])
    <3>1. /\ Remaining(writer[w].batch, events[i]) /\ Remaining(writer[w].todo, events[i])
          /\ Readable(i) => view[i].version = events[i] - Len(writer[w].batch)
      BY Zenon, <1>1, <2>1 DEF Progress
    <3> QED
      BY Zenon, <1>1, <1>3, <2>1, <2>2, <3>1, ProgressKept
  <2>3. CASE ~Retried(writer[w])
    BY Zenon, <1>1, <1>3, <2>1, <2>3, ReactProgress
  <2> QED
    BY Zenon, <2>2, <2>3
<1>7. ViewInv'
  BY Zenon, <1>1, <1>2, <1>3, <1>5, <1>6, CommandStays
<1> QED
  BY Zenon, <1>5, <1>7

\* Projection::react, the load: the next event is folded into the row as read,
\* or passes an unreadable one by.
LEMMA LoadViewInv ==
    ASSUME TypeOK, ViewInv, NEW w \in Writer, LoadView(w)
    PROVE  TypeOK' /\ ViewInv'
<1>c. PICK c \in Delivering \cup Updating : c = writer[w]
  BY Zenon, CommandIs DEF LoadView
<1>i. PICK i \in Id : i = c.id
  BY Zenon, <1>c, CommandIs DEF LoadView
<1>d. PICK d : d = [pc |-> "update", id |-> c.id, batch |-> c.batch, todo |-> c.todo,
                    tries |-> c.tries, version |-> view[i].version,
                    seen |-> Append(view[i].seen, Head(c.todo))]
  BY Zenon
<1>1. /\ c.pc = "load"
      /\ writer' = [writer EXCEPT ![w] = IF Readable(i) THEN d ELSE Advance(c)]
      /\ UNCHANGED <<events, view, registry, deployed, stage, stale, replay, handled, faults, damaged>>
  BY Zenon, <1>c, <1>i, <1>d DEF LoadView, database, startup
<1>2. /\ i \in Id /\ On(w, i) /\ c \in Delivering \cup Updating
      /\ c.todo \in Batch /\ c.batch \in Batch /\ c.tries \in Nat
      /\ events[i] \in Nat /\ view[i] \in Row
  BY Zenon, <1>c, <1>i, <1>1, CommandIs DEF TypeOK
<1>3. view[i].version \in Nat /\ view[i].seen \in Seq(Nat) /\ Head(c.todo) \in Nat
  BY <1>2 DEF Row, Batch
<1>4. /\ d \in Updating /\ d # Idle /\ d.id = i /\ d.pc = "update" /\ d.batch = c.batch
      /\ d.todo = c.todo /\ d.version = view[i].version
      /\ d.seen = Append(view[i].seen, Head(c.todo))
  BY <1>2, <1>3, <1>d, <1>i DEF Updating, Idle
<1>5. CASE Readable(i)
  <2>1. writer' = [writer EXCEPT ![w] = d] /\ d \in {Idle} \cup Delivering \cup Updating
    BY Zenon, <1>1, <1>4, <1>5
  <2>2. /\ writer' \in [Writer -> {Idle} \cup Delivering \cup Updating] /\ writer'[w] = d
        /\ \A v \in Writer \ {w} : writer'[v] = writer[v]
    BY Zenon, <2>1, Moves
  <2>3. TypeOK'
    BY Zenon, <1>1, <2>2 DEF TypeOK
  <2>4. ASSUME i \notin damaged
        PROVE  Progress(writer[w])'
    <3>1. /\ Remaining(c.batch, events[i]) /\ Remaining(c.todo, events[i])
          /\ view[i].version = events[i] - Len(c.todo)
          /\ view[i].seen = Between(0, view[i].version)
      BY Zenon, <1>1, <1>2, <1>5, <2>4, <1>c, <1>i, Undamaged DEF Progress
    <3>2. Head(c.todo) = events[i] - Len(c.todo) + 1
      BY Zenon, <1>2, <3>1, RemainingTail
    <3>3. d.seen = Between(0, view[i].version + 1)
      BY Zenon, <1>3, <1>4, <3>1, <3>2, BetweenAppend
    <3>4. Readable(i)' /\ view'[i] = view[i] /\ events' = events
      BY Zenon, <1>1, <1>5 DEF Readable, Exists
    <3> QED
      BY Zenon, <1>4, <2>2, <3>1, <3>3, <3>4 DEF Progress
  <2>5. ViewInv'
    BY Zenon, <1>1, <1>2, <1>4, <2>2, <2>3, <2>4, CommandStays
  <2> QED
    BY Zenon, <2>3, <2>5
<1>6. CASE ~Readable(i)
  <2>1. writer' = [writer EXCEPT ![w] = Advance(writer[w])]
    BY Zenon, <1>c, <1>1, <1>6
  <2>2. /\ writer' \in [Writer -> {Idle} \cup Delivering \cup Updating]
        /\ writer'[w] = Advance(c) /\ \A v \in Writer \ {w} : writer'[v] = writer[v]
        /\ writer'[w] # Idle => writer'[w].id = i
    BY Zenon, <1>c, <1>i, <1>1, <2>1, AdvanceMoves
  <2>3. TypeOK'
    BY Zenon, <1>1, <2>2 DEF TypeOK
  <2>4. ASSUME i \notin damaged, writer'[w] # Idle
        PROVE  Progress(writer[w])'
    <3>1. Remaining(c.batch, events[i]) /\ Remaining(c.todo, events[i])
      BY Zenon, <1>1, <1>2, <2>4, <1>c, <1>i, Undamaged DEF Progress
    <3>2. /\ Len(c.todo) > 1 /\ Advance(c).todo = Tail(c.todo) /\ Advance(c).pc = "load"
          /\ Advance(c).batch = c.batch
      BY Zenon, <1>1, <1>2, <2>2, <2>4, AdvanceIs
    <3>3. Remaining(Tail(c.todo), events[i])
      BY Zenon, <1>2, <3>1, <3>2, RemainingTail
    <3> QED
      BY Zenon, <1>1, <1>6, <2>2, <2>4, <3>1, <3>2, <3>3, ProgressKept
  <2>5. ViewInv'
    BY Zenon, <1>1, <1>2, <1>6, <2>2, <2>3, <2>4, CommandStays
  <2> QED
    BY Zenon, <2>3, <2>5
<1> QED
  BY Zenon, <1>5, <1>6


\* update_view writes the row the load had in mind.
LEMMA UpdateViewInv ==
    ASSUME TypeOK, ViewInv, NEW w \in Writer, UpdateView(w)
    PROVE  TypeOK' /\ ViewInv'
<1>c. PICK c \in Delivering \cup Updating : c = writer[w]
  BY Zenon, CommandIs DEF UpdateView
<1>i. PICK i \in Id : i = c.id
  BY Zenon, <1>c, CommandIs DEF UpdateView
<1>1. /\ c.pc = "update" /\ writer' = [writer EXCEPT ![w] = Advance(writer[w])]
      /\ view' = [view EXCEPT ![i] = [version |-> c.version + 1, seen |-> c.seen, form |-> deployed.form]]
      /\ UNCHANGED <<events, registry, deployed, stage, stale, replay, handled, faults, damaged>>
  BY Zenon, <1>c, <1>i DEF UpdateView, startup
<1>2. /\ On(w, i) /\ c.version \in Nat /\ c.seen \in Seq(Nat) /\ deployed.form \in Nat
      /\ c.todo \in Batch /\ events[i] \in Nat
  <2>1. deployed.form \in Nat
    BY DEF TypeOK
  <2> QED
    BY Zenon, <2>1, <1>c, <1>i, <1>1, CommandIs DEF TypeOK
<1>r. PICK r : r = [version |-> c.version + 1, seen |-> c.seen, form |-> deployed.form]
  BY Zenon
<1>3. r \in Row /\ r.version = c.version + 1 /\ r.version # 0 /\ r.seen = c.seen /\ r.form = deployed.form
  BY <1>2, <1>r DEF Row
<1>4. view' \in [Id -> Row] /\ view'[i] = r /\ \A k \in Id \ {i} : view'[k] = view[k]
  BY Zenon, <1>1, <1>3, <1>r DEF TypeOK
<1>5. /\ writer' \in [Writer -> {Idle} \cup Delivering \cup Updating]
      /\ writer'[w] = Advance(c) /\ \A v \in Writer \ {w} : writer'[v] = writer[v]
      /\ writer'[w] # Idle => writer'[w].id = i
  BY Zenon, <1>c, <1>i, <1>1, AdvanceMoves
<1>6. TypeOK'
  BY Zenon, <1>1, <1>4, <1>5 DEF TypeOK
<1>7. ASSUME i \notin damaged
      PROVE  /\ r.version <= events[i] /\ r.seen = Between(0, r.version)
             /\ writer'[w] # Idle => Progress(writer[w])'
             /\ writer'[w] = Idle => r.version = events[i]
  <2>1. /\ Remaining(c.batch, events[i]) /\ Remaining(c.todo, events[i])
        /\ c.version = events[i] - Len(c.todo) /\ c.seen = Between(0, c.version + 1)
    BY Zenon, <1>1, <1>2, <1>7, <1>c, <1>i, Undamaged DEF Progress
  <2>2. /\ Len(c.todo) \in Nat \ {0}
        /\ Len(c.todo) > 1 => Remaining(Tail(c.todo), events[i]) /\ Len(Tail(c.todo)) = Len(c.todo) - 1
    BY Zenon, <1>2, <2>1, RemainingTail
  <2>3. r.version <= events[i] /\ r.seen = Between(0, r.version)
    BY <1>2, <1>3, <2>1, <2>2
  <2>4. CASE Len(c.todo) > 1
    <3>1. /\ Advance(c) # Idle /\ Advance(c).todo = Tail(c.todo) /\ Advance(c).pc = "load"
          /\ Advance(c).batch = c.batch
      BY Zenon, <1>1, <2>4, AdvanceIs
    <3>2. r.version = events[i] - Len(Tail(c.todo))
      BY <1>2, <1>3, <2>1, <2>2, <2>4
    <3>3. Progress(writer[w])'
      BY Zenon, <1>1, <1>4, <1>5, <2>1, <2>2, <2>4, <3>1, <3>2 DEF Progress
    <3> QED
      BY Zenon, <1>5, <2>3, <3>1, <3>3
  <2>5. CASE ~(Len(c.todo) > 1)
    <3>1. Advance(c) = Idle
      BY Zenon, <1>1, <2>5, AdvanceIs
    <3>2. r.version = events[i]
      BY <1>2, <1>3, <2>1, <2>2, <2>5
    <3> QED
      BY Zenon, <1>5, <2>3, <3>1, <3>2
  <2> QED
    BY Zenon, <2>4, <2>5
<1>8. i \notin damaged' =>
         /\ view'[i].version <= events[i] /\ view'[i].seen = Between(0, view'[i].version)
         /\ writer'[w] # Idle => Progress(writer[w])'
         /\ writer'[w] = Idle /\ Readable(i)' => view'[i].version = events[i]
  BY Zenon, <1>1, <1>4, <1>7
<1>9. damaged \subseteq damaged' /\ damaged' \subseteq damaged \cup {i}
  BY Zenon, <1>1
<1>10. UNCHANGED <<events, registry, deployed, stage, stale, replay>>
  BY Zenon, <1>1
<1>11. view'[i] = view[i] \/ (view'[i].version # 0 /\ view'[i].form = deployed.form)
  BY Zenon, <1>3, <1>4
<1>12. ViewInv'
  BY Zenon, <1>2, <1>4, <1>5, <1>6, <1>8, <1>9, <1>10, <1>11, CommandKeeps
<1> QED
  BY Zenon, <1>6, <1>12

\* update_view finds another row: the entity's commands overlapped.
LEMMA UpdateRefusedInv ==
    ASSUME TypeOK, ViewInv, NEW w \in Writer, UpdateRefused(w)
    PROVE  TypeOK' /\ ViewInv'
<1>i. PICK i \in Id : i = writer[w].id
  BY Zenon, CommandIs DEF UpdateRefused
<1>1. /\ writer[w].pc = "update" /\ damaged' = damaged \cup {i}
      /\ writer' = [writer EXCEPT ![w] = Advance(writer[w])] \/ Retry(w, "load")
      /\ UNCHANGED <<events, view, registry, deployed, stage, stale, replay, handled, faults>>
  BY Zenon, <1>i DEF UpdateRefused, database, startup
<1>2. On(w, i)
  BY Zenon, <1>i, <1>1, CommandIs
<1>3. /\ writer' \in [Writer -> {Idle} \cup Delivering \cup Updating]
      /\ \A v \in Writer \ {w} : writer'[v] = writer[v]
      /\ writer'[w] # Idle => writer'[w].id = i
  BY Zenon, <1>i, <1>1, AdvanceMoves, RetryIs
<1>4. TypeOK'
  BY Zenon, <1>1, <1>3 DEF TypeOK
<1>5. i \in damaged'
  BY Zenon, <1>1
<1>6. ViewInv'
  BY Zenon, <1>1, <1>2, <1>3, <1>4, <1>5, CommandStays
<1> QED
  BY Zenon, <1>4, <1>6

\* Projection::react on a busy database: the same event again from the load,
\* or the update is given up.
LEMMA ViewBusyInv ==
    ASSUME TypeOK, ViewInv, NEW w \in Writer, ViewBusy(w)
    PROVE  TypeOK' /\ ViewInv'
<1>i. PICK i \in Id : i = writer[w].id
  BY Zenon, CommandIs DEF ViewBusy
<1>1. /\ writer[w].pc \in {"load", "update"} /\ Retry(w, "load")
      /\ damaged' = IF Retried(writer[w]) THEN damaged ELSE damaged \cup {i}
      /\ UNCHANGED <<events, view, registry, deployed, stage, stale, replay, handled>>
      /\ faults' = [faults EXCEPT !.busy = @ + 1]
  BY Zenon, <1>i DEF ViewBusy, Busy, database, startup
<1>2. On(w, i)
  BY Zenon, <1>i, <1>1, CommandIs
<1>3. /\ writer' \in [Writer -> {Idle} \cup Delivering \cup Updating]
      /\ \A v \in Writer \ {w} : writer'[v] = writer[v]
      /\ writer'[w] # Idle => writer'[w].id = i
      /\ Retried(writer[w]) => /\ writer'[w] # Idle /\ writer'[w].pc = "load"
                               /\ writer'[w].todo = writer[w].todo
                               /\ writer'[w].batch = writer[w].batch
  BY Zenon, <1>i, <1>1, RetryIs
<1>4. faults' \in [busy : Nat, crashes : Nat]
  BY <1>1 DEF TypeOK
<1>5. TypeOK'
  BY Zenon, <1>1, <1>3, <1>4 DEF TypeOK
<1>6. ASSUME i \notin damaged'
      PROVE  writer'[w] # Idle /\ Progress(writer[w])'
  <2>1. Retried(writer[w]) /\ i \notin damaged
    BY Zenon, <1>1, <1>6
  <2>2. /\ Remaining(writer[w].batch, events[i]) /\ Remaining(writer[w].todo, events[i])
        /\ Readable(i) => view[i].version = events[i] - Len(writer[w].todo)
    BY Zenon, <1>i, <1>1, <1>2, <2>1, Undamaged DEF Progress
  <2> QED
    BY Zenon, <1>1, <1>3, <2>1, <2>2, ProgressKept
<1>7. damaged' \in {damaged, damaged \cup {i}}
  BY Zenon, <1>1
<1>8. ViewInv'
  BY Zenon, <1>1, <1>2, <1>3, <1>5, <1>6, <1>7, CommandStays
<1> QED
  BY Zenon, <1>5, <1>8


\* Store::send commits: a first command on a current entity starts out right, and
\* one that overlaps another damages the entity.
LEMMA CommitInv ==
    ASSUME TypeOK, ViewInv, NEW w \in Writer, NEW i \in Id, NEW k \in 1..MaxBatch, Commit(w, i, k)
    PROVE  TypeOK' /\ ViewInv'
<1>e. PICK e \in Nat : e = events[i]
  BY Zenon DEF TypeOK
<1>k. k \in Nat \ {0}
  BY ProjectionAssumption
<1>b. PICK b : b = Between(e, e + k)
  BY Zenon
<1>d. PICK d : d = [pc |-> "react", id |-> i, batch |-> b, todo |-> b, tries |-> 0]
  BY Zenon
<1>1. /\ stage = "ready" /\ writer[w] = Idle /\ events' = [events EXCEPT ![i] = e + k]
      /\ writer' = [writer EXCEPT ![w] = d]
      /\ damaged' = damaged \cup {j \in {i} : \E v \in Writer : On(v, i)}
      /\ UNCHANGED <<view, registry, deployed, stage, stale, replay, handled, faults>>
  BY Zenon, <1>e, <1>b, <1>d DEF Commit, On, startup
<1>2. b \in Seq(Nat) /\ Len(b) = k
  BY <1>b, <1>k, BetweenIs
<1>3. b \in Batch
  BY <1>k, <1>2, NonEmpty
<1>4. /\ d \in Delivering /\ d # Idle /\ d.id = i /\ d.pc = "react" /\ d.batch = b /\ d.todo = b
  BY <1>d, <1>3 DEF Delivering, Idle
<1>5. Remaining(b, e + k) /\ (e + k) - Len(b) = e /\ e + k \in Nat
  BY <1>b, <1>k, <1>2 DEF Remaining
<1>6. /\ writer' \in [Writer -> {Idle} \cup Delivering \cup Updating] /\ writer'[w] = d
      /\ \A v \in Writer \ {w} : writer'[v] = writer[v]
  BY Zenon, <1>1, <1>4, Moves
<1>7. /\ events' \in [Id -> Nat] /\ events'[i] = e + k /\ \A j \in Id \ {i} : events'[j] = events[j]
  BY Zenon, <1>1, <1>5 DEF TypeOK
<1>8. TypeOK'
  BY Zenon, <1>1, <1>6, <1>7 DEF TypeOK
<1>9. /\ \A v \in Writer, j \in Id : j # i => (On(v, j)' <=> On(v, j))
      /\ i \notin damaged' => i \notin damaged /\ \A v \in Writer : ~On(v, i)
      /\ damaged \subseteq damaged'
      /\ \A v \in Writer : On(v, i)' => v = w \/ On(v, i)
      /\ On(w, i)'
      /\ \A j \in Id : Readable(j)' <=> Readable(j)
  BY Zenon, <1>1, <1>4, <1>6 DEF On, Readable, Exists
<1>10. AloneInv'
  <2>1. stage' = stage /\ stage = "ready" /\ AloneInv
    BY Zenon, <1>1 DEF ViewInv
  <2>2. ASSUME NEW j \in Id \ damaged', NEW v \in Writer, NEW u \in Writer, On(v, j)', On(u, j)'
        PROVE  v = u
    <3>1. CASE j = i
      <4>1. i \notin damaged'
        BY Zenon, <3>1
      <4>2. v = w /\ u = w
        BY Zenon, <1>9, <2>2, <3>1, <4>1
      <4> QED
        BY Zenon, <4>2
    <3>2. CASE j # i
      <4>1. j \in Id \ damaged /\ On(v, j) /\ On(u, j)
        BY Zenon, <1>9, <2>2, <3>2
      <4> QED
        BY Zenon, <2>1, <4>1 DEF AloneInv
    <3> QED
      BY Zenon, <3>1, <3>2
  <2> QED
    BY Zenon, <2>1, <2>2 DEF AloneInv
<1>11. RowInv'
  <2>1. \A j \in Id \ damaged' : view[j].version <= events'[j]
    <3> SUFFICES ASSUME NEW j \in Id \ damaged' PROVE view[j].version <= events'[j]
      BY Zenon
    <3>1. view[j].version <= events[j] /\ view[j].version \in Nat /\ events[j] \in Nat
      BY <1>9 DEF ViewInv, RowInv, TypeOK, Row
    <3>2. events'[j] = events[j] \/ events'[j] = events[j] + k
      BY Zenon, <1>e, <1>7
    <3> QED
      BY <1>k, <3>1, <3>2
  <2> QED
    BY Zenon, <1>1, <2>1 DEF ViewInv, RowInv
<1>12. ViewIsFold'
  BY Zenon, <1>1, <1>9 DEF ViewInv, ViewIsFold
<1>13. ProgressInv'
  <2> SUFFICES ASSUME NEW v \in Writer, NEW j \in Id \ damaged', On(v, j)'
               PROVE  Progress(writer[v])'
    BY Zenon DEF ProgressInv
  <2>1. CASE j # i
    <3>1. On(v, j) /\ j \notin damaged /\ v # w /\ writer'[v] = writer[v] /\ writer[v].id = j
      BY Zenon, <1>1, <1>6, <1>9, <2>1 DEF On
    <3>2. Progress(writer[v])
      BY Zenon, <3>1 DEF ViewInv, ProgressInv
    <3> QED
      BY Zenon, <1>1, <1>7, <1>9, <2>1, <3>1, <3>2 DEF Progress
  <2>2. CASE j = i
    <3>1. v = w /\ i \notin damaged
      BY Zenon, <1>9, <2>2
    <3>2. Readable(i) => view[i].version = e
      BY Zenon, <1>1, <1>9, <1>e, <2>2 DEF ViewInv, CurrentInv
    <3> QED
      BY Zenon, <1>1, <1>4, <1>5, <1>6, <1>7, <1>9, <3>1, <3>2 DEF Progress
  <2> QED
    BY Zenon, <2>1, <2>2
<1>14. CurrentInv'
  <2> SUFFICES ASSUME NEW j \in Id \ damaged', Readable(j)', \A v \in Writer : ~On(v, j)'
               PROVE  view'[j].version = events'[j]
    BY Zenon DEF CurrentInv
  <2>1. j # i /\ j \notin damaged /\ Readable(j) /\ \A v \in Writer : ~On(v, j)
    BY Zenon, <1>9
  <2> QED
    BY Zenon, <1>1, <1>7, <2>1 DEF ViewInv, CurrentInv
<1>15. StaleInv' /\ ReplayInv'
  <2>1. stale = {} /\ replay = NoReplay
    BY Zenon, <1>1 DEF ViewInv, StaleInv, ReplayInv
  <2> QED
    BY Zenon, <1>1, <2>1 DEF StaleInv, ReplayInv
<1>16. FormInv'
  BY Zenon, <1>1, <1>9 DEF ViewInv, FormInv
<1> QED
  BY Zenon, <1>8, <1>10, <1>11, <1>12, <1>13, <1>14, <1>15, <1>16 DEF ViewInv

-----------------------------------------------------------------------------
(* Startup, repairs and failures: no command is under way.                 *)

\* Nothing is to be shown of commands that are not there.
LEMMA AllIdle ==
    ASSUME \A w \in Writer : writer'[w] = Idle
    PROVE  AloneInv' /\ ProgressInv'
BY Zenon DEF AloneInv, ProgressInv, On

\* Readability is a matter of the row and of the program.
LEMMA ReadableKept ==
    ASSUME NEW i, view'[i] = view[i], deployed' = deployed
    PROVE  Readable(i)' <=> Readable(i)
BY Zenon DEF Readable, Exists

\* send_command commits while no store is open.
LEMMA CliCommitInv ==
    ASSUME TypeOK, ViewInv, NEW i \in Id, CliCommit(i)
    PROVE  TypeOK' /\ ViewInv'
<1>1. /\ stage = "down" /\ events' = [events EXCEPT ![i] = events[i] + 1]
      /\ UNCHANGED <<view, registry, deployed, stage, stale, replay, writer, handled, faults, damaged>>
  BY Zenon DEF CliCommit, startup
<1>2. /\ \A w \in Writer : writer'[w] = Idle
      /\ stale = {} /\ replay = NoReplay
  BY Zenon, <1>1 DEF ViewInv, AloneInv, StaleInv, ReplayInv
<1>3. events' \in [Id -> Nat] /\ \A j \in Id : events[j] <= events'[j]
  BY <1>1 DEF TypeOK
<1>4. TypeOK'
  BY Zenon, <1>1, <1>3 DEF TypeOK
<1>5. RowInv'
  <2>1. \A j \in Id \ damaged : view[j].version <= events'[j]
    BY <1>3 DEF TypeOK, Row, ViewInv, RowInv
  <2> QED
    BY Zenon, <1>1, <2>1 DEF ViewInv, RowInv
<1>6. ViewIsFold' /\ CurrentInv' /\ StaleInv' /\ ReplayInv'
  BY Zenon, <1>1, <1>2 DEF ViewInv, ViewIsFold, CurrentInv, StaleInv, ReplayInv
<1>7. FormInv'
  BY Zenon, <1>1, ReadableKept DEF ViewInv, FormInv
<1> QED
  BY Zenon, <1>2, <1>4, <1>5, <1>6, <1>7, AllIdle DEF ViewInv

\* The process dies.
LEMMA DieInv ==
    ASSUME TypeOK, ViewInv, Crash \/ Deploy
    PROVE  TypeOK' /\ ViewInv'
<1>1. /\ stage' = "down" /\ stale' = {} /\ replay' = NoReplay /\ writer' = [w \in Writer |-> Idle]
      /\ UNCHANGED <<events, view, registry, handled, damaged>>
  BY Zenon DEF Crash, Deploy, Die, database
<1>2. faults' \in [busy : Nat, crashes : Nat]
  BY DEF Crash, Deploy, TypeOK
<1>3. /\ deployed' \in [schema : Nat, form : Nat]
      /\ \/ deployed' = deployed
         \/ \E bump \in {0, 1} : /\ deployed'.schema = deployed.schema + bump
                                 /\ deployed'.form = deployed.form + 1
  BY DEF Crash, Deploy, TypeOK
<1>4. TypeOK'
  BY Zenon, <1>1, <1>2, <1>3 DEF TypeOK, Stage
<1>5. RowInv' /\ ViewIsFold' /\ CurrentInv' /\ StaleInv' /\ ReplayInv'
  BY Zenon, <1>1 DEF ViewInv, RowInv, ViewIsFold, CurrentInv, StaleInv, ReplayInv
<1>6. FormInv'
  <2>1. /\ registry \in Nat /\ deployed.schema \in Nat /\ deployed.form \in Nat
        /\ registry <= deployed.schema /\ deployed.schema <= deployed.form
    BY DEF ViewInv, FormInv, TypeOK
  <2>2. CASE deployed' = deployed
    BY Zenon, <1>1, <2>2, ReadableKept DEF ViewInv, FormInv
  <2>3. CASE deployed' # deployed
    <3>1. PICK bump \in {0, 1} : /\ deployed'.schema = deployed.schema + bump
                                 /\ deployed'.form = deployed.form + 1
      BY Zenon, <1>3, <2>3
    <3>2. /\ registry <= deployed'.schema /\ deployed'.schema <= deployed'.form
          /\ deployed'.schema = deployed'.form => registry # deployed'.schema
      BY <2>1, <3>1
    <3> QED
      BY Zenon, <1>1, <3>2 DEF FormInv
  <2> QED
    BY Zenon, <2>2, <2>3
<1> QED
  BY Zenon, <1>1, <1>4, <1>5, <1>6, AllIdle DEF ViewInv


\* Reconciler::reconcile compares versions.
LEMMA ReconcileInv ==
    ASSUME TypeOK, ViewInv, Reconcile
    PROVE  TypeOK' /\ ViewInv'
<1>1. /\ stage = "down" /\ stage' \in {"catch_up", "rebuild"}
      /\ stage' = "catch_up" => registry = deployed.schema
      /\ UNCHANGED <<events, view, registry, deployed, stale, replay, writer, handled, faults, damaged>>
  BY Zenon DEF Reconcile, database
<1>2. \A w \in Writer : writer'[w] = Idle
  BY Zenon, <1>1 DEF ViewInv, AloneInv
<1>3. TypeOK'
  BY Zenon, <1>1 DEF TypeOK, Stage
<1>4. RowInv' /\ ViewIsFold' /\ CurrentInv'
  BY Zenon, <1>1 DEF ViewInv, RowInv, ViewIsFold, CurrentInv
<1>5. StaleInv' /\ ReplayInv'
  BY Zenon, <1>1 DEF ViewInv, StaleInv, ReplayInv
<1>6. FormInv'
  BY Zenon, <1>1, ReadableKept DEF ViewInv, FormInv
<1> QED
  BY Zenon, <1>2, <1>3, <1>4, <1>5, <1>6, AllIdle DEF ViewInv

\* No row: the fold of no event, in a form every program reads.
LEMMA NoRowIs ==
    /\ NoRow \in Row /\ NoRow.version = 0 /\ NoRow.seen = Between(0, 0)
    /\ \A i \in Id : view[i] = NoRow => Readable(i)
<1>1. NoRow \in Row /\ NoRow.version = 0 /\ NoRow.seen = <<>>
  BY DEF NoRow, Row
<1>2. Between(0, 0) = <<>>
  BY DEF Between
<1> QED
  BY Zenon, <1>1, <1>2 DEF Readable, Exists

\* rebuild_all, and an operator's rebuild: the rows go, the replay follows.
LEMMA RebuildInv ==
    ASSUME TypeOK, ViewInv, RebuildAll \/ \E i \in Id : Rebuild(i)
    PROVE  TypeOK' /\ ViewInv'
<1>1. /\ stage' = "catch_up" /\ stage \in {"rebuild", "ready"}
      /\ UNCHANGED <<events, registry, deployed, stale, replay, writer, handled, faults>>
      /\ \A w \in Writer : writer'[w] = Idle
  BY Zenon DEF RebuildAll, Rebuild, ViewInv, AloneInv
<1>2. stale = {} /\ replay = NoReplay
  BY Zenon, <1>1 DEF ViewInv, StaleInv, ReplayInv
<1>3. /\ view' \in [Id -> Row] /\ damaged' \subseteq Id
      /\ \A k \in Id : view'[k] = NoRow \/ (view'[k] = view[k] /\ (k \in damaged' <=> k \in damaged))
  BY Zenon, NoRowIs DEF RebuildAll, Rebuild, TypeOK
<1>4. (stage = "rebuild" => \A k \in Id : view'[k] = NoRow)
  BY Zenon DEF RebuildAll, Rebuild
<1>5. TypeOK'
  BY Zenon, <1>1, <1>3 DEF TypeOK, Stage
<1>6. RowInv'
  <2> SUFFICES ASSUME NEW k \in Id
               PROVE  /\ view'[k].version = 0 => view'[k] = NoRow
                      /\ k \notin damaged' => view'[k].version <= events[k]
    BY Zenon, <1>1 DEF RowInv
  <2>1. CASE view'[k] = NoRow
    <3>1. 0 <= events[k]
      BY DEF TypeOK
    <3> QED
      BY Zenon, <2>1, <3>1, NoRowIs
  <2>2. CASE view'[k] # NoRow
    BY Zenon, <1>3, <2>2 DEF ViewInv, RowInv
  <2> QED
    BY Zenon, <2>1, <2>2
<1>7. ViewIsFold'
  BY Zenon, <1>3, NoRowIs DEF ViewInv, ViewIsFold
<1>8. CurrentInv' /\ StaleInv' /\ ReplayInv'
  BY Zenon, <1>1, <1>2 DEF CurrentInv, StaleInv, ReplayInv
<1>9. FormInv'
  <2>1. \A k \in Id : view'[k] = NoRow => Readable(k)'
    BY Zenon DEF Readable, Exists
  <2>2. ASSUME deployed.schema = deployed.form, NEW k \in Id
        PROVE  Readable(k)'
    <3>1. CASE view'[k] = NoRow
      BY Zenon, <2>1, <3>1
    <3>2. CASE view'[k] # NoRow
      <4>1. stage = "ready" /\ view'[k] = view[k]
        BY Zenon, <1>1, <1>3, <1>4, <3>2
      <4>2. Readable(k)
        BY Zenon, <2>2, <4>1 DEF ViewInv, FormInv
      <4> QED
        BY Zenon, <1>1, <4>1, <4>2, ReadableKept
    <3> QED
      BY Zenon, <3>1, <3>2
  <2> QED
    BY Zenon, <1>1, <2>2 DEF ViewInv, FormInv
<1> QED
  BY Zenon, <1>1, <1>5, <1>6, <1>7, <1>8, <1>9, AllIdle DEF ViewInv

\* catch_up finds the rows that are behind, and misses none.
LEMMA FindStaleInv ==
    ASSUME TypeOK, ViewInv, FindStale
    PROVE  TypeOK' /\ ViewInv'
<1>1. /\ stage = "catch_up" /\ stage' = "replay"
      /\ stale' = {[id |-> i, version |-> view[i].version, max |-> events[i]] :
                      i \in {i \in Id : Behind(i)}}
      /\ UNCHANGED <<events, view, registry, deployed, replay, writer, handled, faults, damaged>>
  BY Zenon DEF FindStale, database
<1>2. replay = NoReplay /\ \A w \in Writer : writer'[w] = Idle
  BY Zenon, <1>1 DEF ViewInv, AloneInv, StaleInv, ReplayInv
<1>3. \A r \in stale' : /\ r \in StaleRow /\ r.version = view[r.id].version
                        /\ r.max = events[r.id] /\ r.max > r.version
  <2> SUFFICES ASSUME NEW r \in stale'
               PROVE  /\ r \in StaleRow /\ r.version = view[r.id].version
                      /\ r.max = events[r.id] /\ r.max > r.version
    BY Zenon
  <2>1. PICK i \in Id : Behind(i) /\ r = [id |-> i, version |-> view[i].version, max |-> events[i]]
    BY Zenon, <1>1
  <2>2. view[i].version \in Nat /\ events[i] \in Nat /\ events[i] > view[i].version
    BY <2>1 DEF TypeOK, Row, Behind
  <2> QED
    BY <2>1, <2>2 DEF StaleRow
<1>4. \A i \in Id : Behind(i) => \E r \in stale' : r.id = i
  <2> SUFFICES ASSUME NEW i \in Id, Behind(i) PROVE \E r \in stale' : r.id = i
    BY Zenon
  <2>1. PICK r : r = [id |-> i, version |-> view[i].version, max |-> events[i]]
    BY Zenon
  <2>2. r \in stale' /\ r.id = i
    BY <1>1, <2>1
  <2> QED
    BY Zenon, <2>2
<1>5. TypeOK'
  BY Zenon, <1>1, <1>3 DEF TypeOK, Stage
<1>6. RowInv' /\ ViewIsFold' /\ CurrentInv' /\ ReplayInv'
  BY Zenon, <1>1, <1>2 DEF ViewInv, RowInv, ViewIsFold, CurrentInv, ReplayInv
<1>7. StaleInv'
  BY Zenon, <1>1, <1>3, <1>4 DEF StaleInv, Behind
<1>8. FormInv'
  BY Zenon, <1>1, ReadableKept DEF ViewInv, FormInv
<1> QED
  BY Zenon, <1>2, <1>5, <1>6, <1>7, <1>8, AllIdle DEF ViewInv


\* A replay under way is of a row found behind, while nobody commits.
LEMMA ReplayIs ==
    ASSUME TypeOK, ViewInv, replay.pc \in {"fetch", "write"}
    PROVE  /\ replay \in Replaying /\ replay # NoReplay /\ replay.row \in StaleRow
           /\ replay.seen \in Seq(Nat) /\ (replay.pc = "fetch" => replay.from \in Nat)
           /\ stage = "replay" /\ \A w \in Writer : writer[w] = Idle
<1>1. replay # NoReplay /\ replay \in Replaying
  BY DEF TypeOK, NoReplay
<1>2. replay.row \in StaleRow /\ replay.seen \in Seq(Nat) /\ (replay.pc = "fetch" => replay.from \in Nat)
  BY <1>1 DEF Replaying
<1>3. stage = "replay"
  BY Zenon, <1>1 DEF ViewInv, StaleInv, ReplayInv
<1> QED
  BY Zenon, <1>1, <1>2, <1>3 DEF ViewInv, AloneInv

\* While the replay moves on without touching views or rows, only what it has
\* folded so far is to be shown.
LEMMA ReplayMoves ==
    ASSUME TypeOK, ViewInv, stage = "replay", replay' \in Replaying, ReplayInv',
           UNCHANGED <<events, view, registry, deployed, stage, stale, writer, handled, faults, damaged>>
    PROVE  TypeOK' /\ ViewInv'
<1>1. \A w \in Writer : writer'[w] = Idle
  BY Zenon DEF ViewInv, AloneInv
<1>2. TypeOK'
  BY Zenon DEF TypeOK
<1>3. RowInv' /\ ViewIsFold' /\ CurrentInv'
  BY Zenon DEF ViewInv, RowInv, ViewIsFold, CurrentInv
<1>4. StaleInv'
  BY Zenon DEF ViewInv, StaleInv, Behind
<1>5. FormInv'
  BY Zenon, ReadableKept DEF ViewInv, FormInv
<1> QED
  BY Zenon, <1>1, <1>2, <1>3, <1>4, <1>5, AllIdle DEF ViewInv

\* replay_missed_events loads a row, or starts an unreadable one afresh.
LEMMA ReplayLoadInv ==
    ASSUME TypeOK, ViewInv, NEW r \in stale, ReplayLoad(r)
    PROVE  TypeOK' /\ ViewInv'
<1>d. PICK d : d = [pc |-> "fetch", row |-> r, from |-> ReplayFrom(r),
                    seen |-> IF Exists(r.id) /\ Readable(r.id) THEN view[r.id].seen ELSE <<>>]
  BY Zenon
<1>1. /\ stage = "replay" /\ replay' = d
      /\ UNCHANGED <<events, view, registry, deployed, stage, stale, writer, handled, faults, damaged>>
  BY Zenon, <1>d DEF ReplayLoad, database
<1>2. r \in StaleRow /\ r.id \in Id /\ r.version \in Nat /\ events[r.id] \in Nat /\ view[r.id] \in Row
  <2>1. r \in StaleRow
    BY Zenon DEF TypeOK
  <2>2. r.id \in Id /\ r.version \in Nat
    BY <2>1 DEF StaleRow
  <2> QED
    BY Zenon, <2>1, <2>2 DEF TypeOK
<1>3. view[r.id].seen \in Seq(Nat) /\ view[r.id].version \in Nat
  BY <1>2 DEF Row
<1>4. r.version = view[r.id].version /\ r.max = events[r.id] /\ r.max > r.version
  BY Zenon DEF ViewInv, StaleInv
<1>5. CASE Exists(r.id) /\ Readable(r.id)
  <2>1. d = [pc |-> "fetch", row |-> r, from |-> r.version, seen |-> view[r.id].seen]
    BY Zenon, <1>d, <1>5 DEF ReplayFrom
  <2>2. /\ d \in Replaying /\ d.row = r /\ d.pc = "fetch" /\ d.from = r.version
        /\ d.seen = view[r.id].seen
    BY <1>2, <1>3, <2>1 DEF Replaying
  <2>3. r.id \notin damaged => d.seen = Between(0, d.from)
    BY Zenon, <1>2, <1>4, <2>2 DEF ViewInv, ViewIsFold
  <2>4. d.pc # "write" /\ d.from <= events[r.id]
    BY <1>2, <1>4, <2>2
  <2>5. ReplayInv'
    BY Zenon, <1>1, <2>2, <2>3, <2>4 DEF ReplayInv
  <2> QED
    BY Zenon, <1>1, <2>2, <2>5, ReplayMoves
<1>6. CASE ~(Exists(r.id) /\ Readable(r.id))
  <2>1. d = [pc |-> "fetch", row |-> r, from |-> 0, seen |-> <<>>]
    BY Zenon, <1>d, <1>6 DEF ReplayFrom
  <2>2. d \in Replaying /\ d.row = r /\ d.pc = "fetch" /\ d.from = 0 /\ d.seen = <<>>
    BY <1>2, <2>1 DEF Replaying
  <2>3. d.seen = Between(0, d.from) /\ d.from <= events[r.id] /\ d.pc # "write"
    BY <1>2, <2>2 DEF Between
  <2>4. ReplayInv'
    BY Zenon, <1>1, <2>2, <2>3 DEF ReplayInv
  <2> QED
    BY Zenon, <1>1, <2>2, <2>4, ReplayMoves
<1> QED
  BY Zenon, <1>5, <1>6

\* Its second query folds every event after those.
LEMMA ReplayFetchInv ==
    ASSUME TypeOK, ViewInv, ReplayFetch
    PROVE  TypeOK' /\ ViewInv'
<1>p. PICK p \in Replaying : p = replay
  BY Zenon, ReplayIs DEF ReplayFetch
<1>e. PICK e \in Nat : e = events[p.row.id]
  <2>1. p.row.id \in Id
    BY DEF Replaying, StaleRow
  <2> QED
    BY Zenon, <2>1 DEF TypeOK
<1>d. PICK d : d = [pc |-> "write", row |-> p.row, seen |-> p.seen \o Between(p.from, e)]
  BY Zenon
<1>1. /\ p.pc = "fetch" /\ replay' = d /\ stage = "replay"
      /\ UNCHANGED <<events, view, registry, deployed, stage, stale, writer, handled, faults, damaged>>
  BY Zenon, <1>p, <1>e, <1>d, ReplayIs DEF ReplayFetch, database
<1>2. p.row \in StaleRow /\ p.seen \in Seq(Nat) /\ p.from \in Nat /\ p.row \in stale
  BY Zenon, <1>p, <1>1, ReplayIs DEF ViewInv, ReplayInv
<1>f. p.from <= e
  BY Zenon, <1>p, <1>e, <1>1, ReplayIs DEF ViewInv, ReplayInv
<1>3. Between(p.from, e) \in Seq(Nat)
  BY Zenon, <1>2, <1>f, BetweenIs
<1>4. d \in Replaying /\ d.row = p.row /\ d.pc = "write" /\ d.seen = p.seen \o Between(p.from, e)
  <2>1. p.seen \o Between(p.from, e) \in Seq(Nat)
    BY <1>2, <1>3
  <2> QED
    BY Zenon, <1>2, <1>d, <2>1 DEF Replaying
<1>5. p.row.id \notin damaged => d.seen = Between(0, e)
  <2> SUFFICES ASSUME p.row.id \notin damaged PROVE d.seen = Between(0, e)
    BY Zenon
  <2>1. p.seen = Between(0, p.from)
    BY Zenon, <1>p, <1>1, ReplayIs DEF ViewInv, ReplayInv
  <2> QED
    BY Zenon, <1>2, <1>4, <1>f, <2>1, BetweenJoin
<1>6. d.pc # "fetch"
  BY <1>4
<1>7. ReplayInv'
  BY Zenon, <1>e, <1>1, <1>2, <1>4, <1>5, <1>6 DEF ReplayInv
<1> QED
  BY Zenon, <1>1, <1>4, <1>7, ReplayMoves

\* The row is written.
LEMMA ReplayWriteInv ==
    ASSUME TypeOK, ViewInv, ReplayWrite
    PROVE  TypeOK' /\ ViewInv'
<1>p. PICK p \in Replaying : p = replay
  BY Zenon, ReplayIs DEF ReplayWrite
<1>i. PICK i \in Id : i = p.row.id
  BY DEF Replaying, StaleRow
<1>r. PICK r : r = [version |-> p.row.max, seen |-> p.seen, form |-> deployed.form]
  BY Zenon
<1>1. /\ p.pc = "write" /\ view' = [view EXCEPT ![i] = r] /\ stale' = stale \ {p.row}
      /\ replay' = NoReplay /\ stage = "replay" /\ \A w \in Writer : writer'[w] = Idle
      /\ UNCHANGED <<events, registry, deployed, stage, writer, handled, faults, damaged>>
  BY Zenon, <1>p, <1>i, <1>r, ReplayIs DEF ReplayWrite
<1>2. p.row \in StaleRow /\ p.seen \in Seq(Nat) /\ p.row \in stale
  BY Zenon, <1>p, <1>1, ReplayIs DEF ViewInv, ReplayInv
<1>3. p.row.max \in Nat /\ deployed.form \in Nat /\ events[i] \in Nat /\ p.row.version \in Nat
  BY <1>2 DEF StaleRow, TypeOK
<1>4. p.row.max = events[i] /\ p.row.max > p.row.version
  BY Zenon, <1>i, <1>2 DEF ViewInv, StaleInv
<1>5. r \in Row /\ r.version = events[i] /\ r.version # 0 /\ r.seen = p.seen /\ r.form = deployed.form
  BY <1>2, <1>3, <1>4, <1>r DEF Row
<1>6. view' \in [Id -> Row] /\ view'[i] = r /\ \A k \in Id \ {i} : view'[k] = view[k]
  BY Zenon, <1>1, <1>5 DEF TypeOK
<1>7. TypeOK'
  BY Zenon, <1>1, <1>6 DEF TypeOK
<1>8. RowInv'
  <2>1. r.version <= events[i]
    BY <1>3, <1>5
  <2> QED
    BY Zenon, <1>1, <1>5, <1>6, <2>1 DEF ViewInv, RowInv
<1>9. ViewIsFold'
  <2>1. i \notin damaged => r.seen = Between(0, r.version)
    BY Zenon, <1>p, <1>i, <1>1, <1>5, ReplayIs DEF ViewInv, ReplayInv
  <2> QED
    BY Zenon, <1>1, <1>6, <2>1 DEF ViewInv, ViewIsFold
<1>10. CurrentInv' /\ ReplayInv'
  BY Zenon, <1>1 DEF CurrentInv, ReplayInv
<1>11. StaleInv'
  <2>1. ASSUME NEW q \in stale' PROVE q.id # i
    <3>1. q \in stale /\ q # p.row /\ q \in StaleRow
      BY Zenon, <1>1, <2>1 DEF TypeOK
    <3>2. ASSUME q.id = i PROVE FALSE
      <4>3. /\ q.version = view[q.id].version /\ q.max = events[q.id]
            /\ p.row.version = view[p.row.id].version /\ p.row.max = events[p.row.id]
        BY Zenon, <1>2, <3>1 DEF ViewInv, StaleInv
      <4>1. q.version = p.row.version /\ q.max = p.row.max /\ q.id = p.row.id
        BY Zenon, <1>i, <3>2, <4>3
      <4>2. q = p.row
        BY <1>2, <3>1, <4>1 DEF StaleRow
      <4> QED
        BY Zenon, <3>1, <4>2
    <3> QED
      BY Zenon, <3>2
  <2>2. \A q \in stale' : /\ q.version = view'[q.id].version
                          /\ q.max = events[q.id] /\ q.max > q.version
    <3> SUFFICES ASSUME NEW q \in stale'
                 PROVE  /\ q.version = view'[q.id].version
                        /\ q.max = events[q.id] /\ q.max > q.version
      BY Zenon
    <3>1. q \in stale /\ q \in StaleRow /\ q.id # i
      BY Zenon, <1>1, <2>1 DEF TypeOK
    <3>2. q.id \in Id
      BY <3>1 DEF StaleRow
    <3> QED
      BY Zenon, <1>6, <3>1, <3>2 DEF ViewInv, StaleInv
  <2>3. ASSUME NEW k \in Id, Behind(k)' PROVE \E q \in stale' : q.id = k
    <3>1. k # i
      BY <1>1, <1>3, <1>5, <1>6, <2>3 DEF Behind
    <3>2. Behind(k)
      BY Zenon, <1>1, <1>6, <2>3, <3>1 DEF Behind
    <3> QED
      BY Zenon, <1>i, <1>1, <3>1, <3>2 DEF ViewInv, StaleInv
  <2> QED
    BY Zenon, <1>1, <2>2, <2>3 DEF StaleInv
<1>12. FormInv'
  <2>1. Readable(i)' /\ \A k \in Id \ {i} : Readable(k) => Readable(k)'
    BY Zenon, <1>1, <1>5, <1>6 DEF Readable, Exists
  <2> QED
    BY Zenon, <1>1, <2>1 DEF ViewInv, FormInv
<1> QED
  BY Zenon, <1>1, <1>7, <1>8, <1>9, <1>10, <1>11, <1>12, AllIdle DEF ViewInv

\* record_version: every view has been repaired.
LEMMA RecordVersionInv ==
    ASSUME TypeOK, ViewInv, RecordVersion
    PROVE  TypeOK' /\ ViewInv'
<1>1. /\ stage = "replay" /\ stale = {} /\ replay = NoReplay
      /\ registry' = deployed.schema /\ stage' = "ready"
      /\ UNCHANGED <<events, view, deployed, stale, replay, writer, handled, faults, damaged>>
  BY Zenon DEF RecordVersion, Recovered
<1>2. \A w \in Writer : writer'[w] = Idle
  BY Zenon, <1>1 DEF ViewInv, AloneInv
<1>3. deployed.schema \in Nat /\ deployed.form \in Nat
  BY DEF TypeOK
<1>4. TypeOK'
  BY Zenon, <1>1, <1>3 DEF TypeOK, Stage
<1>5. RowInv' /\ ViewIsFold' /\ ReplayInv'
  BY Zenon, <1>1 DEF ViewInv, RowInv, ViewIsFold, ReplayInv
<1>6. CurrentInv'
  <2>1. ASSUME NEW i \in Id \ damaged PROVE view[i].version = events[i]
    <3>1. ~Behind(i) /\ view[i].version <= events[i]
      BY Zenon, <1>1 DEF ViewInv, StaleInv, RowInv
    <3>2. view[i].version \in Nat /\ events[i] \in Nat
      BY DEF TypeOK, Row
    <3> QED
      BY <3>1, <3>2 DEF Behind
  <2> QED
    BY Zenon, <1>1, <2>1 DEF CurrentInv
<1>7. StaleInv'
  BY Zenon, <1>1 DEF StaleInv
<1>8. FormInv'
  <2>1. deployed.schema <= deployed.schema
    BY <1>3
  <2> QED
    BY Zenon, <1>1, <2>1, ReadableKept DEF ViewInv, FormInv
<1> QED
  BY Zenon, <1>2, <1>4, <1>5, <1>6, <1>7, <1>8, AllIdle DEF ViewInv


-----------------------------------------------------------------------------
(* The reactor.                                                            *)

\* After an event the reactor is offered the rest of the batch, without it.
LEMMA AdvanceReacts ==
    ASSUME NEW c \in Delivering \cup Updating
    PROVE  Advance(c).pc = "react" =>
              /\ c.pc = "react" /\ Advance(c).id = c.id
              /\ IsInjective(c.todo) => /\ IsInjective(Advance(c).todo)
                                        /\ Range(Advance(c).todo) \subseteq Range(c.todo) \ {Head(c.todo)}
<1> SUFFICES ASSUME Advance(c).pc = "react"
             PROVE  /\ c.pc = "react" /\ Advance(c).id = c.id
                    /\ IsInjective(c.todo) => /\ IsInjective(Advance(c).todo)
                                              /\ Range(Advance(c).todo) \subseteq Range(c.todo) \ {Head(c.todo)}
  BY Zenon
<1>1. Idle.pc # "react" /\ "load" # "react"
  BY DEF Idle
<1>2. c.todo \in Batch
  BY DEF Delivering, Updating
<1>3. Advance(c) # Idle /\ c.pc = "react" /\ Advance(c).todo = Tail(c.todo) /\ Advance(c).id = c.id
  BY Zenon, <1>1, AdvanceIs
<1> QED
  BY Zenon, <1>2, <1>3, TailRange

\* A step that takes no event keeps the reactor's accounts, if it hands nobody
\* an event it did not have.
LEMMA HandledFrame ==
    ASSUME HandledInv, HandledOnce, handled' = handled,
           \A i \in Id : 1..events[i] \subseteq 1..events'[i],
           \A w \in Writer : writer'[w].pc = "react" =>
              /\ writer[w].pc = "react" /\ writer'[w].id = writer[w].id
              /\ IsInjective(writer[w].todo) =>
                    IsInjective(writer'[w].todo) /\ Range(writer'[w].todo) \subseteq Range(writer[w].todo)
    PROVE  HandledInv' /\ HandledOnce'
<1>1. \A w \in Writer, i \in Id : Pending(w, i)' \subseteq Pending(w, i)
  BY Zenon DEF Pending, HandledInv
<1>2. /\ \A i \in Id : Range(handled'[i]) \subseteq 1..events'[i]
      /\ \A i \in Id, w \in Writer : Pending(w, i)' \subseteq 1..events'[i] \ Range(handled'[i])
  BY Zenon, <1>1 DEF HandledInv
<1>3. \A i \in Id, v, w \in Writer : v # w => Pending(v, i)' \cap Pending(w, i)' = {}
  BY Zenon, <1>1 DEF HandledInv
<1>4. \A w \in Writer : writer'[w].pc = "react" => IsInjective(writer'[w].todo)
  BY Zenon DEF HandledInv
<1> QED
  BY Zenon, <1>2, <1>3, <1>4 DEF HandledInv, HandledOnce

\* RetryOnBusy::react: the reactor takes an event nobody handed it before.
LEMMA ReactHandled ==
    ASSUME TypeOK, HandledInv, HandledOnce, NEW w \in Writer, React(w)
    PROVE  HandledInv' /\ HandledOnce'
<1>c. PICK c \in Delivering \cup Updating : c = writer[w]
  BY Zenon, CommandIs DEF React
<1>i. PICK i \in Id : i = c.id
  BY Zenon, <1>c, CommandIs DEF React
<1>1. /\ c.pc = "react" /\ writer' = [writer EXCEPT ![w] = Advance(writer[w])] /\ events' = events
      /\ \/ handled' = [handled EXCEPT ![i] = Append(handled[i], Head(c.todo))]
         \/ handled' = handled
  BY Zenon, <1>c, <1>i DEF React, database
<1>2. writer'[w] = Advance(c) /\ \A v \in Writer \ {w} : writer'[v] = writer[v]
  BY Zenon, <1>c, <1>1, AdvanceMoves
<1>3. IsInjective(c.todo)
  BY Zenon, <1>c, <1>1 DEF HandledInv
<1>4. writer'[w].pc = "react" =>
        /\ writer'[w].id = c.id /\ IsInjective(writer'[w].todo)
        /\ Range(writer'[w].todo) \subseteq Range(c.todo) \ {Head(c.todo)}
  BY Zenon, <1>2, <1>3, AdvanceReacts
<1>5. CASE handled' = handled
  <2>1. \A v \in Writer : writer'[v].pc = "react" =>
           /\ writer[v].pc = "react" /\ writer'[v].id = writer[v].id
           /\ IsInjective(writer[v].todo) =>
                 IsInjective(writer'[v].todo) /\ Range(writer'[v].todo) \subseteq Range(writer[v].todo)
    BY Zenon, <1>c, <1>1, <1>2, <1>4
  <2> QED
    BY Zenon, <1>1, <1>5, <2>1, HandledFrame
<1>6. CASE handled' = [handled EXCEPT ![i] = Append(handled[i], Head(c.todo))]
  <2>h. PICK h : h = Head(c.todo)
    BY Zenon
  <2>1. c.todo \in Batch
    BY Zenon, <1>c, <1>1, CommandIs
  <2>2. h \in Nat
    BY <2>1, <2>h DEF Batch
  <2>3. h \in Range(c.todo)
    BY Zenon, <1>3, <2>1, <2>h, TailRange
  <2>4. Pending(w, i) = Range(c.todo)
    BY Zenon, <1>c, <1>i, <1>1 DEF Pending
  <2>5. h \in 1..events[i] /\ h \notin Range(handled[i])
    BY Zenon, <2>3, <2>4 DEF HandledInv
  <2>6. /\ handled'[i] = Append(handled[i], h) /\ handled[i] \in Seq(Nat)
        /\ \A k \in Id \ {i} : handled'[k] = handled[k]
    BY Zenon, <1>6, <2>h DEF TypeOK
  <2>7. Range(handled'[i]) = Range(handled[i]) \cup {h} /\ IsInjective(handled'[i])
    BY Zenon, <2>2, <2>5, <2>6, AppendRange DEF HandledOnce
  <2>8. Pending(w, i)' \subseteq Pending(w, i) \ {h} /\ \A k \in Id \ {i} : Pending(w, k)' = {}
    BY Zenon, <1>c, <1>i, <1>4, <2>4, <2>h DEF Pending
  <2>9. \A v \in Writer \ {w}, k \in Id : Pending(v, k)' = Pending(v, k)
    BY Zenon, <1>2 DEF Pending
  <2>10. \A v \in Writer \ {w} : h \notin Pending(v, i)
    BY Zenon, <2>3, <2>4 DEF HandledInv
  <2>11. \A v \in Writer, k \in Id : Pending(v, k)' \subseteq Pending(v, k)
    BY Zenon, <2>8, <2>9
  <2>12. \A v \in Writer : writer'[v].pc = "react" => IsInjective(writer'[v].todo)
    BY Zenon, <1>2, <1>4 DEF HandledInv
  <2>13. \A k \in Id : Range(handled'[k]) \subseteq 1..events'[k]
    BY Zenon, <1>1, <2>5, <2>6, <2>7 DEF HandledInv
  <2>14. \A k \in Id, v \in Writer : Pending(v, k)' \subseteq 1..events'[k] \ Range(handled'[k])
    <3> SUFFICES ASSUME NEW k \in Id, NEW v \in Writer, NEW n \in Pending(v, k)'
                 PROVE  n \in 1..events[k] /\ n \notin Range(handled'[k])
      BY Zenon, <1>1
    <3>1. n \in Pending(v, k) /\ n \in 1..events[k] /\ n \notin Range(handled[k])
      BY Zenon, <2>11 DEF HandledInv
    <3>2. k = i => n # h
      BY Zenon, <2>8, <2>10, <3>1
    <3> QED
      BY Zenon, <2>6, <2>7, <3>1, <3>2
  <2>15. \A k \in Id, u, v \in Writer : u # v => Pending(u, k)' \cap Pending(v, k)' = {}
    BY Zenon, <2>11 DEF HandledInv
  <2>16. HandledOnce'
    BY Zenon, <2>6, <2>7 DEF HandledOnce
  <2> QED
    BY Zenon, <2>12, <2>13, <2>14, <2>15, <2>16 DEF HandledInv
<1> QED
  BY Zenon, <1>1, <1>5, <1>6

\* Store::send hands the reactor events no command had before.
LEMMA CommitHandled ==
    ASSUME TypeOK, HandledInv, HandledOnce, NEW w \in Writer, NEW i \in Id, NEW k \in 1..MaxBatch,
           Commit(w, i, k)
    PROVE  HandledInv' /\ HandledOnce'
<1>e. PICK e \in Nat : e = events[i]
  BY Zenon DEF TypeOK
<1>k. k \in Nat \ {0}
  BY ProjectionAssumption
<1>b. PICK b : b = Between(e, e + k)
  BY Zenon
<1>d. PICK d : d = [pc |-> "react", id |-> i, batch |-> b, todo |-> b, tries |-> 0]
  BY Zenon
<1>1. /\ events' = [events EXCEPT ![i] = e + k] /\ writer' = [writer EXCEPT ![w] = d]
      /\ handled' = handled
  BY Zenon, <1>e, <1>b, <1>d DEF Commit
<1>2. d.pc = "react" /\ d.id = i /\ d.todo = b
  BY <1>d
<1>3. IsInjective(b) /\ Range(b) \subseteq e + 1 .. e + k
  BY <1>b, <1>k, BetweenRange
<1>4. writer'[w] = d /\ \A v \in Writer \ {w} : writer'[v] = writer[v]
  BY Zenon, <1>1 DEF TypeOK
<1>5. /\ events'[i] = e + k /\ \A j \in Id \ {i} : events'[j] = events[j]
  BY Zenon, <1>1 DEF TypeOK
<1>6. /\ 1..e \subseteq 1..e + k /\ e + 1 .. e + k \subseteq 1..e + k
      /\ (e + 1 .. e + k) \cap (1..e) = {}
  BY <1>k
<1>7. \A j \in Id : 1..events[j] \subseteq 1..events'[j]
  BY Zenon, <1>e, <1>5, <1>6
<1>8. /\ Pending(w, i)' = Range(b) /\ \A j \in Id \ {i} : Pending(w, j)' = {}
      /\ \A v \in Writer \ {w}, j \in Id : Pending(v, j)' = Pending(v, j)
  BY Zenon, <1>2, <1>4 DEF Pending
<1>9. \A v \in Writer : writer'[v].pc = "react" => IsInjective(writer'[v].todo)
  BY Zenon, <1>2, <1>3, <1>4 DEF HandledInv
<1>10. \A j \in Id : Range(handled'[j]) \subseteq 1..events'[j]
  BY Zenon, <1>1, <1>7 DEF HandledInv
<1>11. \A v \in Writer : Pending(w, i)' \cap Range(handled[i]) = {} /\ (Pending(w, i)' \cap Pending(v, i)) = {}
  <2>1. Range(handled[i]) \subseteq 1..e /\ \A v \in Writer : Pending(v, i) \subseteq 1..e
    BY Zenon, <1>e DEF HandledInv
  <2> QED
    BY Zenon, <1>3, <1>6, <1>8, <2>1
<1>12. \A j \in Id, v \in Writer : Pending(v, j)' \subseteq 1..events'[j] \ Range(handled'[j])
  <2> SUFFICES ASSUME NEW j \in Id, NEW v \in Writer, NEW n \in Pending(v, j)'
               PROVE  n \in 1..events'[j] /\ n \notin Range(handled[j])
    BY Zenon, <1>1
  <2>1. CASE v = w
    BY Zenon, <1>3, <1>5, <1>6, <1>8, <1>11, <2>1
  <2>2. CASE v # w
    BY Zenon, <1>7, <1>8, <2>2 DEF HandledInv
  <2> QED
    BY Zenon, <2>1, <2>2
<1>13. \A j \in Id, u, v \in Writer : u # v => Pending(u, j)' \cap Pending(v, j)' = {}
  <2> SUFFICES ASSUME NEW j \in Id, NEW u \in Writer, NEW v \in Writer, u # v
               PROVE  Pending(u, j)' \cap Pending(v, j)' = {}
    BY Zenon
  <2>1. Pending(u, j) \cap Pending(v, j) = {}
    BY Zenon DEF HandledInv
  <2>2. CASE j # i
    BY Zenon, <1>8, <2>1, <2>2
  <2>3. CASE j = i /\ u = w
    BY Zenon, <1>8, <1>11, <2>3
  <2>4. CASE j = i /\ v = w
    BY Zenon, <1>8, <1>11, <2>4
  <2>5. CASE j = i /\ u # w /\ v # w
    BY Zenon, <1>8, <2>1, <2>5
  <2> QED
    BY Zenon, <2>2, <2>3, <2>4, <2>5
<1> QED
  BY Zenon, <1>1, <1>9, <1>10, <1>12, <1>13 DEF HandledInv, HandledOnce


\* Retries give the reactor no event twice, and the other steps none at all:
\* what startup repairs is the view.
LEMMA OtherHandled ==
    ASSUME TypeOK, HandledInv, HandledOnce,
           \/ \E w \in Writer : \/ ReactBusy(w) \/ LoadView(w) \/ UpdateView(w)
                                \/ UpdateRefused(w) \/ ViewBusy(w)
           \/ \E i \in Id : CliCommit(i) \/ Rebuild(i)
           \/ Recovery \/ Crash \/ Deploy
    PROVE  HandledInv' /\ HandledOnce'
<1>1. Idle.pc # "react"
  BY DEF Idle
<1>2. CASE \E w \in Writer : ReactBusy(w) \/ LoadView(w) \/ UpdateView(w) \/ UpdateRefused(w) \/ ViewBusy(w)
  <2>1. PICK w \in Writer : ReactBusy(w) \/ LoadView(w) \/ UpdateView(w) \/ UpdateRefused(w) \/ ViewBusy(w)
    BY Zenon, <1>2
  <2>c. PICK c \in Delivering \cup Updating : c = writer[w]
    BY Zenon, <2>1, CommandIs DEF ReactBusy, LoadView, UpdateView, UpdateRefused, ViewBusy
  <2>2. handled' = handled /\ events' = events
    BY Zenon, <2>1 DEF ReactBusy, LoadView, UpdateView, UpdateRefused, ViewBusy, database
  <2>3. /\ \A v \in Writer \ {w} : writer'[v] = writer[v]
        /\ \/ writer'[w] = Advance(c)
           \/ writer'[w].pc \in {"load", "update"}
           \/ writer'[w].pc = "react" /\ c.pc = "react" /\ writer'[w].id = c.id /\ writer'[w].todo = c.todo
    <3>1. CASE ReactBusy(w)
      <4>1. writer[w].pc = "react" /\ Retry(w, "react")
        BY Zenon, <3>1 DEF ReactBusy
      <4>2. Retried(writer[w]) => writer'[w].id = c.id
        BY Zenon, <2>c, <4>1, RetryIs
      <4> QED
        BY Zenon, <2>c, <4>1, <4>2, RetryIs
    <3>2. CASE LoadView(w)
      <4>1. PICK d : d = [pc |-> "update", id |-> c.id, batch |-> c.batch, todo |-> c.todo,
                          tries |-> c.tries, version |-> view[c.id].version,
                          seen |-> Append(view[c.id].seen, Head(c.todo))]
        BY Zenon
      <4>2. d.pc = "update"
        BY <4>1
      <4>3. writer' = [writer EXCEPT ![w] = IF Readable(c.id) THEN d ELSE Advance(c)]
        BY Zenon, <2>c, <3>2, <4>1 DEF LoadView
      <4>4. /\ writer'[w] = d \/ writer'[w] = Advance(c)
            /\ \A v \in Writer \ {w} : writer'[v] = writer[v]
        BY Zenon, <4>3 DEF TypeOK
      <4> QED
        BY Zenon, <4>2, <4>4
    <3>3. CASE UpdateView(w)
      <4>1. writer[w].pc = "update" /\ writer' = [writer EXCEPT ![w] = Advance(writer[w])]
        BY Zenon, <3>3 DEF UpdateView
      <4> QED
        BY Zenon, <2>c, <4>1, AdvanceMoves
    <3>4. CASE UpdateRefused(w)
      <4>1. /\ writer[w].pc = "update"
            /\ writer' = [writer EXCEPT ![w] = Advance(writer[w])] \/ Retry(w, "load")
        BY Zenon, <3>4 DEF UpdateRefused
      <4> QED
        BY Zenon, <2>c, <4>1, AdvanceMoves, RetryIs
    <3>5. CASE ViewBusy(w)
      <4>1. writer[w].pc \in {"load", "update"} /\ Retry(w, "load")
        BY Zenon, <3>5 DEF ViewBusy
      <4> QED
        BY Zenon, <2>c, <4>1, RetryIs
    <3> QED
      BY Zenon, <2>1, <3>1, <3>2, <3>3, <3>4, <3>5
  <2>4. Advance(c).pc = "react" =>
           /\ c.pc = "react" /\ Advance(c).id = c.id
           /\ IsInjective(c.todo) => IsInjective(Advance(c).todo) /\ Range(Advance(c).todo) \subseteq Range(c.todo)
    BY Zenon, AdvanceReacts
  <2>5. "load" # "react" /\ "update" # "react"
    OBVIOUS
  <2>6. \A v \in Writer : writer'[v].pc = "react" =>
           /\ writer[v].pc = "react" /\ writer'[v].id = writer[v].id
           /\ IsInjective(writer[v].todo) =>
                 IsInjective(writer'[v].todo) /\ Range(writer'[v].todo) \subseteq Range(writer[v].todo)
    BY Zenon, <2>c, <2>3, <2>4, <2>5
  <2> QED
    BY Zenon, <2>2, <2>6, HandledFrame
<1>3. CASE \E i \in Id : CliCommit(i)
  <2>1. PICK i \in Id : CliCommit(i)
    BY Zenon, <1>3
  <2>2. events' = [events EXCEPT ![i] = events[i] + 1] /\ writer' = writer /\ handled' = handled
    BY Zenon, <2>1 DEF CliCommit
  <2>3. \A j \in Id : 1..events[j] \subseteq 1..events'[j]
    BY <2>2 DEF TypeOK
  <2> QED
    BY Zenon, <2>2, <2>3, HandledFrame
<1>4. CASE Recovery \/ Crash \/ Deploy \/ \E i \in Id : Rebuild(i)
  <2>1. /\ events' = events /\ handled' = handled
        /\ writer' = writer \/ writer' = [w \in Writer |-> Idle]
    BY Zenon, <1>4 DEF Recovery, Reconcile, RebuildAll, FindStale, ReplayLoad, ReplayFetch, ReplayWrite,
                       RecordVersion, Crash, Deploy, Die, Rebuild, database
  <2>2. \A w \in Writer : writer'[w].pc = "react" => writer'[w] = writer[w]
    BY Zenon, <1>1, <2>1
  <2> QED
    BY Zenon, <2>1, <2>2, HandledFrame
<1> QED
  BY Zenon, <1>2, <1>3, <1>4

-----------------------------------------------------------------------------
(* The theorems.                                                           *)

\* The invariant holds in the empty database.
LEMMA InitIInv ==
    ASSUME Init
    PROVE  IInv
<1>1. /\ deployed.schema = 1 /\ deployed.form = 1
      /\ deployed \in [schema : Nat, form : Nat] /\ faults \in [busy : Nat, crashes : Nat]
  BY DEF Init
<1>2. TypeOK
  <2>1. <<>> \in Seq(Nat)
    OBVIOUS
  <2> QED
    BY Zenon, <1>1, <2>1, NoRowIs DEF Init, TypeOK, Stage
<1>3. AloneInv /\ ProgressInv /\ CurrentInv /\ StaleInv /\ ReplayInv
  BY Zenon DEF Init, AloneInv, ProgressInv, CurrentInv, StaleInv, ReplayInv, On
<1>4. RowInv /\ ViewIsFold
  <2>1. \A i \in Id : view[i] = NoRow /\ 0 <= events[i]
    BY DEF Init
  <2> QED
    BY Zenon, <2>1, NoRowIs DEF RowInv, ViewIsFold
<1>5. FormInv
  <2>1. \A i \in Id : Readable(i)
    BY Zenon, NoRowIs DEF Init
  <2>2. registry <= deployed.schema /\ deployed.schema <= deployed.form
    BY <1>1 DEF Init
  <2> QED
    BY Zenon, <2>1, <2>2 DEF FormInv
<1>6. HandledInv /\ HandledOnce
  <2>1. Idle.pc # "react" /\ DOMAIN <<>> = {}
    BY DEF Idle
  <2>2. \A i \in Id : Range(handled[i]) = {} /\ IsInjective(handled[i])
    BY Zenon, <2>1 DEF Init, Range, IsInjective
  <2>3. \A w \in Writer : writer[w].pc # "react"
    BY Zenon, <2>1 DEF Init
  <2> QED
    BY Zenon, <2>2, <2>3 DEF HandledInv, HandledOnce, Pending
<1> QED
  BY Zenon, <1>2, <1>3, <1>4, <1>5, <1>6 DEF IInv, ViewInv

\* Every step keeps the invariant.
LEMMA NextIInv ==
    ASSUME IInv, [Next]_vars
    PROVE  IInv'
<1> USE DEF IInv
<1>1. CASE \E w \in Writer, i \in Id, k \in 1..MaxBatch : Commit(w, i, k)
  BY Zenon, <1>1, CommitInv, CommitHandled
<1>2. CASE \E i \in Id : CliCommit(i) \/ Rebuild(i)
  BY Zenon, <1>2, CliCommitInv, RebuildInv, OtherHandled
<1>3. CASE \E w \in Writer : Dispatch(w)
  <2>1. PICK w \in Writer : Dispatch(w)
    BY Zenon, <1>3
  <2>2. TypeOK' /\ ViewInv'
    BY Zenon, <2>1, ReactInv, ReactBusyInv, LoadViewInv, UpdateViewInv, UpdateRefusedInv, ViewBusyInv
       DEF Dispatch
  <2>3. HandledInv' /\ HandledOnce'
    BY Zenon, <2>1, ReactHandled, OtherHandled DEF Dispatch
  <2> QED
    BY Zenon, <2>2, <2>3
<1>4. CASE Recovery
  <2>1. TypeOK' /\ ViewInv'
    BY Zenon, <1>4, ReconcileInv, RebuildInv, FindStaleInv, ReplayLoadInv, ReplayFetchInv,
       ReplayWriteInv, RecordVersionInv DEF Recovery
  <2> QED
    BY Zenon, <1>4, <2>1, OtherHandled
<1>5. CASE Crash \/ Deploy
  BY Zenon, <1>5, DieInv, OtherHandled
<1>6. CASE UNCHANGED vars
  <2>1. UNCHANGED <<events, view, registry, deployed, stage, stale, replay, writer, handled, faults, damaged>>
    BY Zenon, <1>6 DEF vars
  <2>2. TypeOK' /\ HandledInv' /\ HandledOnce'
    BY Zenon, <2>1 DEF TypeOK, HandledInv, HandledOnce, Pending
  <2>3. AloneInv' /\ RowInv' /\ ViewIsFold'
    BY Zenon, <2>1 DEF ViewInv, AloneInv, RowInv, ViewIsFold, On
  <2>4. StaleInv' /\ ReplayInv'
    BY Zenon, <2>1 DEF ViewInv, StaleInv, ReplayInv, Behind
  <2>5. ProgressInv'
    BY Zenon, <2>1 DEF ViewInv, ProgressInv, Progress, Readable, Exists, On
  <2>6. CurrentInv' /\ FormInv'
    BY Zenon, <2>1 DEF ViewInv, CurrentInv, FormInv, Readable, Exists, On
  <2> QED
    BY Zenon, <2>2, <2>3, <2>4, <2>5, <2>6 DEF ViewInv
<1> QED
  BY Zenon, <1>1, <1>2, <1>3, <1>4, <1>5, <1>6 DEF Next

\* So it holds forever.
LEMMA IInvHolds == Spec => []IInv
BY InitIInv, NextIInv, PTL DEF Spec

\* A view is the fold of the first events of its entity (ViewIsFold): commits,
\* busy answers, replays, rebuilds, crashes and deployments in any order leave
\* no event out of Projection's row and fold none twice, unless commands on the
\* entity overlapped or an update of it was given up.
THEOREM ViewsFold == Spec => []ViewIsFold
<1>1. IInv => ViewIsFold
  BY Zenon DEF IInv, ViewInv
<1> QED
  BY <1>1, IInvHolds, PTL

\* Between commands the view is current (SettledIsCurrent): StoreBuilder::build
\* hands the store out only when no readable row is behind, and a command that
\* has returned has brought its row to the last event.
THEOREM ViewsCurrent == Spec => []SettledIsCurrent
<1>1. IInv => SettledIsCurrent
  BY Zenon DEF IInv, ViewInv, CurrentInv, SettledIsCurrent, On
<1> QED
  BY <1>1, IInvHolds, PTL

\* A version on record means rebuilt views (RecordedIsRebuilt): while every
\* deployment bumps SCHEMA_VERSION, a store that was handed out reads every row,
\* whatever deployment or crash interrupted the Reconciler before.
THEOREM RowsReadable == Spec => []RecordedIsRebuilt
<1>1. IInv => RecordedIsRebuilt
  BY Zenon DEF IInv, ViewInv, FormInv, RecordedIsRebuilt
<1> QED
  BY <1>1, IInvHolds, PTL

\* The reactor takes no event twice (HandledOnce): neither the retries of
\* RetryOnBusy, nor concurrent commands, nor the replays of startup hand it one
\* it has had.
THEOREM ReactsOnce == Spec => []HandledOnce
<1>1. IInv => HandledOnce
  BY Zenon DEF IInv
<1> QED
  BY <1>1, IInvHolds, PTL

=============================================================================

-------------------------- MODULE EventStoreProofs --------------------------
(***************************************************************************)
(* What the engine's operations leave true of every stream, for any number *)
(* of streams, senders, events and deployments.                            *)
(***************************************************************************)
EXTENDS EventStore, FiniteSetTheorems, TLAPS

-----------------------------------------------------------------------------
(* Induction over the naturals, from the well-foundedness of <.            *)

\* A set of naturals has a least element.
LEMMA Least ==
    ASSUME NEW T, T \subseteq Nat, T # {}
    PROVE  \E n \in T : \A m \in T : ~(m < n)
<1>1. IsWellFoundedOn({ss \in Nat \X Nat : ss[1] < ss[2]}, Nat)
  BY NatLessThanWellFounded DEF OpToRel
<1>2. \E x \in T : \A y \in T : ~ (<<y, x>> \in {ss \in Nat \X Nat : ss[1] < ss[2]})
  BY Zenon, <1>1, WFMin
<1> QED
  BY Zenon, <1>2

\* Induction up to n: a set that has 0, and every successor of its members up
\* to n, has all the numbers up to n.
LEMMA UpTo ==
    ASSUME NEW n \in Nat, NEW G, 0 \in G, \A i \in 1..n : i - 1 \in G => i \in G
    PROVE  0..n \subseteq G
<1>1. SUFFICES ASSUME (0..n) \ G # {} PROVE FALSE
  OBVIOUS
<1>2. PICK i \in (0..n) \ G : \A m \in (0..n) \ G : ~(m < i)
  <2>1. (0..n) \ G \subseteq Nat
    OBVIOUS
  <2> QED
    BY Zenon, <1>1, <2>1, Least
<1>3. i \in 1..n /\ i - 1 \in 0..n /\ i - 1 < i
  BY <1>2
<1> QED
  BY Zenon, <1>2, <1>3

\* Two functions that a recursion over 0..n defines from each other's values
\* agree when they agree at 0 and every step keeps them equal.
LEMMA SameFold ==
    ASSUME NEW n \in Nat, NEW F, NEW G, F[0] = G[0],
           \A i \in 1..n : F[i - 1] = G[i - 1] => F[i] = G[i]
    PROVE  F[n] = G[n]
<1>1. 0 \in {i \in 0..n : F[i] = G[i]}
  OBVIOUS
<1>2. ASSUME NEW i \in 1..n, i - 1 \in {j \in 0..n : F[j] = G[j]}
      PROVE  i \in {j \in 0..n : F[j] = G[j]}
  <2>1. i \in 0..n
    OBVIOUS
  <2> QED
    BY Zenon, <1>2, <2>1
<1>3. 0..n \subseteq {i \in 0..n : F[i] = G[i]}
  BY Zenon, <1>1, <1>2, UpTo
<1>4. n \in 0..n
  OBVIOUS
<1> QED
  BY Zenon, <1>3, <1>4

\* An increasing function on 1..n is at least as steep as the line.
LEMMA Climbs ==
    ASSUME NEW n \in Nat, NEW m \in Nat, NEW f \in [1..n -> m + 1..m + n],
           \A i, k \in 1..n : i < k => f[i] < f[k]
    PROVE  \A i \in 1..n : m + i <= f[i]
<1> DEFINE G == {0} \cup {i \in 1..n : m + i <= f[i]}
<1>1. ASSUME NEW i \in 1..n, i - 1 \in G PROVE i \in G
  <2>0. i \in Nat /\ f[i] \in m + 1..m + n
    OBVIOUS
  <2>1. CASE i = 1
    BY <2>0, <2>1
  <2>2. CASE i # 1
    <3>1. i - 1 \in 1..n /\ i - 1 < i
      BY <2>0, <2>2
    <3>2. f[i - 1] < f[i] /\ m + (i - 1) <= f[i - 1] /\ f[i - 1] \in m + 1..m + n
      BY <1>1, <3>1
    <3> QED
      BY <2>0, <3>2
  <2> QED
    BY <2>1, <2>2
<1>2. 0..n \subseteq G
  <2>1. 0 \in G
    OBVIOUS
  <2> HIDE DEF G
  <2> QED
    BY Zenon, <1>1, <2>1, UpTo
<1> QED
  BY <1>2

\* ORDER BY on an interval gives the interval.
LEMMA AscendingInterval ==
    ASSUME NEW m \in Nat, NEW v \in Nat, m <= v
    PROVE  Ascending(m + 1..v) = [i \in 1..v - m |-> m + i]
<1>0. PICK n \in Nat : n = v - m
  OBVIOUS
<1>1. Cardinality(m + 1..v) = n /\ m + 1..v = m + 1..m + n
  <2>1. Cardinality(m + 1..v) = IF m + 1 > v THEN 0 ELSE v - (m + 1) + 1
    BY FS_Interval
  <2> QED
    BY <1>0, <2>1
<1> DEFINE Rises(f) == \A i, k \in DOMAIN f : i < k => f[i] < f[k]
           line == [i \in 1..n |-> m + i]
<1>2. line \in [1..n -> m + 1..m + n] /\ Rises(line)
  OBVIOUS
<1>3. ASSUME NEW f \in [1..n -> m + 1..m + n], Rises(f)
      PROVE  f = line
  <2>0. \A i, k \in 1..n : i < k => f[i] < f[k]
    BY Zenon, <1>3
  <2>1. \A i \in 1..n : m + i <= f[i]
    BY Zenon, <2>0, Climbs
  <2> DEFINE g == [i \in 1..n |-> m + n + 1 + m - f[n + 1 - i]]
  <2>2. g \in [1..n -> m + 1..m + n] /\ \A i, k \in 1..n : i < k => g[i] < g[k]
    <3>1. ASSUME NEW i \in 1..n
          PROVE  n + 1 - i \in 1..n /\ f[n + 1 - i] \in m + 1..m + n
      OBVIOUS
    <3>2. ASSUME NEW i \in 1..n PROVE m + n + 1 + m - f[n + 1 - i] \in m + 1..m + n
      BY <3>1
    <3>3. ASSUME NEW i \in 1..n, NEW k \in 1..n, i < k PROVE g[i] < g[k]
      <4>1. f[n + 1 - k] < f[n + 1 - i]
        <5>1. n + 1 - k < n + 1 - i
          BY <3>3
        <5> QED
          BY <2>0, <3>1, <5>1
      <4> QED
        BY <3>1, <4>1
    <3> QED
      BY Zenon, <3>2, <3>3
  <2>3. \A i \in 1..n : m + i <= g[i]
    <3> HIDE DEF g
    <3> QED
      BY Zenon, <2>2, Climbs
  <2>4. ASSUME NEW i \in 1..n PROVE f[i] = m + i
    <3>1. n + 1 - i \in 1..n /\ n + 1 - (n + 1 - i) = i /\ f[i] \in m + 1..m + n
      OBVIOUS
    <3>2. g[n + 1 - i] = m + n + 1 + m - f[i]
      BY Zenon, <3>1
    <3>3. m + (n + 1 - i) <= g[n + 1 - i]
      BY Zenon, <2>3, <3>1
    <3> QED
      <4>1. m + (n + 1 - i) <= m + n + 1 + m - f[i]
        BY Zenon, <3>2, <3>3
      <4>2. m + i <= f[i]
        BY Zenon, <2>1
      <4>3. \A y \in m + 1..m + n : m + (n + 1 - i) <= m + n + 1 + m - y /\ m + i <= y => y = m + i
        OBVIOUS
      <4> QED
        BY Zenon, <3>1, <4>1, <4>2, <4>3
  <2> QED
    BY Zenon, <2>4
<1>4. Ascending(m + 1..v) = CHOOSE f \in [1..n -> m + 1..m + n] : Rises(f)
  BY Zenon, <1>1 DEF Ascending
<1>5. Ascending(m + 1..v) = line
  <2> HIDE DEF line, Rises
  <2> QED
    BY Zenon, <1>2, <1>3, <1>4
<1> QED
  BY Zenon, <1>0, <1>5

-----------------------------------------------------------------------------
(* Folding events.                                                         *)

\* The entity a stream's first v events fold to, and the event Lifecycle can
\* take at sequence x.
FoldOf(v) == IF v = 0 THEN Uninitialized ELSE Live(v)
Expected(x) == IF x = 1 THEN "open" ELSE "step"

\* Lifecycle::apply on the next event: the one that is expected moves the
\* entity on, the other kind fails it.
LEMMA ApplyNext ==
    ASSUME NEW v \in Nat, NEW e \in Kind
    PROVE  Apply(FoldOf(v), e) = IF e = Expected(v + 1) THEN FoldOf(v + 1) ELSE Failed
<1>1. CASE v = 0
  <2>1. FoldOf(v).tag = "Uninitialized" /\ FoldOf(v + 1) = Live(1)
    BY <1>1 DEF FoldOf, Uninitialized
  <2> QED
    BY <1>1, <2>1 DEF Apply, Originate, Expected
<1>2. CASE v # 0
  <2>1. FoldOf(v).tag = "Live" /\ FoldOf(v).n + 1 = v + 1 /\ FoldOf(v + 1) = Live(v + 1)
        /\ Expected(v + 1) = "step"
    BY <1>2 DEF FoldOf, Live, Expected
  <2>2. Apply(FoldOf(v), e) = Evolve(FoldOf(v), e)
    BY Zenon, <2>1 DEF Apply
  <2> QED
    BY Zenon, <2>1, <2>2 DEF Evolve
<1> QED
  BY Zenon, <1>1, <1>2

\* A failed entity stays failed.
LEMMA ApplyFailed == \A e : Apply(Failed, e) = Failed
  BY DEF Apply, Failed

\* Replaying a batch onto the entity of version q succeeds exactly when every
\* event is the one expected, and then gives the entity it leads to.
LEMMA ReplayIs ==
    ASSUME NEW q \in Nat, NEW batch, Len(batch) \in Nat, \A i \in 1..Len(batch) : batch[i] \in Kind
    PROVE  Replay(FoldOf(q), batch) = IF \A k \in 1..Len(batch) : batch[k] = Expected(q + k)
                                      THEN FoldOf(q + Len(batch)) ELSE Failed
<1> DEFINE G == [i \in 0..Len(batch) |->
                    IF \A k \in 1..i : batch[k] = Expected(q + k) THEN FoldOf(q + i) ELSE Failed]
           Eq(f) == f = [i \in 0..Len(batch) |->
                            IF i = 0 THEN FoldOf(q) ELSE Apply(f[i - 1], batch[i])]
           F == CHOOSE f : Eq(f)
<1>1. ASSUME NEW i \in 1..Len(batch)
      PROVE  Apply(G[i - 1], batch[i]) = G[i]
  <2>1. /\ i \in 0..Len(batch) /\ i - 1 \in 0..Len(batch) /\ q + (i - 1) \in Nat
        /\ q + i = q + (i - 1) + 1 /\ \A k : k \in 1..i <=> k \in 1..i - 1 \/ k = i
    OBVIOUS
  <2>2. CASE \A k \in 1..i - 1 : batch[k] = Expected(q + k)
    <3>1. G[i - 1] = FoldOf(q + (i - 1))
      BY Zenon, <2>1, <2>2
    <3>2. Apply(FoldOf(q + (i - 1)), batch[i])
              = IF batch[i] = Expected(q + i) THEN FoldOf(q + i) ELSE Failed
      BY Zenon, <2>1, ApplyNext
    <3>3. (\A k \in 1..i : batch[k] = Expected(q + k)) <=> batch[i] = Expected(q + i)
      BY Zenon, <2>1, <2>2
    <3> QED
      BY Zenon, <2>1, <3>1, <3>2, <3>3
  <2>3. CASE ~ \A k \in 1..i - 1 : batch[k] = Expected(q + k)
    <3>1. G[i - 1] = Failed /\ G[i] = Failed
      BY Zenon, <2>1, <2>3
    <3> QED
      BY Zenon, <3>1, ApplyFailed
  <2> QED
    BY Zenon, <2>2, <2>3
<1>2. G[0] = FoldOf(q)
  <2>1. 0 \in 0..Len(batch) /\ 1..0 = {} /\ q + 0 = q
    OBVIOUS
  <2> QED
    BY Zenon, <2>1
<1>3. Eq(F)
  <2>1. \A i \in 0..Len(batch) : i # 0 => i \in 1..Len(batch)
    OBVIOUS
  <2>2. Eq(G)
    BY Zenon, <2>1, <1>1, <1>2
  <2> QED
    BY Zenon, <2>2
<1>4. Replay(FoldOf(q), batch) = F[Len(batch)]
  BY Zenon DEF Replay
<1>5. F[Len(batch)] = G[Len(batch)]
  <2> HIDE DEF F, G
  <2>1. 0 \in 0..Len(batch) /\ \A i \in 1..Len(batch) : i \in 0..Len(batch) /\ i # 0
    OBVIOUS
  <2>2. F[0] = G[0] /\ \A i \in 1..Len(batch) : F[i] = Apply(F[i - 1], batch[i])
    BY Zenon, <1>2, <1>3, <2>1
  <2>3. \A i \in 1..Len(batch) : F[i - 1] = G[i - 1] => F[i] = G[i]
    BY Zenon, <1>1, <2>2
  <2> QED
    BY Zenon, <2>2, <2>3, SameFold
<1>6. Len(batch) \in 0..Len(batch)
  OBVIOUS
<1> QED
  BY Zenon, <1>4, <1>5, <1>6


-----------------------------------------------------------------------------
(* The rows of a stream.                                                   *)

\* A stream of version v whose rows up to lo have been compacted away: the
\* others are there without a gap, each an event the entity can take at its
\* sequence (or a binding's), and the snapshot is the fold of events that the
\* remaining rows continue.
Sound(p, r, sn, lo, v) ==
    /\ lo \in Nat /\ v \in 0..MaxEvents
    /\ DOMAIN r = lo + 1..v
    /\ \A x \in lo + 1..v : r[x] \in {Opaque, Expected(x)}
    /\ p = "Retain" => lo = 0
    /\ sn = StoredSnapshot(sn.last, FoldOf(sn.last), sn.shape)
    /\ sn.last \in lo..v
    /\ sn # NoSnapshot => v > 0

\* The greatest sequence among the rows and one they continue.
LEMMA Topmost ==
    ASSUME NEW lo \in Nat, NEW v \in Nat, NEW q \in lo..v
    PROVE  Greatest((lo + 1..v) \cup {q}) = v
<1> DEFINE S == (lo + 1..v) \cup {q}
<1>1. v \in S \cup {0} /\ \A y \in S : y <= v
  OBVIOUS
<1>2. ASSUME NEW x \in S \cup {0}, \A y \in S : y <= x
      PROVE  x = v
  <2>1. x \in Nat /\ x <= v
    OBVIOUS
  <2>2. v <= x
    <3>1. CASE v \in S
      BY Zenon, <1>2, <3>1
    <3>2. CASE v = 0
      BY <2>1, <3>2
    <3> QED
      BY Zenon, <1>1, <3>1, <3>2
  <2> QED
    BY <2>1, <2>2
<1>3. Greatest(S) = v
  <2> HIDE DEF S
  <2>1. Greatest(S) = CHOOSE x \in S \cup {0} : \A y \in S : y <= x
    BY Zenon DEF Greatest
  <2> QED
    BY Zenon, <1>1, <1>2, <2>1
<1> QED
  BY Zenon, <1>3 DEF S

\* committed_stream_version is that version.
LEMMA VersionIs ==
    ASSUME NEW p, NEW r, NEW sn, NEW lo, NEW v, Sound(p, r, sn, lo, v)
    PROVE  Greatest(DOMAIN r \cup {sn.last}) = v
<1>1. DOMAIN r = lo + 1..v /\ lo \in Nat /\ v \in Nat /\ sn.last \in lo..v
  BY StoreAssumption DEF Sound
<1> QED
  BY Zenon, <1>1, Topmost

\* load_events, on the rows of one stream.
RowsAfter(r, q) == LET seqs == Ascending({x \in DOMAIN r : x > q})
                   IN  [i \in DOMAIN seqs |-> r[seqs[i]]]

\* After a sequence that has not been compacted away it gives all the rest.
LEMMA RowsAfterIs ==
    ASSUME NEW p, NEW r, NEW sn, NEW lo, NEW v, Sound(p, r, sn, lo, v), NEW q \in lo..v
    PROVE  /\ RowsAfter(r, q) = [i \in 1..v - q |-> r[q + i]]
           /\ \A i \in 1..v - q : r[q + i] \in {Opaque, Expected(q + i)}
<1>1. DOMAIN r = lo + 1..v /\ lo \in Nat /\ v \in Nat /\ q \in Nat /\ q <= v /\ lo <= q
  BY StoreAssumption DEF Sound
<1>2. {x \in DOMAIN r : x > q} = q + 1..v
  BY <1>1
<1>3. Ascending(q + 1..v) = [i \in 1..v - q |-> q + i]
  BY Zenon, <1>1, AscendingInterval
<1>4. \A i \in 1..v - q : q + i \in lo + 1..v
  BY <1>1
<1>5. \A i \in 1..v - q : r[q + i] \in {Opaque, Expected(q + i)}
  BY Zenon, <1>4 DEF Sound
<1> QED
  BY Zenon, <1>2, <1>3, <1>5 DEF RowsAfter

\* What the durable rows say of a stream.
DurableOf(r, sn) ==
    LET tail == RowsAfter(r, sn.last)
        fold[i \in 0..Len(tail)] == IF i = 0 THEN sn.state ELSE Absorb(fold[i - 1], tail[i])
    IN  fold[Len(tail)]

\* They say the entity that all events of the stream fold to, compacted or not.
LEMMA DurableIs ==
    ASSUME NEW p, NEW r, NEW sn, NEW lo, NEW v, Sound(p, r, sn, lo, v)
    PROVE  DurableOf(r, sn) = FoldOf(v)
<1>0. /\ lo \in Nat /\ v \in Nat /\ sn.last \in Nat /\ sn.last <= v /\ sn.last \in lo..v
      /\ sn.state = FoldOf(sn.last)
  <2>1. sn.state = FoldOf(sn.last)
    BY DEF Sound, StoredSnapshot
  <2> QED
    BY <2>1, StoreAssumption DEF Sound
<1> DEFINE q == sn.last
           tail == RowsAfter(r, q)
           Eq(f) == f = [i \in 0..Len(tail) |->
                            IF i = 0 THEN sn.state ELSE Absorb(f[i - 1], tail[i])]
           F == CHOOSE f : Eq(f)
<1>1. DurableOf(r, sn) = F[Len(tail)]
  BY Zenon DEF DurableOf
<1>2. /\ tail = [i \in 1..v - q |-> r[q + i]]
      /\ \A i \in 1..v - q : r[q + i] \in {Opaque, Expected(q + i)}
  BY Zenon, <1>0, RowsAfterIs
<1>3. Len(tail) = v - q /\ v - q \in Nat
  <2>1. v - q \in Nat
    BY <1>0
  <2> HIDE DEF q
  <2>2. Len([i \in 1..v - q |-> r[q + i]]) = v - q
    BY <2>1
  <2> QED
    BY Zenon, <1>2, <2>1, <2>2
<1> DEFINE G == [i \in 0..Len(tail) |-> FoldOf(q + i)]
<1>4. ASSUME NEW i \in 1..Len(tail) PROVE Absorb(G[i - 1], tail[i]) = G[i]
  <2>1. /\ i \in 0..Len(tail) /\ i - 1 \in 0..Len(tail) /\ q + (i - 1) \in Nat
        /\ q + i = q + (i - 1) + 1 /\ i \in 1..v - q
    <3> HIDE DEF tail
    <3> QED
      BY <1>0, <1>3
  <2>2. tail[i] \in {Opaque, Expected(q + i)} /\ Expected(q + i) \in Kind
    BY Zenon, <1>2, <2>1 DEF Expected, Kind
  <2>3. G[i - 1] = FoldOf(q + (i - 1)) /\ G[i] = FoldOf(q + i)
    BY Zenon, <2>1
  <2> HIDE DEF tail, G, q
  <2>4. FoldOf(q + (i - 1)).n + 1 = q + i
    BY <2>1 DEF FoldOf, Uninitialized, Live
  <2>5. CASE tail[i] = Opaque
    <3>1. FoldOf(q + i) = Live(q + i)
      BY <2>1 DEF FoldOf
    <3> QED
      BY Zenon, <2>3, <2>4, <2>5, <3>1 DEF Absorb
  <2>6. CASE tail[i] # Opaque
    <3>1. Apply(FoldOf(q + (i - 1)), tail[i]) = FoldOf(q + i)
      BY Zenon, <2>1, <2>2, <2>6, ApplyNext
    <3> QED
      BY Zenon, <2>3, <2>6, <3>1 DEF Absorb
  <2> QED
    BY Zenon, <2>5, <2>6
<1>5. G[0] = sn.state
  <2>1. 0 \in 0..Len(tail) /\ q + 0 = q
    <3> HIDE DEF tail
    <3> QED
      BY <1>0, <1>3
  <2> QED
    BY Zenon, <1>0, <2>1
<1>6. Eq(F)
  <2>1. \A i \in 0..Len(tail) : i # 0 => i \in 1..Len(tail)
    <3> HIDE DEF tail
    <3> QED
      BY <1>0, <1>3
  <2>2. Eq(G)
    BY Zenon, <2>1, <1>4, <1>5
  <2> QED
    BY Zenon, <2>2
<1>7. F[Len(tail)] = G[Len(tail)]
  <2> HIDE DEF F, G, tail
  <2>1. 0 \in 0..Len(tail) /\ \A i \in 1..Len(tail) : i \in 0..Len(tail) /\ i # 0
    BY <1>0, <1>3
  <2>2. F[0] = G[0] /\ \A i \in 1..Len(tail) : F[i] = Absorb(F[i - 1], tail[i])
    BY Zenon, <1>5, <1>6, <2>1
  <2>3. \A i \in 1..Len(tail) : F[i - 1] = G[i - 1] => F[i] = G[i]
    BY Zenon, <1>4, <2>2
  <2>4. Len(tail) \in Nat
    BY Zenon, <1>3
  <2> QED
    BY Zenon, <2>2, <2>3, <2>4, SameFold
<1>8. Len(tail) \in 0..Len(tail) /\ q + Len(tail) = v
  <2> HIDE DEF tail
  <2> QED
    BY <1>0, <1>3
<1> QED
  BY Zenon, <1>1, <1>7, <1>8


-----------------------------------------------------------------------------
(* The operations on one stream.                                           *)

\* A batch committed at the version of the stream.
BatchAt(q, batch) ==
    /\ Len(batch) \in Nat \ {0}
    /\ \A i \in 1..Len(batch) : batch[i] \in {Opaque, Expected(q + i)}
Inserted(r, q, batch) ==
    [x \in DOMAIN r \cup Sequences(q, batch) |->
        IF x \in Sequences(q, batch) THEN batch[x - q] ELSE r[x]]

\* insert_serialized_events_batch at the version of a stream moves it on by
\* the batch.
LEMMA CommitSound ==
    ASSUME NEW p, NEW r, NEW sn, NEW lo, NEW v, Sound(p, r, sn, lo, v),
           NEW batch, BatchAt(v, batch), v + Len(batch) <= MaxEvents
    PROVE  Sound(p, Inserted(r, v, batch), sn, lo, v + Len(batch))
<1>1. /\ DOMAIN r = lo + 1..v /\ lo \in Nat /\ v \in Nat /\ sn.last \in Nat
      /\ lo <= sn.last /\ sn.last <= v /\ Len(batch) \in Nat \ {0} /\ MaxEvents \in Nat
  BY StoreAssumption DEF Sound, BatchAt
<1>2. /\ DOMAIN Inserted(r, v, batch) = lo + 1..v + Len(batch)
      /\ \A x \in lo + 1..v + Len(batch) :
            Inserted(r, v, batch)[x] = IF x > v THEN batch[x - v] ELSE r[x]
  <2>1. /\ DOMAIN r \cup Sequences(v, batch) = lo + 1..v + Len(batch)
        /\ \A x \in lo + 1..v + Len(batch) : x \in Sequences(v, batch) <=> x > v
    BY <1>1 DEF Sequences
  <2> QED
    BY Zenon, <2>1 DEF Inserted
<1>3. ASSUME NEW x \in lo + 1..v + Len(batch)
      PROVE  Inserted(r, v, batch)[x] \in {Opaque, Expected(x)}
  <2>1. CASE x > v
    <3>1. x - v \in 1..Len(batch) /\ v + (x - v) = x
      BY <1>1, <2>1
    <3> QED
      BY Zenon, <1>2, <2>1, <3>1 DEF BatchAt
  <2>2. CASE ~(x > v)
    <3>1. x \in lo + 1..v
      BY <1>1, <2>2
    <3> QED
      BY Zenon, <1>2, <2>2, <3>1 DEF Sound
  <2> QED
    BY Zenon, <2>1, <2>2
<1>4. /\ lo \in Nat /\ v + Len(batch) \in 0..MaxEvents /\ sn.last \in lo..v + Len(batch)
      /\ v + Len(batch) > 0
  BY <1>1
<1> QED
  BY Zenon, <1>2, <1>3, <1>4 DEF Sound

\* Only a batch at the version of the stream meets no taken sequence, if it
\* starts within the stream.
LEMMA NotTaken ==
    ASSUME NEW p, NEW r, NEW sn, NEW v, Sound(p, r, sn, 0, v),
           NEW q \in 0..v, NEW batch, Len(batch) \in Nat \ {0},
           Sequences(q, batch) \cap DOMAIN r = {}
    PROVE  q = v
<1>1. DOMAIN r = 1..v /\ v \in Nat
  BY StoreAssumption DEF Sound
<1>2. q + 1 \in Sequences(q, batch)
  BY <1>1 DEF Sequences
<1>3. q + 1 \notin 1..v
  BY Zenon, <1>1, <1>2
<1> QED
  BY <1>1, <1>3

\* A snapshot of the fold at a later sequence.
LEMMA SnapshotSound ==
    ASSUME NEW p, NEW r, NEW sn, NEW lo, NEW v, Sound(p, r, sn, lo, v), v > 0,
           NEW q \in 0..v, sn.last <= q, NEW form
    PROVE  Sound(p, r, StoredSnapshot(q, FoldOf(q), form), lo, v)
<1>1. /\ StoredSnapshot(q, FoldOf(q), form).last = q
      /\ StoredSnapshot(q, FoldOf(q), form).state = FoldOf(q)
      /\ StoredSnapshot(q, FoldOf(q), form).shape = form
  BY DEF StoredSnapshot
<1>2. q \in lo..v
  BY StoreAssumption DEF Sound
<1> QED
  BY Zenon, <1>1, <1>2 DEF Sound

\* Without its snapshot a stream that retains its rows has lost nothing.
LEMMA DiscardSound ==
    ASSUME NEW r, NEW sn, NEW lo, NEW v, Sound("Retain", r, sn, lo, v)
    PROVE  Sound("Retain", r, NoSnapshot, 0, v)
<1>1. NoSnapshot.last = 0 /\ NoSnapshot = StoredSnapshot(0, FoldOf(0), 0) /\ NoSnapshot.shape = 0
  BY DEF NoSnapshot, StoredSnapshot, FoldOf
<1>2. lo = 0 /\ 0 \in 0..v /\ 0 \in Nat
  BY StoreAssumption DEF Sound
<1> QED
  BY Zenon, <1>1, <1>2 DEF Sound

\* compact_events removes what the snapshot covers.
LEMMA CompactSound ==
    ASSUME NEW p, NEW r, NEW sn, NEW lo, NEW v, Sound(p, r, sn, lo, v), p # "Retain"
    PROVE  Sound(p, [x \in {y \in DOMAIN r : y > sn.last} |-> r[x]], sn, sn.last, v)
<1>1. /\ DOMAIN r = lo + 1..v /\ lo \in Nat /\ v \in Nat /\ sn.last \in Nat
      /\ lo <= sn.last /\ sn.last <= v
  BY StoreAssumption DEF Sound
<1>2. {y \in DOMAIN r : y > sn.last} = sn.last + 1..v /\ sn.last + 1..v \subseteq lo + 1..v
      /\ sn.last \in sn.last..v
  BY <1>1
<1> QED
  BY Zenon, <1>1, <1>2 DEF Sound


-----------------------------------------------------------------------------
(* The schema registry.                                                    *)

\* MAX(sequence): the greatest of a bounded set of sequences.
LEMMA GreatestIs ==
    ASSUME NEW n \in Nat, NEW S, S \subseteq 1..n
    PROVE  Greatest(S) \in S \cup {0} /\ \A y \in S : y <= Greatest(S)
<1> DEFINE T == {u \in Nat : \A y \in S : y <= u}
<1>1. n \in T
  OBVIOUS
<1>2. PICK u \in T : \A m \in T : ~(m < u)
  <2>1. T \subseteq Nat /\ T # {}
    BY <1>1
  <2> HIDE DEF T
  <2> QED
    BY Zenon, <2>1, Least
<1>3. u \in S \cup {0}
  <2>1. SUFFICES ASSUME u \notin S, u # 0 PROVE FALSE
    OBVIOUS
  <2>2. u \in Nat /\ u - 1 \in Nat /\ u - 1 < u
    BY <2>1
  <2>3. ASSUME NEW y \in S PROVE y <= u - 1
    <3>1. y \in Nat /\ y <= u /\ y # u
      BY <1>2, <2>1
    <3> QED
      BY <2>2, <3>1
  <2>4. u - 1 \in T
    BY <2>2, <2>3
  <2> QED
    BY Zenon, <1>2, <2>2, <2>4
<1>4. \A y \in S : y <= u
  BY <1>2
<1> QED
  BY Zenon, <1>3, <1>4 DEF Greatest

\* load_registry, of any log.
VersionsIn(r) ==
    LET fold[i \in 0..Len(r)] == IF i = 0 THEN <<>> ELSE RegistryEvolve(fold[i - 1], r[i])
    IN  fold[Len(r)]
LogEntry == [name : Stream, version : Nat \ {0}]

\* It knows every type the log names, by the version recorded last.
LEMMA VersionsAre ==
    ASSUME NEW r \in Seq(LogEntry)
    PROVE  VersionsIn(r) = [s \in {r[k].name : k \in 1..Len(r)} |->
                                r[Greatest({k \in 1..Len(r) : r[k].name = s})].version]
<1>0. PICK n \in Nat : n = Len(r)
  OBVIOUS
<1> DEFINE Naming(i, s) == {k \in 1..i : r[k].name = s}
           G == [i \in 0..n |-> [s \in {r[k].name : k \in 1..i} |-> r[Greatest(Naming(i, s))].version]]
           Eq(f) == f = [i \in 0..n |-> IF i = 0 THEN <<>> ELSE RegistryEvolve(f[i - 1], r[i])]
           F == CHOOSE f : Eq(f)
<1>1. ASSUME NEW i \in 1..n
      PROVE  RegistryEvolve(G[i - 1], r[i]) = G[i]
  <2>1. i \in 0..n /\ i - 1 \in 0..n /\ \A k : k \in 1..i <=> k \in 1..i - 1 \/ k = i
    OBVIOUS
  <2>2. {r[k].name : k \in 1..i} = {r[k].name : k \in 1..i - 1} \cup {r[i].name}
    BY Zenon, <2>1
  <2>3. Greatest(Naming(i, r[i].name)) = i
    <3>1. Naming(i, r[i].name) \subseteq 1..i /\ i \in Naming(i, r[i].name) /\ i \in Nat
      OBVIOUS
    <3> HIDE DEF Naming
    <3>2. /\ Greatest(Naming(i, r[i].name)) \in Naming(i, r[i].name) \cup {0}
          /\ i <= Greatest(Naming(i, r[i].name))
      BY Zenon, <3>1, GreatestIs
    <3>3. Greatest(Naming(i, r[i].name)) \in (1..i) \cup {0}
      BY Zenon, <3>1, <3>2
    <3>4. \A y \in (1..i) \cup {0} : i <= y => y = i
      BY <3>1
    <3> QED
      BY Zenon, <3>2, <3>3, <3>4
  <2>4. ASSUME NEW s, s # r[i].name PROVE Naming(i, s) = Naming(i - 1, s)
    BY Zenon, <2>1, <2>4
  <2>5. /\ G[i - 1] = [s \in {r[k].name : k \in 1..i - 1} |-> r[Greatest(Naming(i - 1, s))].version]
        /\ G[i] = [s \in {r[k].name : k \in 1..i} |-> r[Greatest(Naming(i, s))].version]
    BY Zenon, <2>1
  <2> HIDE DEF G, Naming
  <2>6. DOMAIN G[i - 1] = {r[k].name : k \in 1..i - 1}
    BY Zenon, <2>5
  <2>7. ASSUME NEW s \in {r[k].name : k \in 1..i}
        PROVE  (IF s = r[i].name THEN r[i].version ELSE G[i - 1][s]) = r[Greatest(Naming(i, s))].version
    <3>1. CASE s = r[i].name
      BY Zenon, <2>3, <3>1
    <3>2. CASE s # r[i].name
      <4>1. s \in {r[k].name : k \in 1..i - 1}
        BY Zenon, <2>2, <2>7, <3>2
      <4>2. G[i - 1][s] = r[Greatest(Naming(i - 1, s))].version
        BY Zenon, <2>5, <4>1
      <4> QED
        BY Zenon, <2>4, <3>2, <4>2
    <3> QED
      BY Zenon, <3>1, <3>2
  <2> QED
    BY Zenon, <2>2, <2>5, <2>6, <2>7 DEF RegistryEvolve
<1>2. G[0] = <<>>
  <2>1. 0 \in 0..n /\ {r[k].name : k \in 1..0} = {}
    OBVIOUS
  <2>2. G[0] = [s \in {} |-> r[Greatest(Naming(0, s))].version]
    BY Zenon, <2>1
  <2> HIDE DEF G
  <2> QED
    BY <2>2
<1>3. Eq(F)
  <2>1. \A i \in 0..n : i # 0 => i \in 1..n
    OBVIOUS
  <2>2. Eq(G)
    BY Zenon, <2>1, <1>1, <1>2
  <2> QED
    BY Zenon, <2>2
<1>4. VersionsIn(r) = F[n]
  BY Zenon, <1>0 DEF VersionsIn
<1>5. F[n] = G[n]
  <2> HIDE DEF F, G
  <2>1. 0 \in 0..n /\ \A i \in 1..n : i \in 0..n /\ i # 0
    OBVIOUS
  <2>2. F[0] = G[0] /\ \A i \in 1..n : F[i] = RegistryEvolve(F[i - 1], r[i])
    BY Zenon, <1>2, <1>3, <2>1
  <2>3. \A i \in 1..n : F[i - 1] = G[i - 1] => F[i] = G[i]
    BY Zenon, <1>1, <2>2
  <2> QED
    BY Zenon, <2>2, <2>3, SameFold
<1>6. n \in 0..n
  OBVIOUS
<1> QED
  BY Zenon, <1>0, <1>4, <1>5, <1>6

\* A type the log names has a version on record.
LEMMA Recorded ==
    ASSUME NEW r \in Seq(LogEntry), NEW k \in 1..Len(r), NEW s, r[k].name = s
    PROVE  s \in DOMAIN VersionsIn(r) /\ VersionsIn(r)[s] # Unregistered
<1> DEFINE S == {i \in 1..Len(r) : r[i].name = s}
<1>1. S \subseteq 1..Len(r) /\ k \in S /\ Len(r) \in Nat
  OBVIOUS
<1>2. Greatest(S) \in S
  <2> HIDE DEF S
  <2>1. Greatest(S) \in S \cup {0} /\ k <= Greatest(S)
    BY Zenon, <1>1, GreatestIs
  <2> QED
    BY <1>1, <2>1
<1>3. r[Greatest(S)] \in LogEntry
  <2>1. \A i \in 1..Len(r) : r[i] \in LogEntry
    OBVIOUS
  <2> QED
    BY Zenon, <1>1, <1>2, <2>1
<1>4. r[Greatest(S)].version # Unregistered
  BY <1>3 DEF LogEntry, Unregistered
<1>5. s \in {r[i].name : i \in 1..Len(r)}
  BY Zenon
<1>6. VersionsIn(r) = [t \in {r[i].name : i \in 1..Len(r)} |->
                           r[Greatest({i \in 1..Len(r) : r[i].name = t})].version]
  BY Zenon, VersionsAre
<1> QED
  BY Zenon, <1>4, <1>5, <1>6


-----------------------------------------------------------------------------
(* The invariant.                                                          *)

\* The use of the store for which all this holds: native programs send commands
\* to entities that retain their events (a handler of another could decide on a
\* load that compaction tore) and load any, and a type that compacts is on record
\* in the schema registry before anything of it is compacted.
Supported == /\ NativePolicy \subseteq {"Retain"}
             /\ Registered["CompactAfterSnapshot"] # Unregistered

StoreTypes == /\ policy \in [Stream -> {"Retain", "CompactAfterSnapshot"}]
              /\ DOMAIN rows = Stream /\ DOMAIN snap = Stream /\ DOMAIN sender = Sender
              /\ jobs \subseteq Job
              /\ schema \in [Stream -> Nat \ {0}]
              /\ registry \in Seq(LogEntry)

\* A type that compacts has a version on record, so that its snapshots are
\* never cleared.
RegistryInv == \A s \in Stream : policy[s] = "CompactAfterSnapshot" =>
                   \E k \in 1..Len(registry) : registry[k].name = s

StreamInv == \A s \in Stream : \E lo \in Nat, v \in Nat :
                 Sound(policy[s], rows[s], snap[s], lo, v)

\* The events of s after q are all there.
Covered(s, q) == q + 1 .. CommittedVersion(s) \subseteq DOMAIN rows[s]

\* Compaction has not passed the load c, or cannot.
Undisturbed(c) == policy[c.stream] = "Retain" \/ c.whole

\* The aggregate is the fold of events the stream has committed.  A load that
\* compaction has not passed finds the events it has yet to read; one that it
\* passed may end in anything.  What a command decided are events that continue
\* its stream.
Faithful(c) == /\ c.seq \in Nat /\ c.seq <= CommittedVersion(c.stream)
               /\ c.agg = FoldOf(c.seq)
Reading(c) == /\ c.stream \in Stream /\ DOMAIN c = {"pc", "stream", "whole", "agg", "seq"}
              /\ Faithful(c) /\ (Undisturbed(c) => Covered(c.stream, c.seq))
Loaded(c) == c.stream \in Stream /\ (Undisturbed(c) => Faithful(c))
Decided(c) == /\ Len(c.batch) \in 1..MaxBatch /\ c.seq + Len(c.batch) <= MaxEvents
              /\ \A i \in 1..Len(c.batch) : c.batch[i] = Expected(c.seq + i)
              /\ c.job \in Job \cup {NoJob}
Under(c) == \/ c.pc = "idle"
            \/ c.pc = "snapshot" /\ Reading(c)
            \/ c.pc = "loaded" /\ Loaded(c)
            \/ c.pc = "handled" /\ policy[c.stream] = "Retain" /\ Loaded(c) /\ Decided(c)
SenderInv == \A w \in Sender : Under(sender[w])

StoreInv == StoreTypes /\ RegistryInv /\ StreamInv /\ SenderInv

(* What a step may do to the streams and the jobs.                         *)

\* Stream s moves on by k, on sequences it has not used, and no other does.
Advances(s, k) ==
    \A t \in Stream :
        /\ CommittedVersion(t)' = CommittedVersion(t) + (IF t = s THEN k ELSE 0)
        /\ \A x \in DOMAIN rows'[t] \ DOMAIN rows[t] : x > CommittedVersion(t)
AtRest == \A t \in Stream : /\ CommittedVersion(t)' = CommittedVersion(t)
                            /\ DOMAIN rows'[t] \subseteq DOMAIN rows[t]

\* No event that a load has yet to read goes away.
Preserving == \A t \in Stream, q \in Nat : Covered(t, q) => Covered(t, q)'

\* Nothing, a commit with the job it carries, or a job.
StoreEffect ==
    \/ AtRest /\ jobs' = jobs
    \/ \E s \in Stream, k \in 1..MaxBatch :
          /\ Advances(s, k)
          /\ \E intent \in {{}} \cup {{j} : j \in Job \ jobs} : jobs' = jobs \cup intent
    \/ AtRest /\ \E j \in Job \ jobs : jobs' = jobs \cup {j}

\* The version of a sound stream.
LEMMA Version ==
    ASSUME StreamInv, NEW s \in Stream
    PROVE  \E lo \in Nat, v \in Nat : /\ Sound(policy[s], rows[s], snap[s], lo, v)
                                      /\ CommittedVersion(s) = v
<1>1. PICK lo \in Nat, v \in Nat : Sound(policy[s], rows[s], snap[s], lo, v)
  BY Zenon DEF StreamInv
<1>2. CommittedVersion(s) = v
  BY Zenon, <1>1, VersionIs DEF CommittedVersion
<1> QED
  BY Zenon, <1>1, <1>2

\* Steps that leave the tables of events and snapshots alone.
LEMMA NoStream ==
    ASSUME StreamInv, UNCHANGED <<policy, rows, snap>>
    PROVE  StreamInv' /\ AtRest /\ Preserving
  BY Zenon DEF StreamInv, AtRest, Preserving, Covered, CommittedVersion

\* Steps that leave the events alone.
LEMMA RowsKept ==
    ASSUME AtRest, rows' = rows
    PROVE  Preserving
<1>1. ASSUME NEW t \in Stream, NEW q \in Nat, Covered(t, q) PROVE Covered(t, q)'
  <2>1. CommittedVersion(t)' = CommittedVersion(t)
    BY Zenon DEF AtRest
  <2> QED
    BY Zenon, <1>1, <2>1 DEF Covered
<1> QED
  BY Zenon, <1>1 DEF Preserving

\* Steps that add k events to one stream.
LEMMA RowsAdded ==
    ASSUME NEW s \in Stream, NEW v \in Nat, NEW k \in Nat, CommittedVersion(s) = v, Advances(s, k),
           StreamInv, DOMAIN rows'[s] = DOMAIN rows[s] \cup (v + 1 .. v + k),
           \A t \in Stream \ {s} : rows'[t] = rows[t]
    PROVE  Preserving
<1>1. ASSUME NEW t \in Stream, NEW q \in Nat, Covered(t, q) PROVE Covered(t, q)'
  <2>1. CASE t = s
    <3>1. CommittedVersion(t)' = v + k
      BY Zenon, <2>1 DEF Advances
    <3>2. q + 1 .. v \subseteq DOMAIN rows[s]
      BY Zenon, <1>1, <2>1 DEF Covered
    <3>3. q + 1 .. v + k \subseteq (q + 1 .. v) \cup (v + 1 .. v + k)
      OBVIOUS
    <3>4. q + 1 .. v + k \subseteq DOMAIN rows'[s]
      BY Zenon, <3>2, <3>3
    <3> QED
      BY Zenon, <2>1, <3>1, <3>4 DEF Covered
  <2>2. CASE t # s
    <3>1. PICK u \in Nat : CommittedVersion(t) = u
      BY Zenon, Version
    <3>2. CommittedVersion(t)' = u + 0 /\ u + 0 = u
      BY <2>2, <3>1 DEF Advances
    <3> QED
      BY Zenon, <1>1, <2>2, <3>1, <3>2 DEF Covered
  <2> QED
    BY Zenon, <2>1, <2>2
<1> QED
  BY Zenon, <1>1 DEF Preserving

\* Steps on one stream.
LEMMA OneStream ==
    ASSUME StreamInv, NEW s \in Stream, policy' = policy,
           \A t \in Stream \ {s} : rows'[t] = rows[t] /\ snap'[t] = snap[t],
           NEW lo \in Nat, NEW v \in Nat, Sound(policy[s], rows[s], snap[s], lo, v),
           NEW k \in Nat, NEW lo2 \in Nat, Sound(policy[s], rows'[s], snap'[s], lo2, v + k)
    PROVE  /\ StreamInv'
           /\ CommittedVersion(s) = v
           /\ (\A x \in DOMAIN rows'[s] \ DOMAIN rows[s] : x > v) => Advances(s, k)
           /\ k = 0 /\ DOMAIN rows'[s] \subseteq DOMAIN rows[s] => AtRest
<1>1. CommittedVersion(s) = v /\ CommittedVersion(s)' = v + k
  <2>1. Greatest(DOMAIN rows[s] \cup {snap[s].last}) = v
    BY SMT, VersionIs
  <2>2. Greatest(DOMAIN rows'[s] \cup {snap'[s].last}) = v + k
    BY SMT, VersionIs
  <2> QED
    BY Zenon, <2>1, <2>2 DEF CommittedVersion
<1>2. v + k \in Nat /\ (k = 0 => v + k = v)
  OBVIOUS
<1>3. ASSUME NEW t \in Stream, t # s
      PROVE  /\ CommittedVersion(t)' = CommittedVersion(t) /\ rows'[t] = rows[t]
             /\ CommittedVersion(t) + 0 = CommittedVersion(t)
             /\ \E l \in Nat, u \in Nat : Sound(policy'[t], rows'[t], snap'[t], l, u)
  <2>1. rows'[t] = rows[t] /\ snap'[t] = snap[t]
    BY Zenon, <1>3
  <2>2. PICK l \in Nat, u \in Nat : Sound(policy[t], rows[t], snap[t], l, u) /\ CommittedVersion(t) = u
    BY Zenon, Version
  <2>3. u + 0 = u
    OBVIOUS
  <2> QED
    BY Zenon, <2>1, <2>2, <2>3 DEF CommittedVersion
<1>4. StreamInv'
  BY Zenon, <1>2, <1>3 DEF StreamInv
<1>5. (\A x \in DOMAIN rows'[s] \ DOMAIN rows[s] : x > v) => Advances(s, k)
  BY Zenon, <1>1, <1>3 DEF Advances
<1>6. k = 0 /\ DOMAIN rows'[s] \subseteq DOMAIN rows[s] => AtRest
  BY Zenon, <1>1, <1>2, <1>3 DEF AtRest
<1> QED
  BY Zenon, <1>1, <1>4, <1>5, <1>6

\* No effect takes a version back.
LEMMA EffectGrows ==
    ASSUME StreamInv, StreamInv', StoreEffect, NEW t \in Stream
    PROVE  /\ CommittedVersion(t) \in Nat /\ CommittedVersion(t)' \in Nat
           /\ CommittedVersion(t) <= CommittedVersion(t)'
           /\ \A x \in DOMAIN rows'[t] \ DOMAIN rows[t] : x > CommittedVersion(t)
<1>1. PICK v \in Nat : CommittedVersion(t) = v
  BY Zenon, Version
<1>2. CASE AtRest
  BY <1>1, <1>2 DEF AtRest
<1>3. ASSUME NEW s \in Stream, NEW k \in 1..MaxBatch, Advances(s, k)
      PROVE  /\ CommittedVersion(t)' \in Nat /\ CommittedVersion(t) <= CommittedVersion(t)'
             /\ \A x \in DOMAIN rows'[t] \ DOMAIN rows[t] : x > CommittedVersion(t)
  <2>1. /\ CommittedVersion(t)' = CommittedVersion(t) + (IF t = s THEN k ELSE 0)
        /\ \A x \in DOMAIN rows'[t] \ DOMAIN rows[t] : x > CommittedVersion(t)
    BY Zenon, <1>3 DEF Advances
  <2>2. v + (IF t = s THEN k ELSE 0) \in Nat /\ v <= v + (IF t = s THEN k ELSE 0)
    OBVIOUS
  <2> QED
    BY Zenon, <1>1, <2>1, <2>2
<1> QED
  BY Zenon, <1>1, <1>2, <1>3 DEF StoreEffect

\* A load or command under way stays as it is when no version goes back and no
\* event goes away.
LEMMA UnderKept ==
    ASSUME NEW c, Under(c), StreamInv, StreamInv', StoreEffect, Preserving, policy' = policy
    PROVE  Under(c)'
<1>1. ASSUME c.stream \in Stream, Faithful(c) PROVE Faithful(c)'
  <2>1. PICK v \in Nat, u \in Nat : CommittedVersion(c.stream) = v /\ CommittedVersion(c.stream)' = u /\ v <= u
    BY Zenon, <1>1, EffectGrows
  <2>2. \A q \in Nat : q <= v => q <= u
    BY <2>1
  <2> QED
    BY Zenon, <1>1, <2>1, <2>2 DEF Faithful
<1>2. ASSUME Loaded(c) PROVE Loaded(c)'
  BY Zenon, <1>1, <1>2 DEF Loaded, Undisturbed
<1>3. ASSUME Reading(c) PROVE Reading(c)'
  <2>1. PICK s \in Stream, q \in Nat : c.stream = s /\ c.seq = q
    BY Zenon, <1>3 DEF Reading, Faithful
  <2>2. Covered(s, q) => Covered(s, q)'
    BY Zenon, <2>1 DEF Preserving
  <2>3. Undisturbed(c)' => Covered(s, q)'
    BY Zenon, <1>3, <2>1, <2>2 DEF Reading, Undisturbed
  <2> QED
    BY Zenon, <1>1, <1>3, <2>1, <2>3 DEF Reading, Covered
<1> QED
  BY Zenon, <1>2, <1>3 DEF Under, Decided

\* The commands of the other senders.
LEMMA SendersKept ==
    ASSUME StoreInv, StreamInv', StoreEffect, Preserving, policy' = policy, sender' = sender
    PROVE  SenderInv'
<1>1. ASSUME NEW w \in Sender PROVE Under(sender[w])'
  <2>1. Under(sender[w])
    BY Zenon DEF StoreInv, SenderInv
  <2>2. PICK c : c = sender[w]
    BY Zenon
  <2>3. Under(c)'
    BY Zenon, <2>1, <2>2, UnderKept DEF StoreInv
  <2> QED
    BY Zenon, <2>2, <2>3
<1> QED
  BY Zenon, <1>1 DEF SenderInv

\* A sender that moves on, and the commands of the others.
LEMMA OneSender ==
    ASSUME StoreInv, StreamInv', StoreEffect, Preserving, policy' = policy,
           NEW w \in Sender, NEW c, sender' = [sender EXCEPT ![w] = c], Under(c)'
    PROVE  SenderInv' /\ DOMAIN sender' = Sender
<1>1. ASSUME NEW x \in Sender PROVE Under(sender[x])'
  <2>1. CASE x = w
    BY Zenon, <2>1 DEF StoreInv, StoreTypes
  <2>2. CASE x # w
    <3>1. Under(sender[x])
      BY Zenon DEF StoreInv, SenderInv
    <3>2. PICK d : d = sender[x]
      BY Zenon
    <3>3. Under(d)'
      BY Zenon, <3>1, <3>2, UnderKept DEF StoreInv
    <3>4. sender'[x] = d
      BY Zenon, <2>2, <3>2 DEF StoreInv, StoreTypes
    <3> QED
      BY Zenon, <3>3, <3>4
  <2> QED
    BY Zenon, <2>1, <2>2
<1> QED
  BY Zenon, <1>1 DEF SenderInv, StoreInv, StoreTypes


-----------------------------------------------------------------------------
(* The steps: the engine's own operations.                                 *)

\* Steps that do not touch the registry.
LEMMA Kept ==
    ASSUME StoreInv, UNCHANGED <<policy, registry, schema>>,
           DOMAIN rows' = Stream, DOMAIN snap' = Stream, DOMAIN sender' = Sender,
           jobs' \subseteq Job, StreamInv', SenderInv'
    PROVE  StoreInv'
  BY Zenon DEF StoreInv, StoreTypes, RegistryInv

\* The job of a commit.
LEMMA JobEffect ==
    ASSUME jobs \subseteq Job, NEW j \in Job \cup {NoJob}, JobFree(j)
    PROVE  /\ WithJob(j) \subseteq Job
           /\ \E intent \in {{}} \cup {{i} : i \in Job \ jobs} : WithJob(j) = jobs \cup intent
<1>1. CASE j = NoJob
  <2>1. WithJob(j) = jobs \cup {}
    BY Zenon, <1>1 DEF WithJob
  <2> QED
    BY Zenon, <2>1
<1>2. CASE j # NoJob
  <2>1. j \in Job \ jobs /\ WithJob(j) = jobs \cup {j}
    BY Zenon, <1>2 DEF WithJob, JobFree
  <2> QED
    BY Zenon, <2>1
<1> QED
  BY Zenon, <1>1, <1>2

\* The rows of a commit are new.
LEMMA InsertedNew ==
    ASSUME NEW r, NEW v \in Nat, NEW batch, Len(batch) \in Nat
    PROVE  \A x \in DOMAIN Inserted(r, v, batch) \ DOMAIN r : x > v
<1>1. DOMAIN Inserted(r, v, batch) = DOMAIN r \cup Sequences(v, batch)
  BY Zenon DEF Inserted
<1>2. \A x \in Sequences(v, batch) : x > v
  BY DEF Sequences
<1> QED
  BY Zenon, <1>1, <1>2

\* commit_serialized at the version of the stream.
LEMMA CommitsAt ==
    ASSUME StoreInv, NEW s \in Stream, NEW v \in Nat, CommittedVersion(s) = v,
           NEW batch, BatchAt(v, batch), Len(batch) \in 1..MaxBatch, v + Len(batch) <= MaxEvents,
           NEW j \in Job \cup {NoJob}, JobFree(j), jobs' = WithJob(j),
           rows' = [rows EXCEPT ![s] = Insert(s, v, batch)]
    PROVE  /\ \E lo \in Nat : /\ Sound(policy[s], rows[s], snap[s], lo, v)
                              /\ Sound(policy[s], rows'[s], snap[s], lo, v + Len(batch))
           /\ Len(batch) \in Nat
           /\ \A x \in DOMAIN rows'[s] \ DOMAIN rows[s] : x > v
           /\ DOMAIN rows'[s] = DOMAIN rows[s] \cup (v + 1 .. v + Len(batch))
           /\ DOMAIN rows' = Stream /\ \A t \in Stream \ {s} : rows'[t] = rows[t]
           /\ jobs' \subseteq Job
           /\ \E intent \in {{}} \cup {{i} : i \in Job \ jobs} : jobs' = jobs \cup intent
<1>1. PICK lo \in Nat : Sound(policy[s], rows[s], snap[s], lo, v)
  BY Zenon, Version DEF StoreInv
<1>2. /\ rows'[s] = Inserted(rows[s], v, batch) /\ DOMAIN rows' = Stream
      /\ \A t \in Stream \ {s} : rows'[t] = rows[t]
  BY Zenon DEF StoreInv, StoreTypes, Insert, Inserted
<1>3. Sound(policy[s], rows'[s], snap[s], lo, v + Len(batch))
  BY SMT, <1>1, <1>2, CommitSound
<1>4. Len(batch) \in Nat
  BY StoreAssumption
<1>5. \A x \in DOMAIN rows'[s] \ DOMAIN rows[s] : x > v
  BY Zenon, <1>2, <1>4, InsertedNew
<1>6. jobs' \subseteq Job /\ \E intent \in {{}} \cup {{i} : i \in Job \ jobs} : jobs' = jobs \cup intent
  BY Zenon, JobEffect DEF StoreInv, StoreTypes
<1>7. DOMAIN rows'[s] = DOMAIN rows[s] \cup (v + 1 .. v + Len(batch))
  BY Zenon, <1>2 DEF Inserted, Sequences
<1> QED
  BY Zenon, <1>1, <1>2, <1>3, <1>4, <1>5, <1>6, <1>7

\* Engine::commit and commit_opaque.
LEMMA CommitAtStep ==
    ASSUME StoreInv, NEW s \in Stream, NEW expected \in Nat, NEW batch, BatchAt(expected, batch),
           Len(batch) \in 1..MaxBatch, Room(s, expected, Len(batch)), NEW j \in Job \cup {NoJob},
           CommitAt(s, expected, batch, j)
    PROVE  StoreInv' /\ StoreEffect
<1>1. /\ CommittedVersion(s) = expected /\ JobFree(j) /\ jobs' = WithJob(j)
      /\ rows' = [rows EXCEPT ![s] = Insert(s, expected, batch)] /\ snap' = snap
      /\ UNCHANGED <<policy, registry, schema>> /\ sender' = sender
      /\ expected + Len(batch) <= MaxEvents
  BY Zenon DEF CommitAt, CommitAccepted, AtExpected, Room, Program
<1>2. PICK lo \in Nat : /\ Sound(policy[s], rows[s], snap[s], lo, expected)
                        /\ Sound(policy[s], rows'[s], snap'[s], lo, expected + Len(batch))
  BY Zenon, <1>1, CommitsAt
<1>3. /\ Len(batch) \in Nat /\ \A x \in DOMAIN rows'[s] \ DOMAIN rows[s] : x > expected
      /\ DOMAIN rows' = Stream /\ \A t \in Stream \ {s} : rows'[t] = rows[t] /\ snap'[t] = snap[t]
      /\ jobs' \subseteq Job
      /\ \E intent \in {{}} \cup {{i} : i \in Job \ jobs} : jobs' = jobs \cup intent
  BY Zenon, <1>1, CommitsAt
<1>4. StreamInv' /\ Advances(s, Len(batch))
  <2>1. StreamInv /\ policy' = policy
    BY Zenon, <1>1 DEF StoreInv
  <2> QED
    BY Zenon, <1>2, <1>3, <2>1, OneStream
<1>5. StoreEffect
  BY Zenon, <1>3, <1>4 DEF StoreEffect
<1>6. Preserving
  <2>1. DOMAIN rows'[s] = DOMAIN rows[s] \cup (expected + 1 .. expected + Len(batch)) /\ StreamInv
    BY Zenon, <1>1, CommitsAt DEF StoreInv
  <2> QED
    BY Zenon, <1>1, <1>3, <1>4, <2>1, RowsAdded
<1>7. SenderInv'
  BY Zenon, <1>1, <1>4, <1>5, <1>6, SendersKept
<1> QED
  BY Zenon, <1>1, <1>3, <1>4, <1>5, <1>7, Kept DEF StoreInv, StoreTypes

\* enqueue_job.
LEMMA EnqueueJobStep ==
    ASSUME StoreInv, NEW j \in Job, EnqueueJob(j)
    PROVE  StoreInv' /\ StoreEffect
<1>1. /\ JobFree(j) /\ jobs' = WithJob(j) /\ UNCHANGED <<policy, rows, snap, registry, schema>>
      /\ sender' = sender
  BY Zenon DEF EnqueueJob, Program
<1>2. StreamInv' /\ AtRest /\ Preserving
  BY Zenon, <1>1, NoStream DEF StoreInv
<1>3. j \in Job \ jobs /\ jobs' = jobs \cup {j} /\ jobs' \subseteq Job
  <2>1. j # NoJob
    BY Zenon, StoreAssumption
  <2> QED
    BY Zenon, <1>1, <2>1 DEF JobFree, WithJob, StoreInv, StoreTypes
<1>4. StoreEffect
  BY Zenon, <1>2, <1>3 DEF StoreEffect
<1>5. SenderInv'
  BY Zenon, <1>1, <1>2, <1>4, SendersKept
<1> QED
  BY Zenon, <1>1, <1>2, <1>3, <1>4, <1>5, Kept DEF StoreInv, StoreTypes

\* Steps that change one stream's snapshot or compact it: no version moves.
LEMMA QuietStream ==
    ASSUME StoreInv, NEW s \in Stream, UNCHANGED <<policy, jobs>>,
           \A t \in Stream \ {s} : rows'[t] = rows[t] /\ snap'[t] = snap[t],
           NEW lo \in Nat, NEW v \in Nat, Sound(policy[s], rows[s], snap[s], lo, v),
           NEW lo2 \in Nat, Sound(policy[s], rows'[s], snap'[s], lo2, v),
           DOMAIN rows'[s] \subseteq DOMAIN rows[s]
    PROVE  StreamInv' /\ StoreEffect /\ AtRest /\ (rows' = rows => Preserving)
<1>1. v + 0 = v /\ 0 \in Nat
  OBVIOUS
<1>2. Sound(policy[s], rows'[s], snap'[s], lo2, v + 0) /\ StreamInv /\ policy' = policy
  BY Zenon, <1>1 DEF StoreInv
<1>3. StreamInv' /\ AtRest
  BY Zenon, <1>1, <1>2, OneStream
<1> QED
  BY Zenon, <1>3, RowsKept DEF StoreEffect

\* store_snapshot.
LEMMA StoreSnapshotStep ==
    ASSUME StoreInv, NEW s \in Stream, NEW q \in Nat, NEW form, StoreSnapshot(s, q, form)
    PROVE  StoreInv' /\ StoreEffect
<1>1. /\ SnapshotAccepted(s, q) /\ UNCHANGED <<policy, rows, jobs, registry, schema>> /\ sender' = sender
      /\ snap' = [snap EXCEPT ![s] = StoredSnapshot(q, FoldOf(q), form)]
  BY Zenon DEF StoreSnapshot, Program, FoldOf
<1>2. PICK lo \in Nat, v \in Nat : Sound(policy[s], rows[s], snap[s], lo, v) /\ CommittedVersion(s) = v
  BY Zenon, Version DEF StoreInv
<1>3. v > 0 /\ q \in 0..v /\ snap[s].last <= q
  <2>1. v > 0 /\ q <= v /\ ~(snap[s] # NoSnapshot /\ snap[s].last > q)
    BY Zenon, <1>1, <1>2 DEF SnapshotAccepted
  <2>2. snap[s].last \in Nat /\ NoSnapshot.last = 0
    BY <1>2, StoreAssumption DEF Sound, NoSnapshot, StoredSnapshot
  <2>3. CASE snap[s] = NoSnapshot
    BY <2>1, <2>2, <2>3
  <2>4. CASE ~(snap[s].last > q)
    BY <2>1, <2>2, <2>4
  <2> QED
    BY Zenon, <2>1, <2>3, <2>4
<1>4. /\ snap'[s] = StoredSnapshot(q, FoldOf(q), form) /\ rows'[s] = rows[s]
      /\ DOMAIN snap' = Stream /\ DOMAIN rows' = Stream
      /\ \A t \in Stream \ {s} : rows'[t] = rows[t] /\ snap'[t] = snap[t]
  BY Zenon, <1>1 DEF StoreInv, StoreTypes
<1>5. Sound(policy[s], rows'[s], snap'[s], lo, v)
  BY Zenon, <1>2, <1>3, <1>4, SnapshotSound
<1>6. StreamInv' /\ StoreEffect /\ Preserving
  BY Zenon, <1>1, <1>2, <1>4, <1>5, QuietStream
<1>7. SenderInv'
  BY Zenon, <1>1, <1>6, SendersKept
<1> QED
  BY Zenon, <1>1, <1>4, <1>6, <1>7, Kept DEF StoreInv, StoreTypes


\* discard_snapshot.
LEMMA DiscardSnapshotStep ==
    ASSUME StoreInv, NEW s \in Stream, DiscardSnapshot(s)
    PROVE  StoreInv' /\ StoreEffect
<1>1. /\ policy[s] = "Retain" /\ UNCHANGED <<policy, rows, jobs, registry, schema>> /\ sender' = sender
      /\ snap' = [snap EXCEPT ![s] = NoSnapshot]
  BY Zenon DEF DiscardSnapshot, Program
<1>2. PICK lo \in Nat, v \in Nat : Sound(policy[s], rows[s], snap[s], lo, v)
  BY Zenon DEF StoreInv, StreamInv
<1>3. /\ snap'[s] = NoSnapshot /\ rows'[s] = rows[s] /\ DOMAIN snap' = Stream /\ DOMAIN rows' = Stream
      /\ \A t \in Stream \ {s} : rows'[t] = rows[t] /\ snap'[t] = snap[t]
  BY Zenon, <1>1 DEF StoreInv, StoreTypes
<1>4. Sound(policy[s], rows'[s], snap'[s], 0, v) /\ 0 \in Nat
  BY SMT, <1>1, <1>2, <1>3, DiscardSound
<1>5. StreamInv' /\ StoreEffect /\ Preserving
  BY Zenon, <1>1, <1>2, <1>3, <1>4, QuietStream
<1>6. SenderInv'
  BY Zenon, <1>1, <1>5, SendersKept
<1> QED
  BY Zenon, <1>1, <1>3, <1>5, <1>6, Kept DEF StoreInv, StoreTypes

-----------------------------------------------------------------------------
(* The steps: maintenance, deployment and startup.                         *)

\* A load that compaction passes is marked; the others still find their events,
\* and a command that has been decided is on a stream nothing compacts.
LEMMA CompactionPasses ==
    ASSUME StoreInv, StreamInv', StoreEffect, AtRest, policy' = policy, NEW s \in Stream,
           policy[s] # "Retain", snap[s].last \in Nat,
           DOMAIN rows'[s] = {y \in DOMAIN rows[s] : y > snap[s].last},
           \A t \in Stream \ {s} : rows'[t] = rows[t],
           NEW c, Under(c),
           NEW d, Overtakes(s, c) => d = [c EXCEPT !.whole = FALSE], ~Overtakes(s, c) => d = c
    PROVE  Under(d)'
<1>1. ASSUME c.stream \in Stream, Faithful(c) PROVE Faithful(c)'
  <2>1. CommittedVersion(c.stream)' = CommittedVersion(c.stream)
    BY Zenon, <1>1 DEF AtRest
  <2> QED
    BY Zenon, <1>1, <2>1 DEF Faithful
<1>2. CASE Overtakes(s, c)
  <2>1. c.pc = "snapshot" /\ c.stream = s
    BY Zenon, <1>2 DEF Overtakes
  <2>2. Reading(c)
    BY Zenon, <2>1 DEF Under
  <2>3. d = [c EXCEPT !.whole = FALSE]
    BY Zenon, <1>2
  <2>4. DOMAIN c = {"pc", "stream", "whole", "agg", "seq"}
    BY Zenon, <2>2 DEF Reading
  <2>5. /\ d.pc = c.pc /\ d.stream = c.stream /\ d.agg = c.agg /\ d.seq = c.seq
        /\ d.whole = FALSE /\ DOMAIN d = DOMAIN c
    BY <2>3, <2>4
  <2>6. Faithful(c)'
    BY Zenon, <1>1, <2>2 DEF Reading
  <2>7. Faithful(d)'
    BY Zenon, <2>5, <2>6 DEF Faithful
  <2>8. ~Undisturbed(d)'
    BY Zenon, <2>1, <2>5 DEF Undisturbed
  <2> QED
    BY Zenon, <2>1, <2>4, <2>5, <2>7, <2>8 DEF Under, Reading
<1>3. CASE ~Overtakes(s, c)
  <2>1. d = c
    BY Zenon, <1>3
  <2>2. ASSUME Loaded(c) PROVE Loaded(c)'
    BY Zenon, <1>1, <2>2 DEF Loaded, Undisturbed
  <2>3. ASSUME c.pc = "snapshot", Reading(c) PROVE Reading(c)'
    <3>1. PICK t \in Stream, q \in Nat : c.stream = t /\ c.seq = q
      BY Zenon, <2>3 DEF Reading, Faithful
    <3>2. CommittedVersion(t)' = CommittedVersion(t)
      BY Zenon DEF AtRest
    <3>3. ASSUME Covered(t, q) PROVE Covered(t, q)'
      <4>1. CASE t # s
        BY Zenon, <3>2, <3>3, <4>1 DEF Covered
      <4>2. CASE t = s
        <5>1. \A x \in DOMAIN rows[s] : ~(q < x /\ x <= snap[s].last)
          BY Zenon, <1>3, <2>3, <3>1, <4>2 DEF Overtakes
        <5>2. q + 1 .. CommittedVersion(s) \subseteq DOMAIN rows[s]
          BY Zenon, <3>3, <4>2 DEF Covered
        <5>3. \A x \in q + 1 .. CommittedVersion(s) : ~(q < x /\ x <= snap[s].last) => x > snap[s].last
          <6>1. PICK m \in Nat : m = snap[s].last
            BY Zenon
          <6>2. PICK v \in Nat : v = CommittedVersion(s)
            BY Zenon, Version DEF StoreInv
          <6>3. \A x \in q + 1 .. v : ~(q < x /\ x <= m) => x > m
            OBVIOUS
          <6> QED
            BY Zenon, <6>1, <6>2, <6>3
        <5>4. q + 1 .. CommittedVersion(s) \subseteq DOMAIN rows'[s]
          BY Zenon, <5>1, <5>2, <5>3
        <5> QED
          BY Zenon, <3>2, <4>2, <5>4 DEF Covered
      <4> QED
        BY Zenon, <4>1, <4>2
    <3>4. Undisturbed(c)' => Covered(t, q)'
      BY Zenon, <2>3, <3>1, <3>3 DEF Reading, Undisturbed
    <3> QED
      BY Zenon, <1>1, <2>3, <3>1, <3>4 DEF Reading, Covered
  <2> QED
    BY Zenon, <2>1, <2>2, <2>3 DEF Under, Decided
<1> QED
  BY Zenon, <1>2, <1>3

\* compact_events.
LEMMA CompactEventsStep ==
    ASSUME StoreInv, NEW s \in Stream, CompactEvents(s)
    PROVE  StoreInv' /\ StoreEffect
<1>1. /\ policy[s] # "Retain" /\ UNCHANGED <<policy, snap, jobs, registry, schema>>
      /\ sender' = [w \in Sender |-> IF Overtakes(s, sender[w])
                                     THEN [sender[w] EXCEPT !.whole = FALSE] ELSE sender[w]]
      /\ rows' = [rows EXCEPT ![s] = [x \in {y \in DOMAIN rows[s] : y > snap[s].last} |-> rows[s][x]]]
  BY Zenon DEF CompactEvents, Compacts, Program
<1>2. PICK lo \in Nat, v \in Nat : Sound(policy[s], rows[s], snap[s], lo, v)
  BY Zenon DEF StoreInv, StreamInv
<1>3. /\ rows'[s] = [x \in {y \in DOMAIN rows[s] : y > snap[s].last} |-> rows[s][x]]
      /\ snap'[s] = snap[s] /\ DOMAIN snap' = Stream /\ DOMAIN rows' = Stream
      /\ \A t \in Stream \ {s} : rows'[t] = rows[t] /\ snap'[t] = snap[t]
  BY Zenon, <1>1 DEF StoreInv, StoreTypes
<1>4. snap[s].last \in Nat
  BY <1>2 DEF Sound
<1>5. Sound(policy[s], rows'[s], snap'[s], snap[s].last, v)
  BY SMT, <1>1, <1>2, <1>3, CompactSound
<1>6. DOMAIN rows'[s] \subseteq DOMAIN rows[s]
  BY Zenon, <1>3
<1>7. StreamInv' /\ StoreEffect /\ AtRest
  <2>1. PICK m \in Nat : m = snap[s].last
    BY Zenon, <1>4
  <2>2. Sound(policy[s], rows'[s], snap'[s], m, v) /\ policy' = policy /\ jobs' = jobs
    BY Zenon, <1>1, <1>5, <2>1
  <2> QED
    BY Zenon, <1>2, <1>3, <1>6, <2>2, QuietStream
<1>8. SenderInv' /\ DOMAIN sender' = Sender
  <2>1. ASSUME NEW w \in Sender PROVE Under(sender[w])'
    <3>1. PICK c : c = sender[w]
      BY Zenon
    <3>2. PICK d : d = sender'[w]
      BY Zenon
    <3>3. (Overtakes(s, c) => d = [c EXCEPT !.whole = FALSE]) /\ (~Overtakes(s, c) => d = c)
      BY Zenon, <1>1, <3>1, <3>2
    <3>4. Under(c)
      BY Zenon, <3>1 DEF StoreInv, SenderInv
    <3>5. DOMAIN rows'[s] = {y \in DOMAIN rows[s] : y > snap[s].last}
      BY Zenon, <1>3
    <3>6. Under(d)'
      <4>1. policy' = policy /\ policy[s] # "Retain" /\ \A t \in Stream \ {s} : rows'[t] = rows[t]
        BY Zenon, <1>1, <1>3
      <4> QED
        BY Zenon, <1>4, <1>7, <3>3, <3>4, <3>5, <4>1, CompactionPasses
    <3> QED
      BY Zenon, <3>2, <3>6
  <2> QED
    BY Zenon, <1>1, <2>1 DEF SenderInv
<1> QED
  BY Zenon, <1>1, <1>3, <1>7, <1>8, Kept DEF StoreInv, StoreTypes

\* A type that compacts has a version on record.
LEMMA CompactsOnRecord ==
    ASSUME StoreInv, NEW s \in Stream, policy[s] = "CompactAfterSnapshot"
    PROVE  VersionOf(s) # Unregistered
<1>1. LoadRegistry = VersionsIn(registry)
  BY Zenon DEF LoadRegistry, VersionsIn
<1>2. PICK k \in 1..Len(registry) : registry[k].name = s
  BY Zenon DEF StoreInv, RegistryInv
<1>3. registry \in Seq(LogEntry)
  BY Zenon DEF StoreInv, StoreTypes
<1>4. s \in DOMAIN VersionsIn(registry) /\ VersionsIn(registry)[s] # Unregistered
  BY Zenon, <1>2, <1>3, Recorded
<1> QED
  BY Zenon, <1>1, <1>4 DEF VersionOf

\* Reconciler::reconcile_target clears the snapshots of a type that retains its
\* events only.
LEMMA ReconcileStep ==
    ASSUME StoreInv, NEW s \in Stream, Reconcile(s)
    PROVE  StoreInv' /\ StoreEffect
<1>1. /\ VersionOf(s) = schema[s] \/ ~ClearRefused(s)
      /\ snap' = IF VersionOf(s) = schema[s] THEN snap ELSE [snap EXCEPT ![s] = NoSnapshot]
      /\ UNCHANGED <<policy, rows, jobs, registry, schema>> /\ sender' = sender
  BY Zenon DEF Reconcile
<1>2. PICK lo \in Nat, v \in Nat : Sound(policy[s], rows[s], snap[s], lo, v)
  BY Zenon DEF StoreInv, StreamInv
<1>3. StreamInv' /\ StoreEffect /\ Preserving /\ DOMAIN snap' = Stream
  <2>1. CASE VersionOf(s) = schema[s]
    <3>1. snap' = snap /\ UNCHANGED <<policy, rows, snap>>
      BY Zenon, <1>1, <2>1
    <3>2. StreamInv' /\ AtRest /\ Preserving
      BY Zenon, <3>1, NoStream DEF StoreInv
    <3> QED
      BY Zenon, <1>1, <3>1, <3>2 DEF StoreEffect, StoreInv, StoreTypes
  <2>2. CASE VersionOf(s) # schema[s]
    <3>1. policy[s] = "Retain"
      <4>1. policy[s] \in {"Retain", "CompactAfterSnapshot"}
        BY Zenon DEF StoreInv, StoreTypes
      <4> QED
        BY Zenon, <1>1, <2>2, <4>1, CompactsOnRecord DEF ClearRefused
    <3>2. /\ snap'[s] = NoSnapshot /\ rows'[s] = rows[s] /\ DOMAIN snap' = Stream
          /\ \A t \in Stream \ {s} : rows'[t] = rows[t] /\ snap'[t] = snap[t]
      BY Zenon, <1>1, <2>2 DEF StoreInv, StoreTypes
    <3>3. Sound(policy[s], rows'[s], snap'[s], 0, v) /\ 0 \in Nat
      BY SMT, <1>2, <3>1, <3>2, DiscardSound
    <3> QED
      BY Zenon, <1>1, <1>2, <3>2, <3>3, QuietStream
  <2> QED
    BY Zenon, <2>1, <2>2
<1>4. SenderInv'
  BY Zenon, <1>1, <1>3, SendersKept
<1> QED
  BY Zenon, <1>1, <1>3, <1>4, Kept DEF StoreInv, StoreTypes

\* Reconciler::record_target only adds to the log.
LEMMA RecordVersionStep ==
    ASSUME StoreInv, NEW s \in Stream, RecordVersion(s)
    PROVE  StoreInv' /\ StoreEffect
<1>1. /\ registry' = registry \o Register(s, schema[s])
      /\ UNCHANGED <<policy, rows, snap, jobs, schema>> /\ sender' = sender
  BY Zenon DEF RecordVersion
<1>2. Register(s, schema[s]) \in Seq(LogEntry)
  <2>1. schema[s] \in Nat \ {0}
    BY DEF StoreInv, StoreTypes
  <2>2. VersionUpdated(s, schema[s]) \in LogEntry
    BY <2>1 DEF VersionUpdated, LogEntry
  <2>3. <<>> \in Seq(LogEntry) /\ <<VersionUpdated(s, schema[s])>> \in Seq(LogEntry)
    BY <2>2
  <2> QED
    BY Zenon, <2>3 DEF Register
<1>3. registry \in Seq(LogEntry)
  BY Zenon DEF StoreInv, StoreTypes
<1>4. /\ registry' \in Seq(LogEntry)
      /\ \A k \in 1..Len(registry) : k \in 1..Len(registry') /\ registry'[k] = registry[k]
  BY SMT, <1>1, <1>2, <1>3
<1>5. StreamInv' /\ AtRest /\ Preserving
  BY Zenon, <1>1, NoStream DEF StoreInv
<1>6. StoreEffect
  BY Zenon, <1>1, <1>5 DEF StoreEffect
<1>7. SenderInv'
  BY Zenon, <1>1, <1>5, <1>6, SendersKept
<1>8. StoreTypes' /\ RegistryInv'
  BY Zenon, <1>1, <1>4 DEF StoreInv, StoreTypes, RegistryInv
<1> QED
  BY Zenon, <1>5, <1>6, <1>7, <1>8 DEF StoreInv

\* A crash, or a deployment, ends the commands and leaves the tables.
LEMMA DownStep ==
    ASSUME StoreInv, Down, schema' \in [Stream -> Nat \ {0}]
    PROVE  StoreInv' /\ StoreEffect
<1>1. /\ UNCHANGED <<policy, rows, snap, jobs, registry>> /\ sender' = [w \in Sender |-> Idle]
  BY Zenon DEF Down, Durable
<1>2. StreamInv' /\ AtRest
  BY Zenon, <1>1, NoStream DEF StoreInv
<1>3. StoreEffect
  BY Zenon, <1>1, <1>2 DEF StoreEffect
<1>4. SenderInv' /\ DOMAIN sender' = Sender
  <2>1. Idle.pc = "idle"
    BY DEF Idle
  <2> QED
    BY Zenon, <1>1, <2>1 DEF SenderInv, Under
<1>5. StoreTypes' /\ RegistryInv'
  BY Zenon, <1>1, <1>4 DEF StoreInv, StoreTypes, RegistryInv
<1> QED
  BY Zenon, <1>2, <1>3, <1>4, <1>5 DEF StoreInv

\* A crash changes nothing else.
LEMMA CrashStep ==
    ASSUME StoreInv, Crash
    PROVE  StoreInv' /\ StoreEffect
  BY Zenon, DownStep DEF Crash, StoreInv, StoreTypes

\* A deployment also changes the declared schema version and the form of the
\* state, which no stored fold depends on.
LEMMA DeployStep ==
    ASSUME StoreInv, NEW s \in Stream, Deploy(s)
    PROVE  StoreInv' /\ StoreEffect
<1>1. PICK bump \in {0, 1} : schema' = [schema EXCEPT ![s] = @ + bump]
  BY Zenon DEF Deploy
<1>2. schema' \in [Stream -> Nat \ {0}]
  BY <1>1 DEF StoreInv, StoreTypes
<1> QED
  BY Zenon, <1>2, DownStep DEF Deploy


-----------------------------------------------------------------------------
(* The steps: Store::send.                                                 *)

\* Steps of one sender that leave everything else alone.
LEMMA SenderStep ==
    ASSUME StoreInv, NEW w \in Sender, NEW c, Under(c), sender' = [sender EXCEPT ![w] = c],
           UNCHANGED <<Durable, Program>>
    PROVE  StoreInv' /\ StoreEffect
<1>1. UNCHANGED <<policy, rows, snap, jobs, registry, schema>>
  BY Zenon DEF Durable, Program
<1>2. StreamInv' /\ AtRest /\ Preserving
  BY Zenon, <1>1, NoStream DEF StoreInv
<1>3. StoreEffect
  BY Zenon, <1>1, <1>2 DEF StoreEffect
<1>4. Under(c)'
  BY Zenon, <1>1, <1>2, <1>3, UnderKept DEF StoreInv
<1>5. SenderInv' /\ DOMAIN sender' = Sender
  BY Zenon, <1>1, <1>2, <1>3, <1>4, OneSender
<1> QED
  BY Zenon, <1>1, <1>2, <1>3, <1>5, Kept DEF StoreInv, StoreTypes

\* A command that ends.
LEMMA EndStep ==
    ASSUME StoreInv, NEW w \in Sender, sender' = [sender EXCEPT ![w] = Idle],
           UNCHANGED <<Durable, Program>>
    PROVE  StoreInv' /\ StoreEffect
<1>1. Under(Idle)
  BY DEF Under, Idle
<1> QED
  BY Zenon, <1>1, SenderStep

\* The snapshot a load starts from and the rows after it are the whole history.
LEMMA InvNeverSilentlyLost == StoreInv => NeverSilentlyLost
<1> SUFFICES ASSUME StoreInv, NEW s \in Stream, ~LoadRefused(s)
             PROVE  UsableSnapshot(s).last + 1 .. CommittedVersion(s) \subseteq DOMAIN rows[s]
  BY Zenon DEF NeverSilentlyLost
<1>1. PICK lo \in Nat, v \in Nat : Sound(policy[s], rows[s], snap[s], lo, v) /\ CommittedVersion(s) = v
  BY Zenon, Version DEF StoreInv
<1>2. DOMAIN rows[s] = lo + 1..v
  BY Zenon, <1>1 DEF Sound
<1>3. UsableSnapshot(s).last \in Nat /\ lo <= UsableSnapshot(s).last
  <2>1. CASE SnapshotReadable(s)
    <3>1. snap[s].last \in lo..v
      BY Zenon, <1>1 DEF Sound
    <3> QED
      BY <2>1, <3>1 DEF UsableSnapshot
  <2>2. CASE ~SnapshotReadable(s)
    <3>1. lo = 0
      BY Zenon, <1>1, <2>2 DEF Sound, LoadRefused, StoreInv, StoreTypes
    <3>2. UsableSnapshot(s).last = 0
      BY <2>2 DEF UsableSnapshot, NoSnapshot, StoredSnapshot
    <3> QED
      BY <3>1, <3>2
  <2> QED
    BY Zenon, <2>1, <2>2
<1> QED
  BY <1>1, <1>2, <1>3

\* get_snapshot.
LEMMA LoadSnapshotStep ==
    ASSUME StoreInv, NEW w \in Sender, NEW s \in Stream, LoadSnapshot(w, s)
    PROVE  StoreInv' /\ StoreEffect
<1>1. PICK c : c = [pc |-> "snapshot", stream |-> s, whole |-> TRUE,
                    agg |-> UsableSnapshot(s).state, seq |-> UsableSnapshot(s).last]
  BY Zenon
<1>2. ~LoadRefused(s) /\ sender' = [sender EXCEPT ![w] = c] /\ UNCHANGED <<Durable, Program>>
  BY Zenon, <1>1 DEF LoadSnapshot
<1>3. PICK lo \in Nat, v \in Nat : Sound(policy[s], rows[s], snap[s], lo, v) /\ CommittedVersion(s) = v
  BY Zenon, Version DEF StoreInv
<1>4. /\ UsableSnapshot(s).last \in Nat /\ UsableSnapshot(s).last <= v
      /\ UsableSnapshot(s).state = FoldOf(UsableSnapshot(s).last)
  <2>1. snap[s].last \in Nat /\ snap[s].last <= v /\ snap[s].state = FoldOf(snap[s].last)
    <3>1. snap[s].state = FoldOf(snap[s].last)
      BY <1>3 DEF Sound, StoredSnapshot
    <3> QED
      BY <1>3, <3>1 DEF Sound
  <2>2. NoSnapshot.last \in Nat /\ NoSnapshot.last <= v /\ NoSnapshot.state = FoldOf(NoSnapshot.last)
    BY DEF NoSnapshot, StoredSnapshot, FoldOf
  <2> QED
    BY Zenon, <2>1, <2>2 DEF UsableSnapshot
<1>5. /\ c.pc = "snapshot" /\ c.stream = s /\ c.agg = UsableSnapshot(s).state
      /\ c.seq = UsableSnapshot(s).last /\ DOMAIN c = {"pc", "stream", "whole", "agg", "seq"}
  BY <1>1
<1>6. Covered(s, UsableSnapshot(s).last)
  BY Zenon, <1>2, InvNeverSilentlyLost DEF NeverSilentlyLost, Covered
<1>7. Faithful(c) /\ Covered(c.stream, c.seq)
  BY Zenon, <1>3, <1>4, <1>5, <1>6 DEF Faithful
<1>8. Under(c)
  BY Zenon, <1>5, <1>7 DEF Under, Reading
<1> QED
  BY Zenon, <1>2, <1>8, SenderStep

\* get_last_events, and the replay: unless compaction passed the load, the rows
\* after the snapshot are all there, so the fold reaches the version the stream
\* has by then.
LEMMA LoadEventsStep ==
    ASSUME StoreInv, NEW w \in Sender, LoadEvents(w)
    PROVE  StoreInv' /\ StoreEffect
<1>0. PICK d : d = sender[w]
  BY Zenon
<1>1. PICK tail : tail = After(d.stream, d.seq)
  BY Zenon
<1>2. PICK c : c = [pc |-> "loaded", stream |-> d.stream, whole |-> d.whole,
                    agg |-> Replay(d.agg, tail),
                    seq |-> Greatest(DOMAIN rows[d.stream] \cup {d.seq})]
  BY Zenon
<1>3. /\ d.pc = "snapshot" /\ Opaque \notin Range(tail)
      /\ sender' = [sender EXCEPT ![w] = c] /\ UNCHANGED <<Durable, Program>>
  BY Zenon, <1>0, <1>1, <1>2 DEF LoadEvents
<1>4. Reading(d)
  <2>1. Under(d)
    BY Zenon, <1>0 DEF StoreInv, SenderInv
  <2> QED
    BY <1>3, <2>1 DEF Under
<1>5. PICK s \in Stream, q \in Nat : d.stream = s /\ d.seq = q
  BY Zenon, <1>4 DEF Reading, Faithful
<1>6. q <= CommittedVersion(s) /\ d.agg = FoldOf(q) /\ (Undisturbed(d) => Covered(s, q))
  BY Zenon, <1>4, <1>5 DEF Reading, Faithful
<1>c. /\ c.pc = "loaded" /\ c.stream = d.stream /\ c.agg = Replay(d.agg, tail)
      /\ c.seq = Greatest(DOMAIN rows[d.stream] \cup {d.seq}) /\ c.whole = d.whole
  BY <1>2
<1>u. SUFFICES ASSUME Undisturbed(c) PROVE Faithful(c)
  <2>1. ASSUME Undisturbed(c) => Faithful(c) PROVE Under(c)
    BY Zenon, <1>5, <1>c, <2>1 DEF Under, Loaded
  <2> QED
    BY Zenon, <1>3, <2>1, SenderStep
<1>r. Covered(s, q)
  BY Zenon, <1>5, <1>6, <1>c, <1>u DEF Undisturbed
<1>7. PICK lo \in Nat, v \in Nat : Sound(policy[s], rows[s], snap[s], lo, v) /\ CommittedVersion(s) = v
  BY Zenon, Version DEF StoreInv
<1>8. q \in lo..v /\ v - q \in Nat /\ q + (v - q) = v
  <2>1. DOMAIN rows[s] = lo + 1..v /\ snap[s].last \in lo..v /\ q <= v
    BY Zenon, <1>6, <1>7 DEF Sound
  <2>2. q + 1..v \subseteq lo + 1..v
    BY Zenon, <1>7, <1>r, <2>1 DEF Covered
  <2>3. lo <= q
    BY <2>1, <2>2
  <2> QED
    BY <2>1, <2>3
<1>9. tail = [i \in 1..v - q |-> rows[s][q + i]] /\ \A i \in 1..v - q : tail[i] \in {Opaque, Expected(q + i)}
  <2>1. tail = RowsAfter(rows[s], q)
    BY Zenon, <1>1, <1>5 DEF After, RowsAfter
  <2>2. PICK p, r, sn : p = policy[s] /\ r = rows[s] /\ sn = snap[s]
    BY Zenon
  <2>3. Sound(p, r, sn, lo, v) /\ q \in lo..v
    BY Zenon, <1>7, <1>8, <2>2
  <2>4. /\ RowsAfter(r, q) = [i \in 1..v - q |-> r[q + i]]
        /\ \A i \in 1..v - q : r[q + i] \in {Opaque, Expected(q + i)}
    BY Zenon, <2>3, RowsAfterIs
  <2> QED
    BY Zenon, <2>1, <2>2, <2>4
<1>10. Len(tail) = v - q
  BY SMT, <1>8, <1>9
<1>11. \A i \in 1..v - q : tail[i] = Expected(q + i) /\ tail[i] \in Kind
  <2>1. DOMAIN tail = 1..v - q
    BY Zenon, <1>9
  <2> QED
    BY Zenon, <1>3, <1>9, <2>1 DEF Range, Expected, Kind
<1>12. Replay(FoldOf(q), tail) = FoldOf(v)
  <2>1. Len(tail) \in Nat /\ \A i \in 1..Len(tail) : tail[i] \in Kind /\ tail[i] = Expected(q + i)
    BY Zenon, <1>8, <1>10, <1>11
  <2>2. Replay(FoldOf(q), tail) = FoldOf(q + Len(tail))
    BY Zenon, <2>1, ReplayIs
  <2> QED
    BY Zenon, <1>8, <1>10, <2>2
<1>13. Greatest(DOMAIN rows[s] \cup {q}) = v
  <2>1. Greatest((lo + 1..v) \cup {q}) = v
    BY Zenon, <1>8, Topmost
  <2>2. DOMAIN rows[s] = lo + 1..v
    BY Zenon, <1>7 DEF Sound
  <2> QED
    BY Zenon, <2>1, <2>2
<1>14. c.agg = FoldOf(v) /\ c.seq = v
  BY Zenon, <1>5, <1>6, <1>12, <1>13, <1>c
<1>15. v <= v
  OBVIOUS
<1> QED
  BY Zenon, <1>5, <1>7, <1>14, <1>15, <1>c DEF Faithful

\* Lifecycle::handle: a decision that survives its trial continues the stream.
LEMMA HandleStep ==
    ASSUME Supported, StoreInv, NEW w \in Sender, policy[sender[w].stream] \in NativePolicy, NEW k \in 1..MaxBatch, NEW batch \in [1..k -> Kind],
           NEW j \in Job \cup {NoJob}, Room(sender[w].stream, sender[w].seq, Len(batch)),
           Handle(w, batch, j)
    PROVE  StoreInv' /\ StoreEffect
<1>0. PICK d : d = sender[w]
  BY Zenon
<1>1. PICK c : c = [pc |-> "handled", stream |-> d.stream, whole |-> d.whole, agg |-> d.agg,
                    seq |-> d.seq, batch |-> batch, job |-> j]
  BY Zenon
<1>2. /\ d.pc = "loaded" /\ Replay(d.agg, batch).tag # "Failed"
      /\ sender' = [sender EXCEPT ![w] = c] /\ UNCHANGED <<Durable, Program>>
      /\ d.seq + Len(batch) <= MaxEvents /\ policy[d.stream] = "Retain"
  BY Zenon, <1>0, <1>1 DEF Handle, Room, Supported
<1>3. d.stream \in Stream /\ Faithful(d)
  <2>1. Under(d)
    BY Zenon, <1>0 DEF StoreInv, SenderInv
  <2> QED
    BY <1>2, <2>1 DEF Under, Loaded, Undisturbed
<1>4. PICK q \in Nat : d.seq = q /\ d.agg = FoldOf(q)
  BY Zenon, <1>3 DEF Faithful
<1>5. Len(batch) = k /\ k \in Nat
  BY StoreAssumption
<1>6. \A i \in 1..Len(batch) : batch[i] = Expected(q + i)
  <2>1. Len(batch) \in Nat /\ \A i \in 1..Len(batch) : batch[i] \in Kind
    BY Zenon, <1>5
  <2>2. Failed.tag = "Failed"
    BY DEF Failed
  <2>3. Replay(FoldOf(q), batch) # Failed
    BY Zenon, <1>2, <1>4, <2>2
  <2>4. ~(\A i \in 1..Len(batch) : batch[i] = Expected(q + i)) => Replay(FoldOf(q), batch) = Failed
    BY Zenon, <2>1, ReplayIs
  <2> QED
    BY Zenon, <2>3, <2>4
<1>7. /\ c.pc = "handled" /\ c.stream = d.stream /\ c.agg = d.agg /\ c.seq = d.seq
      /\ c.batch = batch /\ c.job = j
  BY <1>1
<1>8. policy[c.stream] = "Retain" /\ Loaded(c) /\ Decided(c)
  BY Zenon, <1>2, <1>3, <1>4, <1>5, <1>6, <1>7 DEF Loaded, Faithful, Decided
<1>9. Under(c)
  BY Zenon, <1>7, <1>8 DEF Under
<1> QED
  BY Zenon, <1>2, <1>9, SenderStep


\* SqliteEventRepository::persist: a batch that meets no taken sequence of a
\* stream that retains its events is at the version of the stream, although
\* nothing compares the two; the snapshot it may carry is the fold it leads to.
LEMMA PersistStep ==
    ASSUME StoreInv, NEW w \in Sender, Persist(w)
    PROVE  StoreInv' /\ StoreEffect
<1>0. PICK c : c = sender[w]
  BY Zenon
<1>1. PICK s, q, batch, j : s = c.stream /\ q = c.seq /\ batch = c.batch /\ j = c.job
  BY Zenon
<1>2. /\ c.pc = "handled" /\ sender' = [sender EXCEPT ![w] = Idle]
      /\ Sequences(q, batch) \cap DOMAIN rows[s] = {} /\ JobFree(j)
      /\ rows' = [rows EXCEPT ![s] = Insert(s, q, batch)]
      /\ snap' = IF SnapshotDue(q, batch)
                 THEN [snap EXCEPT ![s] = StoredSnapshot(q + Len(batch), Replay(c.agg, batch), shape[s])]
                 ELSE snap
      /\ jobs' = WithJob(j) /\ UNCHANGED <<policy, registry, schema>>
  BY Zenon, <1>0, <1>1 DEF Persist, Taken, Program
<1>3. c.stream \in Stream /\ policy[c.stream] = "Retain" /\ Faithful(c) /\ Decided(c)
  <2>1. Under(c)
    BY Zenon, <1>0 DEF StoreInv, SenderInv
  <2> QED
    BY <1>2, <2>1 DEF Under, Loaded, Undisturbed
<1>4. /\ s \in Stream /\ policy[s] = "Retain" /\ q \in Nat /\ q <= CommittedVersion(s)
      /\ c.agg = FoldOf(q) /\ Len(batch) \in 1..MaxBatch /\ q + Len(batch) <= MaxEvents
      /\ \A i \in 1..Len(batch) : batch[i] = Expected(q + i)
      /\ j \in Job \cup {NoJob}
  BY Zenon, <1>1, <1>3 DEF Faithful, Decided
<1>5. Len(batch) \in Nat /\ Len(batch) \in Nat \ {0}
  BY <1>4, StoreAssumption
<1>6. CommittedVersion(s) = q
  <2>1. PICK lo \in Nat, v \in Nat : Sound(policy[s], rows[s], snap[s], lo, v) /\ CommittedVersion(s) = v
    BY Zenon, <1>4, Version DEF StoreInv
  <2>2. lo = 0 /\ q \in 0..v
    BY <1>4, <2>1 DEF Sound
  <2>3. q = v
    BY SMT, <1>2, <1>5, <2>1, <2>2, NotTaken
  <2> QED
    BY Zenon, <2>1, <2>3
<1>7. BatchAt(q, batch)
  BY Zenon, <1>4, <1>5 DEF BatchAt
<1>8. PICK lo \in Nat : /\ Sound(policy[s], rows[s], snap[s], lo, q)
                        /\ Sound(policy[s], rows'[s], snap[s], lo, q + Len(batch))
  BY Zenon, <1>2, <1>4, <1>6, <1>7, CommitsAt
<1>9. /\ \A x \in DOMAIN rows'[s] \ DOMAIN rows[s] : x > q
      /\ DOMAIN rows' = Stream /\ \A t \in Stream \ {s} : rows'[t] = rows[t]
      /\ jobs' \subseteq Job
      /\ \E intent \in {{}} \cup {{i} : i \in Job \ jobs} : jobs' = jobs \cup intent
  BY Zenon, <1>2, <1>4, <1>6, <1>7, CommitsAt
<1>10. Replay(c.agg, batch) = FoldOf(q + Len(batch))
  <2>1. \A i \in 1..Len(batch) : batch[i] \in Kind
    BY Zenon, <1>4 DEF Expected, Kind
  <2> QED
    BY Zenon, <1>4, <1>5, <2>1, ReplayIs
<1>11. /\ Sound(policy[s], rows'[s], snap'[s], lo, q + Len(batch)) /\ DOMAIN snap' = Stream
       /\ \A t \in Stream \ {s} : rows'[t] = rows[t] /\ snap'[t] = snap[t]
  <2>1. CASE SnapshotDue(q, batch)
    <3>1. PICK last \in Nat : last = q + Len(batch) /\ last > 0 /\ last \in 0..last
      BY <1>4, <1>5
    <3>2. snap[s].last <= last
      BY <1>4, <1>5, <1>8, <3>1 DEF Sound
    <3>3. /\ snap'[s] = StoredSnapshot(last, FoldOf(last), shape[s]) /\ DOMAIN snap' = Stream
          /\ \A t \in Stream \ {s} : snap'[t] = snap[t]
      BY Zenon, <1>2, <1>4, <1>10, <2>1, <3>1 DEF StoreInv, StoreTypes
    <3>4. Sound(policy[s], rows'[s], snap[s], lo, last)
      BY Zenon, <1>8, <3>1
    <3>5. Sound(policy[s], rows'[s], StoredSnapshot(last, FoldOf(last), shape[s]), lo, last)
      BY Zenon, <3>1, <3>2, <3>4, SnapshotSound
    <3> QED
      BY Zenon, <1>9, <3>1, <3>3, <3>5
  <2>2. CASE ~SnapshotDue(q, batch)
    BY Zenon, <1>2, <1>8, <1>9, <2>2 DEF StoreInv, StoreTypes
  <2> QED
    BY Zenon, <2>1, <2>2
<1>12. StreamInv' /\ Advances(s, Len(batch))
  <2>1. StreamInv /\ policy' = policy
    BY Zenon, <1>2 DEF StoreInv
  <2> QED
    BY SMT, <1>4, <1>5, <1>8, <1>9, <1>11, <2>1, OneStream
<1>13. StoreEffect
  BY Zenon, <1>4, <1>9, <1>12 DEF StoreEffect
<1>14. SenderInv' /\ DOMAIN sender' = Sender
  <2>1. Under(Idle)'
    BY DEF Under, Idle
  <2>2. DOMAIN rows'[s] = DOMAIN rows[s] \cup (q + 1 .. q + Len(batch)) /\ StreamInv
    BY Zenon, <1>2, <1>4, <1>6, <1>7, CommitsAt DEF StoreInv
  <2>3. Preserving
    BY Zenon, <1>4, <1>5, <1>6, <1>9, <1>12, <2>2, RowsAdded
  <2> QED
    BY Zenon, <1>2, <1>12, <1>13, <2>1, <2>3, OneSender
<1> QED
  BY Zenon, <1>2, <1>9, <1>11, <1>12, <1>13, <1>14, Kept

-----------------------------------------------------------------------------
\* The tables as a fresh database has them.
LEMMA StoreInit ==
    ASSUME Supported, Init
    PROVE  StoreInv
<1>1. /\ policy \in [Stream -> {"Retain", "CompactAfterSnapshot"}]
      /\ rows = [s \in Stream |-> <<>>] /\ snap = [s \in Stream |-> NoSnapshot] /\ jobs = {}
      /\ schema = [s \in Stream |-> 1] /\ sender = [w \in Sender |-> Idle]
  BY Zenon DEF Init
<1> DEFINE held == {s \in Stream : Registered[policy[s]] # Unregistered}
           known == {VersionUpdated(s, Registered[policy[s]]) : s \in held}
<1>2. registry \in [1..Cardinality(known) -> known] /\ Range(registry) = known
  BY Zenon DEF Init
<1>3. Cardinality(known) \in Nat
  <2>1. IsFiniteSet(held)
    BY Zenon, StoreAssumption, FS_Subset
  <2> HIDE DEF held
  <2>2. IsFiniteSet(known)
    <3> DEFINE f == [s \in held |-> VersionUpdated(s, Registered[policy[s]])]
    <3>1. f \in Surjection(held, known)
      BY Zenon DEF Surjection
    <3> QED
      BY Zenon, <2>1, <3>1, FS_Surjection
  <2> HIDE DEF known
  <2> QED
    BY Zenon, <2>2, FS_CardinalityType
<1>4. \A e \in known : e \in LogEntry
  <2>1. ASSUME NEW s \in held PROVE VersionUpdated(s, Registered[policy[s]]) \in LogEntry
    <3>1. Registered[policy[s]] \in 0..1 /\ Registered[policy[s]] # 0
      BY <1>1, StoreAssumption DEF Unregistered
    <3>2. Registered[policy[s]] \in Nat \ {0}
      BY <3>1
    <3> QED
      BY <3>2 DEF VersionUpdated, LogEntry
  <2> QED
    BY Zenon, <2>1
<1>5. registry \in Seq(LogEntry) /\ Len(registry) = Cardinality(known)
  <2> HIDE DEF known
  <2> QED
    BY <1>2, <1>3, <1>4
<1>6. StoreTypes
  <2>1. schema \in [Stream -> Nat \ {0}]
    BY <1>1
  <2> QED
    BY Zenon, <1>1, <1>5, <2>1 DEF StoreTypes
<1>7. RegistryInv
  <2>1. SUFFICES ASSUME NEW s \in Stream, policy[s] = "CompactAfterSnapshot"
                 PROVE  \E k \in 1..Len(registry) : registry[k].name = s
    BY Zenon DEF RegistryInv
  <2>2. VersionUpdated(s, Registered[policy[s]]) \in Range(registry)
    BY Zenon, <1>2, <2>1 DEF Supported
  <2>3. DOMAIN registry = 1..Len(registry)
    <3> HIDE DEF known
    <3> QED
      BY Zenon, <1>2, <1>5
  <2>4. PICK k \in 1..Len(registry) : registry[k] = VersionUpdated(s, Registered[policy[s]])
    BY Zenon, <2>2, <2>3 DEF Range
  <2>5. VersionUpdated(s, Registered[policy[s]]).name = s
    BY DEF VersionUpdated
  <2> QED
    BY Zenon, <2>4, <2>5
<1>8. StreamInv
  <2>1. ASSUME NEW s \in Stream PROVE Sound(policy[s], rows[s], snap[s], 0, 0)
    <3>1. rows[s] = <<>> /\ snap[s] = NoSnapshot
      BY Zenon, <1>1
    <3>2. DOMAIN rows[s] = 0 + 1..0 /\ 0 + 1..0 = {} /\ 0 \in 0..0 /\ 0 \in 0..MaxEvents /\ 0 \in Nat
      BY <3>1, StoreAssumption
    <3>3. NoSnapshot.last = 0 /\ NoSnapshot = StoredSnapshot(NoSnapshot.last, FoldOf(NoSnapshot.last), NoSnapshot.shape)
      BY DEF NoSnapshot, StoredSnapshot, FoldOf
    <3> QED
      BY Zenon, <3>1, <3>2, <3>3 DEF Sound
  <2>2. 0 \in Nat
    OBVIOUS
  <2> QED
    BY Zenon, <2>1, <2>2 DEF StreamInv
<1>9. SenderInv
  <2>1. Idle.pc = "idle"
    BY DEF Idle
  <2> QED
    BY Zenon, <1>1, <2>1 DEF SenderInv, Under
<1> QED
  BY Zenon, <1>6, <1>7, <1>8, <1>9 DEF StoreInv


-----------------------------------------------------------------------------
(* The native store as a whole.                                            *)

\* Any step of Store::send.
LEMMA CommandStep ==
    ASSUME Supported, StoreInv, NEW w \in Sender, Command(w)
    PROVE  StoreInv' /\ StoreEffect
<1>1. ASSUME NEW s \in Stream, LoadSnapshot(w, s) PROVE StoreInv' /\ StoreEffect
  BY Zenon, <1>1, LoadSnapshotStep
<1>2. CASE LoadEvents(w)
  BY Zenon, <1>2, LoadEventsStep
<1>3. CASE LoadUndecodable(w)
  BY Zenon, <1>3, EndStep DEF LoadUndecodable
<1>4. ASSUME NEW batch \in UNION {[1..k -> Kind] : k \in 1..MaxBatch}, NEW j \in Job \cup {NoJob},
             policy[sender[w].stream] \in NativePolicy,
             Room(sender[w].stream, sender[w].seq, Len(batch)), Handle(w, batch, j)
      PROVE  StoreInv' /\ StoreEffect
  <2>1. PICK k \in 1..MaxBatch : batch \in [1..k -> Kind]
    BY Zenon
  <2> QED
    BY Zenon, <1>4, <2>1, HandleStep
<1>5. CASE Return(w)
  BY Zenon, <1>5, EndStep DEF Return
<1>6. CASE Persist(w)
  BY Zenon, <1>6, PersistStep
<1>7. CASE PersistConflict(w)
  BY Zenon, <1>7, EndStep DEF PersistConflict
<1> QED
  BY Zenon, <1>1, <1>2, <1>3, <1>4, <1>5, <1>6, <1>7 DEF Command

\* Any step of the native store: senders, compaction, deployments, startup,
\* and the crash of the process.
LEMMA StoreNext ==
    ASSUME Supported, StoreInv, Next
    PROVE  StoreInv' /\ StoreEffect
<1>1. ASSUME NEW s \in Stream, Maintain(s) PROVE StoreInv' /\ StoreEffect
  BY Zenon, <1>1, CompactEventsStep, DeployStep, ReconcileStep, RecordVersionStep DEF Maintain, Build
<1> QED
  BY Zenon, <1>1, CommandStep, CrashStep DEF Next

\* A step that leaves the store alone, as most answers of the C ABI do.
LEMMA StoreStutter ==
    ASSUME StoreInv, UNCHANGED vars
    PROVE  StoreInv' /\ StoreEffect
<1>1. /\ policy' = policy /\ rows' = rows /\ snap' = snap /\ jobs' = jobs /\ registry' = registry
      /\ schema' = schema /\ sender' = sender
  BY Zenon DEF vars
<1>2. StreamInv' /\ AtRest /\ Preserving
  BY Zenon, <1>1, NoStream DEF StoreInv
<1>3. StoreEffect
  BY Zenon, <1>1, <1>2 DEF StoreEffect
<1>4. SenderInv'
  BY Zenon, <1>1, <1>2, <1>3, SendersKept
<1> QED
  BY Zenon, <1>1, <1>2, <1>3, <1>4, Kept DEF StoreInv, StoreTypes

-----------------------------------------------------------------------------
(* What the invariant says to callers.                                     *)

\* A load that compaction does not pass is the fold of its stream's first events,
\* so handlers decide on whole entities.
LEMMA InvLoadIsFold == StoreInv => LoadIsFold
<1> SUFFICES ASSUME StoreInv, NEW w \in Sender, sender[w].pc \in {"loaded", "handled"},
                    policy[sender[w].stream] = "Retain" \/ sender[w].whole
             PROVE  sender[w].agg = FoldOf(sender[w].seq)
  BY Zenon DEF LoadIsFold, FoldOf
<1>1. Under(sender[w])
  BY Zenon DEF StoreInv, SenderInv
<1>2. Loaded(sender[w])
  BY <1>1 DEF Under
<1> QED
  BY Zenon, <1>2 DEF Loaded, Undisturbed, Faithful

\* load_all_ids lists what has committed.
LEMMA InvListedIffCommitted == StoreInv => ListedIffCommitted
<1> SUFFICES ASSUME StoreInv, NEW s \in Stream
             PROVE  (DOMAIN rows[s] # {} \/ snap[s] # NoSnapshot) <=> CommittedVersion(s) > 0
  BY Zenon DEF ListedIffCommitted, AllIds
<1>1. PICK lo \in Nat, v \in Nat : Sound(policy[s], rows[s], snap[s], lo, v) /\ CommittedVersion(s) = v
  BY Zenon, Version DEF StoreInv
<1>2. DOMAIN rows[s] = lo + 1..v /\ snap[s].last \in lo..v /\ (snap[s] # NoSnapshot => v > 0)
  BY Zenon, <1>1 DEF Sound
<1>3. DOMAIN rows[s] # {} => v > 0
  BY <1>2
<1>4. ASSUME v > 0, snap[s].last = 0 PROVE DOMAIN rows[s] # {}
  <2>1. v \in lo + 1..v
    BY <1>2, <1>4
  <2> QED
    BY Zenon, <1>2, <2>1
<1>5. NoSnapshot.last = 0
  BY DEF NoSnapshot, StoredSnapshot
<1> QED
  BY Zenon, <1>1, <1>2, <1>3, <1>4, <1>5

\* What a stream's durable rows say is the fold of its version.
LEMMA SoundDurable ==
    ASSUME NEW p, NEW r, NEW sn, \E lo \in Nat, v \in Nat : Sound(p, r, sn, lo, v)
    PROVE  /\ Greatest(DOMAIN r \cup {sn.last}) \in Nat
           /\ DurableOf(r, sn) = FoldOf(Greatest(DOMAIN r \cup {sn.last}))
<1>1. PICK lo \in Nat, v \in Nat : Sound(p, r, sn, lo, v)
  BY Zenon
<1>2. Greatest(DOMAIN r \cup {sn.last}) = v
  BY SMT, <1>1, VersionIs
<1>3. DurableOf(r, sn) = FoldOf(v)
  BY SMT, <1>1, DurableIs
<1> QED
  BY Zenon, <1>2, <1>3

\* DurableState is the fold of the committed version.
LEMMA InvDurable ==
    ASSUME StreamInv, NEW s \in Stream
    PROVE  CommittedVersion(s) \in Nat /\ DurableState(s) = FoldOf(CommittedVersion(s))
<1>1. /\ Greatest(DOMAIN rows[s] \cup {snap[s].last}) \in Nat
      /\ DurableOf(rows[s], snap[s]) = FoldOf(Greatest(DOMAIN rows[s] \cup {snap[s].last}))
  BY Zenon, SoundDurable DEF StreamInv
<1> QED
  BY Zenon, <1>1 DEF DurableState, DurableOf, After, RowsAfter, CommittedVersion

\* The same once the step is taken.
LEMMA InvDurableNext ==
    ASSUME StreamInv', NEW s \in Stream
    PROVE  CommittedVersion(s)' \in Nat /\ DurableState(s)' = FoldOf(CommittedVersion(s)')
<1>1. /\ Greatest(DOMAIN rows'[s] \cup {snap'[s].last}) \in Nat
      /\ DurableOf(rows'[s], snap'[s]) = FoldOf(Greatest(DOMAIN rows'[s] \cup {snap'[s].last}))
  BY Zenon, SoundDurable DEF StreamInv
<1> QED
  BY Zenon, <1>1 DEF DurableState, DurableOf, After, RowsAfter, CommittedVersion

(* The refinement of EntityStore.                                          *)

\* Versions and states of a database without commits.
LEMMA EntitiesInit ==
    ASSUME Init, StreamInv
    PROVE  Entities!Init
<1>1. ASSUME NEW s \in Stream
      PROVE  CommittedVersion(s) = 0 /\ DurableState(s) = Entities!FoldOf(0)
  <2>1. rows[s] = <<>> /\ snap[s] = NoSnapshot
    BY Zenon DEF Init
  <2>2. DOMAIN rows[s] \cup {snap[s].last} = (0 + 1..0) \cup {0} /\ 0 \in Nat /\ 0 \in 0..0
    BY <2>1 DEF NoSnapshot, StoredSnapshot
  <2>3. CommittedVersion(s) = 0
    BY Zenon, <2>2, Topmost DEF CommittedVersion
  <2> QED
    BY Zenon, <2>3, InvDurable DEF FoldOf, Entities!FoldOf, Uninitialized
<1>2. jobs = {}
  BY Zenon DEF Init
<1> QED
  BY Zenon, <1>1, <1>2 DEF Entities!Init

\* Every step that has the effect of a commit, of a job or none refines a step
\* of EntityStore.
LEMMA EntitiesNext ==
    ASSUME StreamInv, StreamInv', StoreEffect
    PROVE  [Entities!Next]_<<[s \in Stream |-> CommittedVersion(s)],
                             [s \in Stream |-> DurableState(s)], jobs>>
<1> DEFINE version == [s \in Stream |-> CommittedVersion(s)]
           state == [s \in Stream |-> DurableState(s)]
<1>1. ASSUME NEW s \in Stream
      PROVE  /\ CommittedVersion(s) \in Nat /\ DurableState(s) = FoldOf(CommittedVersion(s))
             /\ CommittedVersion(s)' \in Nat /\ DurableState(s)' = FoldOf(CommittedVersion(s)')
  BY Zenon, InvDurable, InvDurableNext
<1>2. ASSUME AtRest PROVE version' = version /\ state' = state
  BY Zenon, <1>1, <1>2 DEF AtRest
<1>3. ASSUME NEW s \in Stream, NEW k \in 1..MaxBatch, Advances(s, k)
      PROVE  /\ version' = [version EXCEPT ![s] = @ + k]
             /\ state' = [state EXCEPT ![s] = Entities!FoldOf(version[s] + k)]
  <2>1. ASSUME NEW t \in Stream
        PROVE  CommittedVersion(t)' = IF t = s THEN CommittedVersion(t) + k ELSE CommittedVersion(t)
    <3>1. CommittedVersion(t)' = CommittedVersion(t) + (IF t = s THEN k ELSE 0)
      BY Zenon, <1>3 DEF Advances
    <3> QED
      BY <1>1, <3>1
  <2>2. \A n : FoldOf(n) = Entities!FoldOf(n)
    BY Zenon DEF FoldOf, Entities!FoldOf, Uninitialized, Live
  <2> QED
    BY Zenon, <1>1, <2>1, <2>2
<1>4. ASSUME NEW s \in Stream, NEW k \in 1..MaxBatch, Advances(s, k),
             NEW intent \in {{}} \cup {{j} : j \in Job \ jobs}, jobs' = jobs \cup intent
      PROVE  Entities!Next
  <2>1. Entities!Commit(s, k, intent)
    BY Zenon, <1>3, <1>4 DEF Entities!Commit
  <2> QED
    BY Zenon, <2>1 DEF Entities!Next
<1>5. ASSUME AtRest, NEW j \in Job \ jobs, jobs' = jobs \cup {j}
      PROVE  Entities!Next
  <2>1. Entities!Enqueue(j)
    BY Zenon, <1>2, <1>5 DEF Entities!Enqueue
  <2> QED
    BY Zenon, <2>1 DEF Entities!Next
<1> QED
  BY Zenon, <1>2, <1>4, <1>5 DEF StoreEffect
=============================================================================

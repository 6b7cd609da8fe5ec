---------------------------- MODULE EntityStore ----------------------------
(***************************************************************************)
(* What the event store promises its callers, with no word of rows,        *)
(* snapshots, compaction, schema versions or processes: every stream has a *)
(* version and an entity state, a commit moves both forward together by    *)
(* the events it carries, a job intent becomes a job exactly when the      *)
(* commit that carries it does, and nothing else changes any of the three. *)
(***************************************************************************)
EXTENDS Naturals

CONSTANTS Stream, Job, MaxBatch

VARIABLES version,   \* version[s]: the number of events committed to s
          state,     \* state[s]: the entity the events of s fold to
          jobs       \* the jobs that exist

\* A stream is born uninitialized; one event or more makes it a live entity
\* that has absorbed exactly its version's events.
FoldOf(v) == IF v = 0 THEN [tag |-> "Uninitialized", n |-> 0]
                      ELSE [tag |-> "Live", n |-> v]

Init == /\ version = [s \in Stream |-> 0]
        /\ state = [s \in Stream |-> FoldOf(0)]
        /\ jobs = {}

\* One command: its events, and the job intent it carries, all or nothing.
Commit(s, k, intent) ==
    /\ jobs' = jobs \cup intent
    /\ version' = [version EXCEPT ![s] = @ + k]
    /\ state' = [state EXCEPT ![s] = FoldOf(version[s] + k)]

Enqueue(j) == /\ jobs' = jobs \cup {j}
              /\ UNCHANGED <<version, state>>

Next == \/ \E s \in Stream, k \in 1..MaxBatch :
              \E intent \in {{}} \cup {{j} : j \in Job \ jobs} : Commit(s, k, intent)
        \/ \E j \in Job \ jobs : Enqueue(j)

Spec == Init /\ [][Next]_<<version, state, jobs>>
=============================================================================

---------------------------- MODULE MCEventStore ----------------------------
(***************************************************************************)
(* Small instances of the event store.                                     *)
(***************************************************************************)
EXTENDS EventStore, TLC

\* A compactable type is on record before anything is compacted; a retained
\* one is new.
OnRecord == [p \in {"Retain", "CompactAfterSnapshot"} |-> IF p = "Retain" THEN 0 ELSE 1]
=============================================================================

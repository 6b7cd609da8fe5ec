------------------------------- MODULE MCAbi -------------------------------
(***************************************************************************)
(* Small instances of the C ABI over the event store.                      *)
(***************************************************************************)
EXTENDS Abi, TLC

\* A compactable type is on record before anything is compacted; a retained
\* one is new.
OnRecord == [p \in {"Retain", "CompactAfterSnapshot"} |-> IF p = "Retain" THEN 0 ELSE 1]
=============================================================================

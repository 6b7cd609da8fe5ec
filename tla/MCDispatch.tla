----------------------------- MODULE MCDispatch -----------------------------
(***************************************************************************)
(* A small instance of the dispatch of jobs by entities.                   *)
(***************************************************************************)
EXTENDS Dispatch
=============================================================================

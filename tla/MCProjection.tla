---------------------------- MODULE MCProjection ----------------------------
(***************************************************************************)
(* Small instances of the projection and of a reactor.  The two share no   *)
(* variable, so what holds of each holds of every interleaving, and each   *)
(* is explored while the other is at rest.                                 *)
(***************************************************************************)
EXTENDS Projection, Reactors

mcVars == <<vars, reactorVars>>

MCInit == Init /\ ReactorsInit

MCNext == \/ ReactorsInit /\ Next /\ UNCHANGED reactorVars
          \/ Init /\ ReactorsNext /\ UNCHANGED vars

MCSpec == MCInit /\ [][MCNext]_mcVars /\ Fairness
=============================================================================

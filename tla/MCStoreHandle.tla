---------------------------- MODULE MCStoreHandle ----------------------------
(* StoreHandle on a small instance: three threads, one cell reopened once. *)
EXTENDS StoreHandle

CONSTANTS c1, s1, s2, t1, t2, t3

=============================================================================

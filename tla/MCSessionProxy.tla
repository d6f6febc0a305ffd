---------------------------- MODULE MCSessionProxy ----------------------------
(* SessionProxy for TLC.  Application threads and actions are interchangeable. *)
EXTENDS SessionProxy, TLC

Symmetry == Permutations(AppThreads) \cup Permutations(Actions)
==============================================================================

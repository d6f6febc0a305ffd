---------------------------- MODULE MCBeaconSending ----------------------------
(* BeaconSending for TLC.  Sessions are interchangeable. *)
EXTENDS BeaconSending, TLC

Symmetry == Permutations(Sessions)
==============================================================================

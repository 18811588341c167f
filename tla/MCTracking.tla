----------------------------- MODULE MCTracking -----------------------------
(***************************************************************************)
(* A device, a neighbour that may take its address, and two addresses,     *)
(* which nothing tells apart: the properties are invariants, and neither   *)
(* they nor the actions prefer one of the two.                             *)
(***************************************************************************)
EXTENDS Tracking

EitherAddress == Permutations(IPs)
=============================================================================

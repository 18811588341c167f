------------------------------ MODULE MCStore -------------------------------
(***************************************************************************)
(* The store on a small instance, given in StoreUsers.cfg: two host names  *)
(* and one device, so that every case of a rename, of a label and of a     *)
(* scan against them occurs, under fairness.                               *)
(***************************************************************************)
EXTENDS Store
=============================================================================

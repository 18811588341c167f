---------------------------- MODULE MCLifecycle -----------------------------
(***************************************************************************)
(* The process on a small instance: one device that scans see without an   *)
(* address, one name and one vendor to learn, two times.                   *)
(***************************************************************************)
EXTENDS Lifecycle
=============================================================================

--------------------------- MODULE MCStoreErrors ---------------------------
(***************************************************************************)
(* The store with one more history variable: the mappings as they were     *)
(* when the operation that holds the mutex began.                          *)
(***************************************************************************)
EXTENDS Store

VARIABLE before

ErrInit == Init /\ before = NoMappings
ErrNext == Next /\ before' = IF pc = "idle" THEN mappings ELSE before
ErrSpec == ErrInit /\ [][ErrNext]_<<vars, before>>

\* "UpdateMapping modifies an existing mapping, including renaming it,
\* atomically": a rename that is answered with an error has changed nothing.
RenameAllOrNothing ==
  [][Renaming(want) /\ pc \in {"write", "rename"} /\ pc' = "idle"
       => mappings' = before]_<<vars, before>>
=============================================================================

--------------------------- MODULE MCSharedStore ---------------------------
(* Instances of SharedStore for TLC.                                       *)
EXTENDS SharedStore
=============================================================================

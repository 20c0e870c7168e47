----------------------------- MODULE MCReallocation -----------------------------
(* Small instances of Reallocation. *)
EXTENDS Reallocation, TLC
=============================================================================

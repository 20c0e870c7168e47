------------------------------ MODULE MCPublisher ------------------------------
(* Small instances of Publisher. *)
EXTENDS Publisher
=============================================================================

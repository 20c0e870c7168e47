--------------------------- MODULE MCScalarRollup ---------------------------
(* Small instances of ScalarRollup. *)
EXTENDS ScalarRollup
=============================================================================

---------------------------- MODULE MCAcquisition ----------------------------
(* Small instances of Acquisition. *)
EXTENDS Acquisition

\* A payload that fits twice but not a third time, although the check before the
\* read still passes, and one that is larger than the whole spool.
MCSizes == {2, 6}
=============================================================================

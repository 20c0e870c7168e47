------------------------------- MODULE MCDataBuf -------------------------------
(* Small instances of DataBuf. *)
EXTENDS DataBuf, TLC

MCBodySize == "real_time" :> 1 @@ "event" :> 2
MCSampleWidth == "sample_8" :> 1

\* Both sides of the seam at 4 of a ring of 8, more than the window apart.
MCInstants == {1, 3, 4, 5}
=============================================================================

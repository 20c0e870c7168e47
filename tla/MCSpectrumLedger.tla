--------------------------- MODULE MCSpectrumLedger ---------------------------
(* Small instances of SpectrumLedger. *)
EXTENDS SpectrumLedger

Answer(d, k, n, x, y, z) ==
  [duration |-> d, calibration |-> k, channels |-> n, counts |-> <<x, y, z>>]

\* Growth, growth without duration, a count regression, a reset, another
\* calibration, another channel count, and a count the encoding rejects.
MCReadings ==
  {Answer(0, "k1", 2, 0, 0, 0),
   Answer(1, "k1", 2, 1, 0, 0),
   Answer(1, "k1", 2, 1, 2, 0),
   Answer(2, "k1", 2, 3, 1, 0),
   Answer(2, "k2", 2, 1, 1, 0),
   Answer(2, "k1", 3, 1, 1, 1),
   Answer(4, "k1", 2, 4, 0, 0)}

MCFewAudits == {Answer(2, "k2", 2, 1, 1, 0)}

\* The instances with findings: a detector that counts on, and is reset.
MCFewReadings ==
  {Answer(0, "k1", 2, 0, 0, 0), Answer(1, "k1", 2, 1, 0, 0),
   Answer(2, "k1", 2, 1, 1, 0), Answer(3, "k1", 2, 2, 1, 0)}

MCNoAudits == {}
MCCalibrations == {"k1", "k2"}
MCExpected == {2}
=============================================================================

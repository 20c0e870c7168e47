-------------------------- MODULE MCSpectrumRollup --------------------------
(* Small instances of SpectrumRollup. *)
EXTENDS SpectrumRollup

\* Epochs are only compared for equality.
MCSymmetry == Permutations(Epochs)
=============================================================================

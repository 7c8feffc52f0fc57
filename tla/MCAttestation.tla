---------------------------- MODULE MCAttestation ---------------------------
(* Attestation for TLC: clocks that agree, run ahead, lag, and lag by more   *)
(* than the maximal age; a maximal age of 0, which means the default.        *)
EXTENDS Attestation, TLC

MCMaxAges == {0, 2}
MCSymmetry == Permutations(Challenges)
MCSkews == {-3, 0, 1}
=============================================================================

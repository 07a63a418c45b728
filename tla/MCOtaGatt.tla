----------------------------- MODULE MCOtaGatt -----------------------------
(* OtaGatt for TLC: packet 0 has a 0 bit w in its first word, the other      *)
(* packets may have it or not, so that some can be programmed over packet 0. *)
EXTENDS OtaGatt

CONSTANT w
MCBits == {w}

\* The hypothesis of the theorems of OtaGatt_proofs holds of these values.
ASSUME MCHypotheses == HeadSeen
=============================================================================

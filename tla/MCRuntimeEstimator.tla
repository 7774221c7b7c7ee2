-------------------------- MODULE MCRuntimeEstimator --------------------------
(* RuntimeEstimator for TLC. *)
EXTENDS RuntimeEstimator
\* Both directions, and a current inside the idle band that is not zero.
MCAmps == {-3, 1, 2}
=============================================================================

---------------------------- MODULE MCTrustBundle ----------------------------
(* Instances of TrustBundle for TLC. *)
EXTENDS TrustBundle

CONSTANTS v1, v2, v3

\* Lists of key files, as --validator options are given.
SpareSigners == {<<v1, v2>>, <<v1, v2, v3>>}
=============================================================================

---------------------------- MODULE MCBundleSync ----------------------------
(* Instances of BundleSync for TLC. *)
EXTENDS BundleSync, TLC

\* DIDs and handlers are interchangeable, and so are tabs; only runs
\* without liveness properties use this.
Symmetry == Permutations(Did) \cup Permutations(Tab) \cup Permutations(Slot)
=============================================================================

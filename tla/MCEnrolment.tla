------------------------------ MODULE MCEnrolment ------------------------------
(* Small instances of Enrolment for TLC. *)
EXTENDS Enrolment, TLC

\* Identifiers, validators, threads and processes are interchangeable.
Symmetry == Permutations(Validator) \cup Permutations(Credential)
            \cup Permutations(Challenge) \cup Permutations(Request)
            \cup Permutations(Handler) \cup Permutations(Process)
================================================================================

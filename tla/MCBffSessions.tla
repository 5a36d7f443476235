----------------------------- MODULE MCBffSessions -----------------------------
(* Small instances of BffSessions for TLC. *)
EXTENDS BffSessions, TLC

\* A bundle that lists every DID, and one that lists none.
OnOffBundles == {DID, {}}

\* Only a bundle that lists every DID: for runs about something else.
OnBundle == {DID}

\* Identifiers and threads are interchangeable.
Symmetry == Permutations(Challenge) \cup Permutations(RefreshToken)
            \cup Permutations(Jti) \cup Permutations(Thread)
================================================================================

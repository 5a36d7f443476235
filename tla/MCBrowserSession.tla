--------------------------- MODULE MCBrowserSession ---------------------------
(* Instances of BrowserSession for TLC. *)
EXTENDS BrowserSession

\* The identifier of a token that nobody holds any more stands for a new one, so
\* that a few identifiers allow for endless refreshes.
Recycle(j) ==
    /\ owner[j] # None
    /\ storage.session # j
    /\ \A c \in Call : call[c].jti # j
    /\ owner' = [owner EXCEPT ![j] = None]
    /\ UNCHANGED <<state, minting, storage, timer, call, history>>

MCSpec == Init /\ [][Next \/ \E j \in Jti : Recycle(j)]_vars /\ Fairness
===============================================================================

---------------------------- MODULE SessionRegistry ----------------------------
(***************************************************************************)
(* What the BFF promises about sessions, without its tables, clocks and    *)
(* checks (bff/session.py, bff/main.py).  A session, named by its refresh  *)
(* token, is opened once and closed once.  A handler that opens one, or    *)
(* finds one open, may from then on mint one session token for it, even    *)
(* if the session is closed meanwhile.  A token is minted once and belongs *)
(* to one session.                                                         *)
(*                                                                         *)
(* BffSessions implements this module; BrowserSession is its client.       *)
(***************************************************************************)
CONSTANTS RefreshToken,  \* the refresh tokens ever drawn: one per session
          Jti,           \* the session tokens ever minted
          Thread,        \* the handlers that serve logins and refreshes
          None           \* no session

VARIABLES
    state,    \* each session: not yet opened, open or closed
    minting,  \* the session each handler may mint a token for
    owner     \* the session each token was minted for

registry == <<state, minting, owner>>

Init ==
    /\ state = [t \in RefreshToken |-> "fresh"]
    /\ minting = [h \in Thread |-> None]
    /\ owner = [j \in Jti |-> None]

\* issue_refresh_token.
Open(h, t) ==
    /\ minting[h] = None
    /\ state[t] = "fresh"
    /\ state' = [state EXCEPT ![t] = "open"]
    /\ minting' = [minting EXCEPT ![h] = t]
    /\ UNCHANGED owner

\* Mutant of Begin: the row of a closed session is found as well.
BeginEver(h, t) ==
    /\ minting[h] = None
    /\ state[t] # "fresh"
    /\ minting' = [minting EXCEPT ![h] = t]
    /\ UNCHANGED <<state, owner>>

\* consume_refresh_token finds the session's row.
Begin(h, t) ==
    /\ minting[h] = None
    /\ state[t] = "open"
    /\ minting' = [minting EXCEPT ![h] = t]
    /\ UNCHANGED <<state, owner>>

\* issue_session_token.
Mint(h, j) ==
    /\ minting[h] # None
    /\ owner[j] = None
    /\ owner' = [owner EXCEPT ![j] = minting[h]]
    /\ minting' = [minting EXCEPT ![h] = None]
    /\ UNCHANGED state

\* Handlers give up or die, and sessions are closed: a 401, a logout, a
\* revocation, an expiry, a restart.
Drop(gone, closed) ==
    /\ minting' = [h \in Thread |-> IF h \in gone THEN None ELSE minting[h]]
    /\ state' = [t \in RefreshToken |->
                    IF t \in closed /\ state[t] = "open" THEN "closed" ELSE state[t]]
    /\ UNCHANGED owner

Next ==
    \/ \E h \in Thread :
          \/ \E t \in RefreshToken : Open(h, t) \/ Begin(h, t)
          \/ \E j \in Jti : Mint(h, j)
    \/ \E gone \in SUBSET Thread, closed \in SUBSET RefreshToken : Drop(gone, closed)

Spec == Init /\ [][Next]_registry
================================================================================

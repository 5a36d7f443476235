------------------------------ MODULE BffSessions ------------------------------
(***************************************************************************)
(* Login, refresh, logout and session revocation in the BFF                *)
(* (bff/main.py, bff/session.py: SqliteSessionStore, bff/bundle_cache.py). *)
(*                                                                         *)
(* FastAPI runs every handler in a thread of its pool, so requests overlap.*)
(* A handler is atomic only inside one `with self._lock` block: here every *)
(* such block (and every look at the bundle cache) is one action, and the  *)
(* handler's local variables between two blocks live in req[h].            *)
(*                                                                         *)
(* The process clock is read outside the lock.  A reading made between two *)
(* steps of a handler is any second between them: since[h] .. now; the one *)
(* a request makes before its first block is as old as it waited there.    *)
(***************************************************************************)
EXTENDS Naturals

CONSTANTS DID,              \* the DIDs with a promoted enrolment file
          Challenge,        \* the 32-byte login challenges ever drawn
          RefreshToken,     \* the 32-byte refresh tokens ever drawn
          Jti,              \* the uuid4 identifiers of session tokens
          Thread,           \* the worker threads of the pool
          Bundle,           \* the sets of DIDs of the trust bundles the cache may load
          None,             \* no row, no identifier
          ChallengeTtl,     \* 60 in the code
          SessionLifetime,  \* SESSION_LIFETIME_SECONDS
          RefreshLifetime,  \* REFRESH_LIFETIME_SECONDS
          LockWait,         \* the longest that a request's first block waits for the lock
          MaxTime           \* the last second the clock shows

ChallengeInfo == [did: DID, expires: Nat]
SessionInfo   == [did: DID, expires: Nat, challenge: Challenge]
JwtPayload    == [did: DID, expires: Nat, session: RefreshToken]

ASSUME LifetimeAssumption ==
    /\ ChallengeTtl \in Nat
    /\ SessionLifetime \in Nat
    /\ RefreshLifetime \in Nat
    /\ LockWait \in Nat
    /\ MaxTime \in Nat

ASSUME BundleAssumption == Bundle \subseteq SUBSET DID

ASSUME NoneAssumption ==
    /\ None \notin Challenge \cup RefreshToken \cup Jti
    /\ None \notin Nat
    /\ None \notin Bundle
    /\ None \notin ChallengeInfo \cup SessionInfo \cup JwtPayload

VARIABLES
    now,            \* int(time.time())
    cache,          \* BundleCache._bundle
    challengeInfo,  \* what create_challenge stored under each challenge
    challenges,     \* the rows of table challenges
    session,        \* what issue_refresh_token stored under each token
    refreshRows,    \* the rows of table refresh_tokens
    lastJti,        \* their column last_jti
    jwt,            \* the session tokens signed so far
    delivered,      \* those that reached the client in a response
    blocklist,      \* table jti_blocklist: original_exp of each row
    req,            \* the request each thread is serving
    \* History, which no handler reads:
    latest,         \* the token each session minted last
    revoked,        \* sessions whose row a revocation handler has deleted
    raced           \* sessions with a mint in flight beside a revocation

tables == <<challengeInfo, challenges, session, refreshRows, lastJti, blocklist>>
tokens == <<jwt, delivered, latest>>
vars == <<now, cache, tables, tokens, req, revoked, raced>>

--------------------------------------------------------------------------------
(* The handlers' program counters.  A login runs loginCheck, issueRefresh,  *)
(* issueSession, respond; a refresh refreshCheck, issueSession, respond; a  *)
(* revocation authCheck, revokeSelect, revokeBlock, revokeDelete,           *)
(* revokeReply.                                                             *)
Pc == {"idle", "loginCheck", "issueRefresh", "refreshCheck", "issueSession",
       "respond", "authCheck", "revokeSelect", "revokeBlock", "revokeDelete",
       "revokeReply"}

Request == [pc: Pc,
            since: Nat,                          \* earliest next clock reading
            challenge: Challenge \cup {None},    \* login: the one consumed
            session: RefreshToken \cup {None},   \* the session acted upon
            jti: Jti \cup {None},                \* minted, or the caller's
            last: Jti \cup {None}]               \* revoke_session's last_jti

Idle == [pc |-> "idle", since |-> 0, challenge |-> None, session |-> None,
         jti |-> None, last |-> None]

\* The seconds a clock reading of thread h may show, the reading lying
\* somewhere between the handler's previous step and this one.
ClockReading(h) == req[h].since .. now

\* The same for the first step of a handler.
FirstReading == {at \in 0 .. now : now - at <= LockWait}

At(h, pc) == req[h].pc = pc

\* is_did_active: no look at the bundle's expiry, quorum or signatures.
IsDidActive(d) == cache # None /\ d \in cache

\* is_jti_revoked, with the clock showing `at'.
BlockedAt(j, at) == blocklist[j] # None /\ blocklist[j] > at

\* jose.jwt.decode accepts a token up to and including its exp.
Decodes(j, at) == at <= jwt[j].expires

\* What a read-only protected endpoint answering at this instant decides.
Accepted(j) == j \in delivered /\ Decodes(j, now) /\ ~BlockedAt(j, now)

\* The refresh tokens clients hold: they arrive in a login's response.
Held == {t \in RefreshToken : \E j \in delivered : jwt[j].session = t}

\* Handlers that will mint a session token for session t.
Minting(h, t) == req[h].pc \in {"refreshCheck", "issueSession"} /\ req[h].session = t
MintInFlight(t) == \E h \in Thread : Minting(h, t)

\* Handlers inside revoke_session on session t.
Revoking(h, t) ==
    /\ req[h].pc \in {"revokeSelect", "revokeBlock", "revokeDelete"}
    /\ req[h].session = t
RevokeInFlight(t) == \E h \in Thread : Revoking(h, t)

RacedIf(cond, t) == raced' = IF cond THEN raced \cup {t} ELSE raced

DeleteRefreshRow(t) ==
    /\ refreshRows' = refreshRows \ {t}
    /\ lastJti' = [lastJti EXCEPT ![t] = None]

--------------------------------------------------------------------------------
Init ==
    /\ now = 0
    /\ cache \in Bundle \cup {None}
    /\ challengeInfo = [c \in Challenge |-> None]
    /\ challenges = {}
    /\ session = [t \in RefreshToken |-> None]
    /\ refreshRows = {}
    /\ lastJti = [t \in RefreshToken |-> None]
    /\ jwt = [j \in Jti |-> None]
    /\ delivered = {}
    /\ blocklist = [j \in Jti |-> None]
    /\ req = [h \in Thread |-> Idle]
    /\ latest = [t \in RefreshToken |-> None]
    /\ revoked = {}
    /\ raced = {}

\* create_challenge: 32 fresh random bytes, and the clock, before the lock.
CreateChallenge(c, d) ==
    /\ challengeInfo[c] = None
    /\ \E at \in FirstReading :
          challengeInfo' = [challengeInfo EXCEPT
                               ![c] = [did |-> d, expires |-> at + ChallengeTtl]]
    /\ challenges' = challenges \cup {c}

\* POST /login/start: a fresh challenge for an enrolled DID.
LoginStart(d) ==
    \E c \in Challenge :
        /\ CreateChallenge(c, d)
        /\ UNCHANGED <<now, cache, session, refreshRows, lastJti, blocklist,
                       tokens, req, revoked, raced>>

\* Mutant of ConsumeChallenge: the row is read but not deleted.
PeekChallenge(c) == c \in challenges /\ UNCHANGED challenges

\* consume_challenge: the row goes in the transaction that reads it, expired or
\* not.
ConsumeChallenge(c) == c \in challenges /\ challenges' = challenges \ {c}

\* POST /login/complete up to is_did_active: the challenge is unexpired, names
\* the body's DID, and the assertion verifies.
LoginComplete(h, c) ==
    /\ At(h, "idle")
    /\ ConsumeChallenge(c)
    /\ \E at \in FirstReading : at <= challengeInfo[c].expires
    /\ req' = [req EXCEPT ![h] = [Idle EXCEPT !.pc = "loginCheck",
                                              !.since = now,
                                              !.challenge = c]]
    /\ UNCHANGED <<now, cache, challengeInfo, session, refreshRows, lastJti,
                   blocklist, tokens, revoked, raced>>

\* The same request answered 401 (expired, other DID, bad assertion): the
\* challenge is spent all the same.
LoginRejected(c) ==
    /\ ConsumeChallenge(c)
    /\ UNCHANGED <<now, cache, challengeInfo, session, refreshRows, lastJti,
                   blocklist, tokens, req, revoked, raced>>

\* The DID a login or refresh asks the bundle cache about.
CheckedDid(h) == IF At(h, "loginCheck") THEN challengeInfo[req[h].challenge].did
                                        ELSE session[req[h].session].did

\* Mutant of CheckDid: a refresh does not ask the bundle again.
CheckDidAtLoginOnly(h) ==
    /\ At(h, "loginCheck") \/ At(h, "refreshCheck")
    /\ req' = [req EXCEPT ![h] =
                  IF At(h, "refreshCheck")
                  THEN [req[h] EXCEPT !.pc = "issueSession", !.since = now]
                  ELSE IF IsDidActive(CheckedDid(h))
                       THEN [req[h] EXCEPT !.pc = "issueRefresh", !.since = now]
                       ELSE Idle]
    /\ UNCHANGED <<now, cache, tables, tokens, revoked, raced>>

\* login_complete and login_refresh: is_did_active, 401 when it is not.
CheckDid(h) ==
    /\ \/ At(h, "loginCheck")
       \/ At(h, "refreshCheck")
    /\ req' = [req EXCEPT ![h] =
                  IF IsDidActive(CheckedDid(h))
                  THEN [req[h] EXCEPT !.pc = IF At(h, "loginCheck")
                                             THEN "issueRefresh"
                                             ELSE "issueSession",
                                      !.since = now]
                  ELSE Idle]
    /\ UNCHANGED <<now, cache, tables, tokens, revoked, raced>>

\* login_complete: issue_refresh_token inserts a row with an empty last_jti.
IssueRefreshToken(h) ==
    /\ At(h, "issueRefresh")
    /\ \E t \in RefreshToken, at \in ClockReading(h) :
          /\ session[t] = None
          /\ session' = [session EXCEPT
                ![t] = [did |-> challengeInfo[req[h].challenge].did,
                        expires |-> at + RefreshLifetime,
                        challenge |-> req[h].challenge]]
          /\ refreshRows' = refreshRows \cup {t}
          /\ req' = [req EXCEPT ![h] = [Idle EXCEPT !.pc = "issueSession",
                                                    !.since = now,
                                                    !.session = t]]
    /\ UNCHANGED <<now, cache, challengeInfo, challenges, lastJti, blocklist,
                   tokens, revoked, raced>>

\* Mutants of IssueSessionToken: last_jti is written at login only; the row is
\* written back (INSERT OR REPLACE) instead of updated.
MintWith(h, WritesJti(_), rows) ==
    LET t == req[h].session IN
    /\ At(h, "issueSession")
    /\ \E j \in Jti, at \in ClockReading(h) :
          /\ jwt[j] = None
          /\ jwt' = [jwt EXCEPT ![j] = [did |-> session[t].did,
                                        expires |-> at + SessionLifetime,
                                        session |-> t]]
          /\ lastJti' = IF WritesJti(t) THEN [lastJti EXCEPT ![t] = j] ELSE lastJti
          /\ latest' = [latest EXCEPT ![t] = j]
          /\ req' = [req EXCEPT ![h] = [Idle EXCEPT !.pc = "respond", !.jti = j]]
    /\ refreshRows' = rows
    /\ UNCHANGED <<now, cache, challengeInfo, challenges, session, blocklist,
                   delivered, revoked, raced>>
IssueSessionTokenJtiAtLogin(h) ==
    LET FirstOnly(t) == t \in refreshRows /\ lastJti[t] = None
    IN  MintWith(h, FirstOnly, refreshRows)
IssueSessionTokenUpsert(h) ==
    LET Always(t) == TRUE
    IN  MintWith(h, Always, refreshRows \cup {req[h].session})

\* issue_session_token: sign a token, then UPDATE ... SET last_jti, which
\* touches no row when the session's row has been deleted meanwhile.
IssueSessionToken(h) ==
    LET t == req[h].session IN
    /\ At(h, "issueSession")
    /\ \E j \in Jti, at \in ClockReading(h) :
          /\ jwt[j] = None
          /\ jwt' = [jwt EXCEPT ![j] = [did |-> session[t].did,
                                        expires |-> at + SessionLifetime,
                                        session |-> t]]
          /\ lastJti' = IF t \in refreshRows THEN [lastJti EXCEPT ![t] = j]
                                             ELSE lastJti
          /\ latest' = [latest EXCEPT ![t] = j]
          /\ req' = [req EXCEPT ![h] = [Idle EXCEPT !.pc = "respond", !.jti = j]]
    /\ UNCHANGED <<now, cache, challengeInfo, challenges, session, refreshRows,
                   blocklist, delivered, revoked, raced>>

\* The 200 response of a login or a refresh reaches the client.
Respond(h) ==
    /\ At(h, "respond")
    /\ delivered' = delivered \cup {req[h].jti}
    /\ req' = [req EXCEPT ![h] = Idle]
    /\ UNCHANGED <<now, cache, tables, jwt, latest, revoked, raced>>

--------------------------------------------------------------------------------
\* POST /login/refresh: consume_refresh_token reads the row and leaves it.
RefreshConsume(h, t) ==
    /\ At(h, "idle")
    /\ t \in Held
    /\ t \in refreshRows
    /\ \E at \in FirstReading : at <= session[t].expires
    /\ req' = [req EXCEPT ![h] = [Idle EXCEPT !.pc = "refreshCheck",
                                              !.since = now,
                                              !.session = t]]
    /\ RacedIf(RevokeInFlight(t), t)
    /\ UNCHANGED <<now, cache, tables, tokens, revoked>>

\* login_refresh: the second look at the clock finds the token expired.
RefreshExpired(h) ==
    /\ At(h, "refreshCheck")
    /\ now > session[req[h].session].expires
    /\ DeleteRefreshRow(req[h].session)
    /\ req' = [req EXCEPT ![h] = Idle]
    /\ UNCHANGED <<now, cache, challengeInfo, challenges, session, blocklist,
                   tokens, revoked, raced>>

\* POST /login/logout: only the refresh token's row goes.
Logout(t) ==
    /\ t \in Held
    /\ t \in refreshRows
    /\ DeleteRefreshRow(t)
    /\ UNCHANGED <<now, cache, challengeInfo, challenges, session, blocklist,
                   tokens, req, revoked, raced>>

--------------------------------------------------------------------------------
\* DELETE /api/sessions/{id}: decode the caller's token.  A request for a row
\* that is already gone ends in 404 and changes nothing: left out.
RevokeRequest(h, j, t) ==
    /\ At(h, "idle")
    /\ j \in delivered
    /\ Decodes(j, now)
    /\ t \in refreshRows
    /\ req' = [req EXCEPT ![h] = [Idle EXCEPT !.pc = "authCheck",
                                              !.since = now,
                                              !.session = t,
                                              !.jti = j]]
    /\ UNCHANGED <<now, cache, tables, tokens, revoked, raced>>

\* is_jti_revoked on the caller's token: 401 or on to revoke_session.
RevokeAuth(h) ==
    /\ At(h, "authCheck")
    /\ \E at \in ClockReading(h) :
          \/ /\ BlockedAt(req[h].jti, at)
             /\ req' = [req EXCEPT ![h] = Idle]
             /\ raced' = raced
          \/ /\ ~BlockedAt(req[h].jti, at)
             /\ req' = [req EXCEPT ![h] = [req[h] EXCEPT !.pc = "revokeSelect",
                                                         !.since = now]]
             /\ RacedIf(MintInFlight(req[h].session), req[h].session)
    /\ UNCHANGED <<now, cache, tables, tokens, revoked>>

\* revoke_session reads the clock, then all rows; 404 when the row is gone.
\* From here to RevokeBlock, since holds the code's local variable `now'.
RevokeSelect(h) ==
    LET t == req[h].session IN
    /\ At(h, "revokeSelect")
    /\ \E at \in ClockReading(h) :
          req' = [req EXCEPT ![h] =
                     IF t \in refreshRows
                     THEN [req[h] EXCEPT !.pc = IF lastJti[t] = None
                                                THEN "revokeDelete"
                                                ELSE "revokeBlock",
                                         !.since = at,
                                         !.last = lastJti[t]]
                     ELSE Idle]
    /\ UNCHANGED <<now, cache, tables, tokens, revoked, raced>>

\* Mutant of RevokeBlock: the lifetime is subtracted.
RevokeBlockInThePast(h) ==
    LET j == req[h].last IN
    /\ At(h, "revokeBlock")
    /\ blocklist' = IF blocklist[j] = None
                    THEN [blocklist EXCEPT ![j] = req[h].since - SessionLifetime]
                    ELSE blocklist
    /\ req' = [req EXCEPT ![h] = [req[h] EXCEPT !.pc = "revokeDelete"]]
    /\ UNCHANGED <<now, cache, challengeInfo, challenges, session, refreshRows,
                   lastJti, tokens, revoked, raced>>

\* INSERT OR IGNORE INTO jti_blocklist, with the clock as read before.
RevokeBlock(h) ==
    LET j == req[h].last IN
    /\ At(h, "revokeBlock")
    /\ blocklist' = IF blocklist[j] = None
                    THEN [blocklist EXCEPT ![j] = req[h].since + SessionLifetime]
                    ELSE blocklist
    /\ req' = [req EXCEPT ![h] = [req[h] EXCEPT !.pc = "revokeDelete"]]
    /\ UNCHANGED <<now, cache, challengeInfo, challenges, session, refreshRows,
                   lastJti, tokens, revoked, raced>>

\* revoke_refresh_token, the last write of revoke_session.
RevokeDelete(h) ==
    /\ At(h, "revokeDelete")
    /\ DeleteRefreshRow(req[h].session)
    /\ revoked' = revoked \cup {req[h].session}
    /\ req' = [req EXCEPT ![h] = [req[h] EXCEPT !.pc = "revokeReply", !.since = now]]
    /\ UNCHANGED <<now, cache, challengeInfo, challenges, session, blocklist,
                   tokens, raced>>

\* The 200 response, whose self_revoked is is_jti_revoked of the caller's jti.
RevokeReply(h) ==
    /\ At(h, "revokeReply")
    /\ req' = [req EXCEPT ![h] = Idle]
    /\ UNCHANGED <<now, cache, tables, tokens, revoked, raced>>

--------------------------------------------------------------------------------
\* BundleCache._load, from the refresh thread.  A load that fails keeps the
\* bundle it has.
BundleLoad ==
    /\ cache' \in Bundle
    /\ UNCHANGED <<now, tables, tokens, req, revoked, raced>>

\* _prune_expired, with Gone(at) the expiry times whose rows it deletes.
PruneRows(Gone(_)) ==
    LET goneRows == {t \in refreshRows : Gone(session[t].expires)} IN
    /\ challenges' = {c \in challenges : ~Gone(challengeInfo[c].expires)}
    /\ refreshRows' = refreshRows \ goneRows
    /\ lastJti' = [t \in RefreshToken |-> IF t \in goneRows THEN None
                                                            ELSE lastJti[t]]
    /\ blocklist' = [j \in Jti |-> IF blocklist[j] # None /\ Gone(blocklist[j])
                                   THEN None
                                   ELSE blocklist[j]]

\* Mutant of PruneExpired: rows that expire this very second go as well.
PruneExpiring == LET Gone(at) == at <= now IN PruneRows(Gone)

PruneExpired == LET Gone(at) == at < now IN PruneRows(Gone)

\* The process dies at any point and starts again: handlers in flight are
\* gone, the tables are on disk, _prune_expired runs before the first request
\* and the bundle is loaded anew, or not.
Restart ==
    /\ req' = [h \in Thread |-> Idle]
    /\ cache' \in Bundle \cup {None}
    /\ PruneExpired
    /\ UNCHANGED <<now, challengeInfo, session, tokens, revoked, raced>>

Tick ==
    /\ now < MaxTime
    /\ now' = now + 1
    /\ UNCHANGED <<cache, tables, tokens, req, revoked, raced>>

Step(h) ==
    \/ \E c \in Challenge : LoginComplete(h, c)
    \/ CheckDid(h)
    \/ IssueRefreshToken(h)
    \/ IssueSessionToken(h)
    \/ Respond(h)
    \/ \E t \in RefreshToken : RefreshConsume(h, t)
    \/ RefreshExpired(h)
    \/ \E j \in Jti, t \in RefreshToken : RevokeRequest(h, j, t)
    \/ RevokeAuth(h)
    \/ RevokeSelect(h)
    \/ RevokeBlock(h)
    \/ RevokeDelete(h)
    \/ RevokeReply(h)

Next ==
    \/ \E d \in DID : LoginStart(d)
    \/ \E c \in Challenge : LoginRejected(c)
    \/ \E t \in RefreshToken : Logout(t)
    \/ \E h \in Thread : Step(h)
    \/ BundleLoad
    \/ Restart
    \/ Tick

Spec == Init /\ [][Next]_vars

--------------------------------------------------------------------------------
(* Properties *)

ChallengeRow == ChallengeInfo \cup {None}

\* Types; every row of a table has the record it was inserted with.
TypeOK ==
    /\ now \in Nat
    /\ cache \in Bundle \cup {None}
    /\ challengeInfo \in [Challenge -> ChallengeRow]
    /\ challenges \subseteq {c \in Challenge : challengeInfo[c] # None}
    /\ session \in [RefreshToken -> SessionInfo \cup {None}]
    /\ refreshRows \subseteq {t \in RefreshToken : session[t] # None}
    /\ lastJti \in [RefreshToken -> Jti \cup {None}]
    /\ jwt \in [Jti -> JwtPayload \cup {None}]
    /\ delivered \subseteq {j \in Jti : jwt[j] # None}
    /\ blocklist \in [Jti -> Nat \cup {None}]
    /\ req \in [Thread -> Request]
    /\ latest \in [RefreshToken -> Jti \cup {None}]
    /\ revoked \subseteq RefreshToken
    /\ raced \subseteq RefreshToken

\* A challenge opens at most one session, for the DID it was drawn for, however
\* many /login/complete requests present it at once and across restarts
\* (consume_challenge deletes the row in the transaction that reads it).
OneSessionPerChallenge ==
    /\ \A t \in RefreshToken : session[t] # None =>
          /\ session[t].challenge \notin challenges
          /\ session[t].did = challengeInfo[session[t].challenge].did
    /\ \A t, u \in RefreshToken :
          session[t] # None /\ session[u] # None /\ t # u
             => session[t].challenge # session[u].challenge

\* Once revoke_session has deleted a session's row, the token the session minted
\* last is rejected up to its exp (whose own second is left out), whatever other
\* requests, expiries and restarts did before, between or after the INSERT and
\* the DELETE; unless a login or refresh of that session was under way beside
\* the revocation.
RevocationEffective ==
    \A t \in revoked \ raced :
        latest[t] # None /\ now < jwt[latest[t]].expires => BlockedAt(latest[t], now)

\* Logout, expiry and revocation are final: no late UPDATE brings a session's row
\* back, and once the handlers that had read the row are done, no later request
\* mints another session token for the session.
ClosedStaysClosed(t) ==
    session[t] # None /\ t \notin refreshRows =>
        /\ t \notin refreshRows'
        /\ ~MintInFlight(t) => ~MintInFlight(t)' /\ latest'[t] = latest[t]
ClosedForever == [][\A t \in RefreshToken : ClosedStaysClosed(t)]_vars

\* Handlers that is_did_active has let through for DID d.
LetThrough(d) == \E h \in Thread :
    \/ At(h, "issueRefresh") /\ challengeInfo[req[h].challenge].did = d
    \/ At(h, "issueSession") /\ session[req[h].session].did = d

\* Once the cached bundle has dropped a DID and the handlers that had already
\* asked about it are done, neither logins nor refreshes (of sessions opened
\* before) give the DID a token until a later bundle lists it again.
Drained(d) == ~IsDidActive(d) /\ ~LetThrough(d)
MintsNothing(d) == Drained(d) =>
    /\ Drained(d)' \/ IsDidActive(d)'
    /\ \A j \in Jti : jwt[j] = None /\ jwt'[j] # None => jwt'[j].did # d
InactiveDidMintsNothing == [][\A d \in DID : MintsNothing(d)]_vars

UsableChallenges == {c \in challenges : now <= challengeInfo[c].expires}
UsableSessions == {t \in refreshRows : now <= session[t].expires}

\* A restart changes no answer: it keeps every challenge and refresh token that
\* would still be accepted, and revives no revoked session token (the boundaries
\* of _prune_expired against those of the three readers).
RestartKeepsAnswers ==
    [][Restart =>
          /\ UsableChallenges' = UsableChallenges
          /\ UsableSessions' = UsableSessions
          /\ \A j \in Jti : Accepted(j)' = Accepted(j)]_vars

--------------------------------------------------------------------------------
(* The sessions as a client of the BFF knows them *)

\* A session is open as long as its row is there ...
registryState == [t \in RefreshToken |->
    IF session[t] = None THEN "fresh" ELSE IF t \in refreshRows THEN "open" ELSE "closed"]

\* ... and a handler may mint for it from the block that inserts or reads the row
\* to the one that signs a token.
registryMinting == [h \in Thread |->
    IF req[h].pc \in {"refreshCheck", "issueSession"} THEN req[h].session ELSE None]

registryOwner == [j \in Jti |-> IF jwt[j] = None THEN None ELSE jwt[j].session]

Registry == INSTANCE SessionRegistry WITH
    state <- registryState, minting <- registryMinting, owner <- registryOwner

\* The store's blocks, however they interleave, expire and restart, come to no
\* more than opening each session once, closing it for good, and minting tokens
\* for sessions that were open when their handler looked.
ImplementsRegistry == Registry!Spec

--------------------------------------------------------------------------------
(* The inductive invariants behind OneSessionPerChallenge and              *)
(* RevocationEffective.                                                     *)

\* What a handler's local variables refer to exists.
HandlerOK(h) ==
    /\ req[h].since <= now
    /\ req[h].pc \in {"loginCheck", "issueRefresh"} =>
          req[h].challenge # None /\ challengeInfo[req[h].challenge] # None
    /\ req[h].pc \in Pc \ {"idle", "loginCheck", "issueRefresh", "respond"} =>
          req[h].session # None /\ session[req[h].session] # None
    /\ req[h].pc \in {"respond", "authCheck"} =>
          req[h].jti # None /\ jwt[req[h].jti] # None
    /\ req[h].pc = "revokeBlock" =>
          /\ req[h].last # None
          /\ jwt[req[h].last] # None
          /\ jwt[req[h].last].session = req[h].session

\* A session token was signed for a session that exists, in the past.
JwtOK(j) == jwt[j] # None =>
    session[jwt[j].session] # None /\ jwt[j].expires <= now + SessionLifetime

\* A live row's last_jti is the session's latest token.
SessionOK(t) ==
    /\ session[t] # None => challengeInfo[session[t].challenge] # None
    /\ session[t] = None => latest[t] = None /\ lastJti[t] = None
    /\ latest[t] # None => jwt[latest[t]] # None /\ jwt[latest[t]].session = t
    /\ lastJti[t] = IF t \in refreshRows THEN latest[t] ELSE None

LocalsOK ==
    /\ \A h \in Thread : HandlerOK(h)
    /\ \A j \in Jti : JwtOK(j)
    /\ \A t \in RefreshToken : SessionOK(t)

\* A login holds a challenge that no row, session or other login has.
HoldsChallenge(h) == req[h].pc \in {"loginCheck", "issueRefresh"}
ChallengeInv ==
    /\ OneSessionPerChallenge
    /\ \A h \in Thread : HoldsChallenge(h) =>
          /\ req[h].challenge \notin challenges
          /\ \A t \in RefreshToken :
                session[t] # None => session[t].challenge # req[h].challenge
          /\ \A g \in Thread \ {h} :
                HoldsChallenge(g) => req[g].challenge # req[h].challenge

\* Session t minted nothing, or its last token is blocked until its exp, or that
\* token has expired (and _prune_expired may have dropped the row).
LastTokenCovered(t) ==
    latest[t] # None =>
        \/ jwt[latest[t]].expires < now
        \/ /\ blocklist[latest[t]] # None
           /\ jwt[latest[t]].expires <= blocklist[latest[t]]

\* Outside races, every row of the blocklist outlives its token.
BlocklistOK(j) == blocklist[j] # None =>
    jwt[j] # None /\ (jwt[j].session \notin raced => jwt[j].expires <= blocklist[j])

\* Outside races, the clock reading a revocation will write is no older than the
\* last token of its session, which is the one it has read; when it comes to
\* delete the row, that token is covered.
RevokerOK(h, t) == Revoking(h, t) =>
    /\ ~MintInFlight(t)
    /\ latest[t] # None => jwt[latest[t]].expires <= req[h].since + SessionLifetime
    /\ At(h, "revokeBlock") => req[h].last = latest[t]
    /\ At(h, "revokeDelete") => LastTokenCovered(t)

\* Outside races, nothing will mint for a revoked session, and its last token is
\* covered.
RevokedOK(t) ==
    /\ session[t] # None
    /\ t \notin refreshRows
    /\ ~MintInFlight(t)
    /\ LastTokenCovered(t)

RevocationInv ==
    /\ \A j \in Jti : BlocklistOK(j)
    /\ \A h \in Thread, t \in RefreshToken \ raced : RevokerOK(h, t)
    /\ \A t \in revoked \ raced : RevokedOK(t)

--------------------------------------------------------------------------------
(* What the repository's documents promise and the code does not keep *)

\* "A revoked session token MUST be rejected by all protected endpoints immediately
\* after revocation"; "Only the latest in-flight token needs blocking": at least that
\* one is, also when a login or refresh of the session is under way beside the
\* revocation.
LatestTokenBlocked ==
    \A t \in revoked :
        latest[t] # None /\ now < jwt[latest[t]].expires => ~Accepted(latest[t])

================================================================================

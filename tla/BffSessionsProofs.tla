--------------------------- MODULE BffSessionsProofs ---------------------------
(* Proofs about BffSessions, for every value of its constants. *)
EXTENDS BffSessions, TLAPS

USE LifetimeAssumption, BundleAssumption, NoneAssumption

\* A handler that is idle fits the type of a request: Respond and the replies reset to it.
LEMMA IdleIsRequest == Idle \in Request /\ Idle.pc = "idle" /\ Idle.since = 0
  BY DEF Idle, Request, Pc

\* Updating one thread of the function `request' with a typed record keeps its type.
LEMMA RequestUpdate ==
  ASSUME NEW r \in Request, NEW pc \in Pc, NEW at \in Nat, NEW l \in Jti \cup {None}
  PROVE  /\ [r EXCEPT !.pc = pc] \in Request
         /\ [r EXCEPT !.pc = pc, !.since = at] \in Request
         /\ [r EXCEPT !.pc = pc, !.since = at, !.last = l] \in Request
  BY DEF Request

\* The types and what the handlers' locals refer to are one induction: a row
\* can be read only because the local that names it names an existing one.
LEMMA TypeInit == Init => TypeOK /\ LocalsOK
  <1> SUFFICES ASSUME Init PROVE TypeOK /\ LocalsOK
    OBVIOUS
  <1>1. TypeOK
    BY IdleIsRequest DEF Init, TypeOK, ChallengeRow
  <1>2. LocalsOK
    BY IdleIsRequest DEF Init, LocalsOK, HandlerOK, JwtOK, SessionOK, Pc
  <1> QED
    BY <1>1, <1>2

\* Every step keeps the type invariant.
LEMMA TypeStep == TypeOK /\ LocalsOK /\ [Next]_vars => TypeOK'
  <1> SUFFICES ASSUME TypeOK, LocalsOK, [Next]_vars PROVE TypeOK'
    OBVIOUS
  <1> USE DEF TypeOK, ChallengeRow, tables, tokens
  <1>1. ASSUME NEW d \in DID, LoginStart(d) PROVE TypeOK'
    <2>1. PICK c \in Challenge, at \in 0 .. now :
             /\ challengeInfo' = [challengeInfo EXCEPT
                                     ![c] = [did |-> d, expires |-> at + ChallengeTtl]]
             /\ challenges' = challenges \cup {c}
             /\ UNCHANGED <<now, cache, session, refreshRows, lastJti, blocklist,
                            tokens, req, revoked, raced>>
      BY <1>1 DEF LoginStart, CreateChallenge, FirstReading
    <2> DEFINE row == [did |-> d, expires |-> at + ChallengeTtl]
    <2>2. row \in ChallengeInfo
      BY LifetimeAssumption DEF ChallengeInfo
    <2>3. row # None
      BY <2>2, NoneAssumption
    <2> HIDE DEF row
    <2> QED
      BY <2>1, <2>2, <2>3 DEF row
  <1>2. ASSUME NEW c \in Challenge, LoginRejected(c) PROVE TypeOK'
    BY <1>2 DEF LoginRejected, ConsumeChallenge
  <1>3. ASSUME NEW t \in RefreshToken, Logout(t) PROVE TypeOK'
    BY <1>3 DEF Logout, DeleteRefreshRow
  <1>4. ASSUME NEW h \in Thread, NEW c \in Challenge, LoginComplete(h, c) PROVE TypeOK'
    BY <1>4 DEF LoginComplete, ConsumeChallenge, At, Idle, Request, Pc
  <1>5. ASSUME NEW h \in Thread, CheckDid(h) PROVE TypeOK'
    <2>1. req[h] \in Request
      OBVIOUS
    <2>2. \A pc \in Pc : [req[h] EXCEPT !.pc = pc, !.since = now] \in Request
      BY <2>1, RequestUpdate
    <2>3. req' \in [Thread -> Request]
      BY <1>5, <2>2, IdleIsRequest DEF CheckDid, Pc
    <2> QED
      BY <1>5, <2>3 DEF CheckDid
  <1>6. ASSUME NEW h \in Thread, IssueRefreshToken(h) PROVE TypeOK'
    <2>1. PICK t \in RefreshToken, at \in ClockReading(h) : IssueRefreshToken(h)!2!(t, at)
      BY <1>6 DEF IssueRefreshToken
    <2>2. at \in Nat /\ challengeInfo[req[h].challenge] \in ChallengeInfo
      BY <1>6 DEF IssueRefreshToken, At, ClockReading, LocalsOK, HandlerOK, Request
    <2>3. [did |-> challengeInfo[req[h].challenge].did, expires |-> at + RefreshLifetime,
           challenge |-> req[h].challenge] \in SessionInfo
      BY <1>6, <2>2 DEF IssueRefreshToken, At, ChallengeInfo, SessionInfo, LocalsOK, HandlerOK, Request
    <2>4. session' \in [RefreshToken -> SessionInfo \cup {None}]
      BY <2>1, <2>3
    <2>5. refreshRows' \subseteq {u \in RefreshToken : session'[u] # None}
      BY <2>1, <2>3
    <2>6. req' \in [Thread -> Request]
      BY <2>1 DEF Idle, Request, Pc
    <2> QED
      BY <1>6, <2>4, <2>5, <2>6 DEF IssueRefreshToken
  <1>7. ASSUME NEW h \in Thread, IssueSessionToken(h) PROVE TypeOK'
    <2> DEFINE t == req[h].session
    <2>1. PICK j \in Jti, at \in ClockReading(h) : IssueSessionToken(h)!1!2!(j, at)
      BY <1>7 DEF IssueSessionToken
    <2>2. t \in RefreshToken /\ session[t] \in SessionInfo /\ at \in Nat
      BY <1>7 DEF IssueSessionToken, At, ClockReading, LocalsOK, HandlerOK, Request, Pc
    <2>3. [did |-> session[t].did, expires |-> at + SessionLifetime, session |-> t]
             \in JwtPayload
      BY <2>2 DEF SessionInfo, JwtPayload
    <2>4. jwt' \in [Jti -> JwtPayload \cup {None}]
      BY <2>1, <2>3
    <2>5. delivered' \subseteq {i \in Jti : jwt'[i] # None}
      BY <1>7, <2>1, <2>3 DEF IssueSessionToken
    <2>6. req' \in [Thread -> Request]
      BY <2>1 DEF Idle, Request, Pc
    <2>7. lastJti' \in [RefreshToken -> Jti \cup {None}]
      BY <2>1
    <2>8. latest' \in [RefreshToken -> Jti \cup {None}]
      BY <2>1
    <2> QED
      BY <1>7, <2>4, <2>5, <2>6, <2>7, <2>8 DEF IssueSessionToken
  <1>8. ASSUME NEW h \in Thread, Respond(h) PROVE TypeOK'
    BY <1>8, IdleIsRequest DEF Respond, At, Request, Pc, LocalsOK, HandlerOK
  <1>9. ASSUME NEW h \in Thread, NEW t \in RefreshToken, RefreshConsume(h, t) PROVE TypeOK'
    BY <1>9 DEF RefreshConsume, At, Idle, Request, Pc, RacedIf
  <1>10. ASSUME NEW h \in Thread, RefreshExpired(h) PROVE TypeOK'
    BY <1>10, IdleIsRequest DEF RefreshExpired, DeleteRefreshRow
  <1>11. ASSUME NEW h \in Thread, NEW j \in Jti, NEW t \in RefreshToken,
                RevokeRequest(h, j, t)
         PROVE TypeOK'
    BY <1>11 DEF RevokeRequest, At, Idle, Request, Pc
  <1>12. ASSUME NEW h \in Thread, RevokeAuth(h) PROVE TypeOK'
    <2>1. req[h] \in Request /\ req[h].session \in RefreshToken
      BY <1>12 DEF RevokeAuth, At, Request, Pc, LocalsOK, HandlerOK
    <2>2. [req[h] EXCEPT !.pc = "revokeSelect", !.since = now] \in Request
      BY <2>1, RequestUpdate DEF Pc
    <2>3. req' \in [Thread -> Request] /\ raced' \subseteq RefreshToken
      BY <1>12, <2>1, <2>2, IdleIsRequest DEF RevokeAuth, RacedIf
    <2> QED
      BY <1>12, <2>3 DEF RevokeAuth
  <1>13. ASSUME NEW h \in Thread, RevokeSelect(h) PROVE TypeOK'
    <2>1. PICK at \in ClockReading(h) : RevokeSelect(h)!1!2!(at)
      BY <1>13 DEF RevokeSelect
    <2>2. req[h] \in Request /\ at \in Nat
      BY DEF ClockReading, Request
    <2>3. req[h].session \in refreshRows => lastJti[req[h].session] \in Jti \cup {None}
      OBVIOUS
    <2>4. \A pc \in Pc, l \in Jti \cup {None} :
             [req[h] EXCEPT !.pc = pc, !.since = at, !.last = l] \in Request
      BY <2>2, RequestUpdate
    <2>5. req' \in [Thread -> Request]
      BY <2>1, <2>3, <2>4, IdleIsRequest DEF Pc
    <2> QED
      BY <1>13, <2>5 DEF RevokeSelect
  <1>14. ASSUME NEW h \in Thread, RevokeBlock(h) PROVE TypeOK'
    <2>1. req[h] \in Request /\ req[h].since \in Nat /\ req[h].last \in Jti
      BY <1>14 DEF RevokeBlock, At, Request, LocalsOK, HandlerOK
    <2>2. [req[h] EXCEPT !.pc = "revokeDelete"] \in Request
      BY <2>1, RequestUpdate DEF Pc
    <2>3. req' \in [Thread -> Request]
      BY <1>14, <2>2 DEF RevokeBlock
    <2>4. blocklist' \in [Jti -> Nat \cup {None}]
      BY <1>14, <2>1 DEF RevokeBlock
    <2> QED
      BY <1>14, <2>3, <2>4 DEF RevokeBlock
  <1>15. ASSUME NEW h \in Thread, RevokeDelete(h) PROVE TypeOK'
    <2>1. req[h] \in Request /\ req[h].session \in RefreshToken
      BY <1>15 DEF RevokeDelete, At, Request, Pc, LocalsOK, HandlerOK
    <2>2. [req[h] EXCEPT !.pc = "revokeReply", !.since = now] \in Request
      BY <2>1, RequestUpdate DEF Pc
    <2>3. req' \in [Thread -> Request]
      BY <1>15, <2>2 DEF RevokeDelete
    <2> QED
      BY <1>15, <2>1, <2>3 DEF RevokeDelete, DeleteRefreshRow
  <1>16. ASSUME NEW h \in Thread, RevokeReply(h) PROVE TypeOK'
    BY <1>16, IdleIsRequest DEF RevokeReply
  <1>17. CASE BundleLoad
    BY <1>17 DEF BundleLoad
  <1>18. CASE Restart
    BY <1>18, IdleIsRequest DEF Restart, PruneExpired, PruneRows
  <1>19. CASE Tick
    BY <1>19 DEF Tick
  <1>20. CASE UNCHANGED vars
    BY <1>20 DEF vars
  <1> QED
    BY <1>1, <1>2, <1>3, <1>4, <1>5, <1>6, <1>7, <1>8, <1>9, <1>10, <1>11, <1>12,
       <1>13, <1>14, <1>15, <1>16, <1>17, <1>18, <1>19, <1>20 DEF Next, Step

\* What RevokeAuth does, with the two outcomes of is_jti_revoked apart.
LEMMA RevokeAuthStep ==
  ASSUME TypeOK, LocalsOK, NEW h \in Thread, RevokeAuth(h)
  PROVE  /\ UNCHANGED <<now, cache, tables, tokens, revoked>>
         /\ \A g \in Thread \ {h} : req'[g] = req[g]
         /\ req[h].pc = "authCheck" /\ req[h].session \in RefreshToken
         /\ session[req[h].session] # None
         /\ \/ req'[h] = Idle /\ req'[h].pc = "idle" /\ raced' = raced
            \/ /\ req'[h].pc = "revokeSelect"
               /\ req'[h].since = now
               /\ req'[h].session = req[h].session
               /\ raced' = IF MintInFlight(req[h].session)
                           THEN raced \cup {req[h].session} ELSE raced
  <1>1. req[h] \in Request /\ req[h].pc = "authCheck" /\ HandlerOK(h)
    BY DEF TypeOK, LocalsOK, RevokeAuth, At
  <1>2. req[h].session \in RefreshToken /\ session[req[h].session] # None
    BY <1>1 DEF HandlerOK, Request, Pc
  <1>3. \A g \in Thread \ {h} : req'[g] = req[g]
    BY DEF RevokeAuth, TypeOK
  <1>4. CASE req' = [req EXCEPT ![h] = Idle] /\ raced' = raced
    BY <1>1, <1>2, <1>3, <1>4 DEF RevokeAuth, Idle, TypeOK
  <1>5. CASE /\ req' = [req EXCEPT ![h] = [req[h] EXCEPT !.pc = "revokeSelect",
                                                        !.since = now]]
             /\ RacedIf(MintInFlight(req[h].session), req[h].session)
    <2>1. req'[h] = [req[h] EXCEPT !.pc = "revokeSelect", !.since = now]
      BY <1>5 DEF TypeOK
    <2>2. /\ req'[h].pc = "revokeSelect" /\ req'[h].since = now
          /\ req'[h].session = req[h].session
      BY <1>1, <2>1 DEF Request
    <2> QED
      BY <1>1, <1>2, <1>3, <1>5, <2>2 DEF RevokeAuth, RacedIf
  <1> QED
    BY <1>4, <1>5 DEF RevokeAuth

\* Every step keeps what a handler's local variables refer to in existence.
LEMMA LocalsStep == TypeOK /\ LocalsOK /\ [Next]_vars => LocalsOK'
  <1> SUFFICES ASSUME TypeOK, LocalsOK, [Next]_vars PROVE LocalsOK'
    OBVIOUS
  <1> USE DEF TypeOK, ChallengeRow, LocalsOK, HandlerOK, JwtOK, SessionOK, tables, tokens, Pc, At,
             Request, ChallengeInfo, SessionInfo, JwtPayload
  <1>1. ASSUME NEW d \in DID, LoginStart(d) PROVE LocalsOK'
    BY <1>1 DEF LoginStart, CreateChallenge, ChallengeInfo
  <1>2. ASSUME NEW c \in Challenge, LoginRejected(c) PROVE LocalsOK'
    BY <1>2 DEF LoginRejected, ConsumeChallenge
  <1>3. ASSUME NEW t \in RefreshToken, Logout(t) PROVE LocalsOK'
    BY <1>3 DEF Logout, DeleteRefreshRow
  <1>4. ASSUME NEW h \in Thread, NEW c \in Challenge, LoginComplete(h, c) PROVE LocalsOK'
    BY <1>4 DEF LoginComplete, ConsumeChallenge, Idle
  <1>5. ASSUME NEW h \in Thread, CheckDid(h) PROVE LocalsOK'
    BY <1>5 DEF CheckDid, Idle
  <1>6. ASSUME NEW h \in Thread, IssueRefreshToken(h) PROVE LocalsOK'
    BY <1>6 DEF IssueRefreshToken, Idle, ClockReading
  <1>7. ASSUME NEW h \in Thread, IssueSessionToken(h) PROVE LocalsOK'
    <2> DEFINE t == req[h].session
    <2>1. PICK j \in Jti, at \in ClockReading(h) : IssueSessionToken(h)!1!2!(j, at)
      BY <1>7 DEF IssueSessionToken
    <2>2. /\ t \in RefreshToken /\ session[t] \in SessionInfo
          /\ at \in Nat /\ at <= now
      BY <1>7 DEF IssueSessionToken, ClockReading
    <2>3. jwt'[j] # None /\ jwt'[j].session = t /\ jwt'[j].expires = at + SessionLifetime
      BY <2>1, <2>2
    <2>4. \A i \in Jti \ {j} : jwt'[i] = jwt[i]
      BY <2>1
    <2>5. UNCHANGED <<now, challengeInfo, session, refreshRows>>
      BY <1>7 DEF IssueSessionToken
    <2>6. \A i \in Jti : JwtOK(i)'
      BY <2>2, <2>3, <2>4, <2>5
    <2>7. \A u \in RefreshToken : SessionOK(u)'
      <3> SUFFICES ASSUME NEW u \in RefreshToken PROVE SessionOK(u)'
        OBVIOUS
      <3>1. CASE u = t
        <4>1. latest'[t] = j
          BY <2>1, <2>2
        <4>2. t \in refreshRows => lastJti'[t] = j
          BY <2>1, <2>2
        <4>3. t \notin refreshRows => lastJti'[t] = lastJti[t]
          BY <2>1, <2>2
        <4>4. session[t] # None
          BY <1>7 DEF IssueSessionToken
        <4> QED
          BY <2>3, <2>5, <3>1, <4>1, <4>2, <4>3, <4>4
      <3>2. CASE u # t
        <4>1. latest'[u] = latest[u] /\ lastJti'[u] = lastJti[u]
          BY <2>1, <3>2
        <4>2. latest[u] # None => latest[u] # j
          BY <2>1
        <4> QED
          BY <2>4, <2>5, <4>1, <4>2
      <3> QED
        BY <3>1, <3>2
    <2>8. \A g \in Thread : HandlerOK(g)'
      <3> SUFFICES ASSUME NEW g \in Thread PROVE HandlerOK(g)'
        OBVIOUS
      <3>1. CASE g = h
        <4>1. req'[h] = [Idle EXCEPT !.pc = "respond", !.jti = j]
          BY <2>1
        <4>2. /\ req'[h].pc = "respond" /\ req'[h].jti = j /\ req'[h].since = 0
              /\ j # None
          BY <4>1 DEF Idle
        <4> QED
          BY <2>3, <2>5, <3>1, <4>2
      <3>2. CASE g # h
        BY <2>1, <2>4, <2>5, <3>2
      <3> QED
        BY <3>1, <3>2
    <2> QED
      BY <2>6, <2>7, <2>8
  <1>8. ASSUME NEW h \in Thread, Respond(h) PROVE LocalsOK'
    BY <1>8 DEF Respond, Idle
  <1>9. ASSUME NEW h \in Thread, NEW t \in RefreshToken, RefreshConsume(h, t) PROVE LocalsOK'
    BY <1>9 DEF RefreshConsume, Idle
  <1>10. ASSUME NEW h \in Thread, RefreshExpired(h) PROVE LocalsOK'
    BY <1>10 DEF RefreshExpired, DeleteRefreshRow, Idle
  <1>11. ASSUME NEW h \in Thread, NEW j \in Jti, NEW t \in RefreshToken,
                RevokeRequest(h, j, t)
         PROVE LocalsOK'
    BY <1>11 DEF RevokeRequest, Idle
  <1>12. ASSUME NEW h \in Thread, RevokeAuth(h) PROVE LocalsOK'
    <2>1. UNCHANGED <<now, challengeInfo, session, refreshRows, lastJti, jwt, latest>>
      BY <1>12, RevokeAuthStep
    <2>2. \A g \in Thread \ {h} : req'[g] = req[g]
      BY <1>12, RevokeAuthStep
    <2>3. /\ req'[h].pc \in {"idle", "revokeSelect"} /\ req'[h].since <= now
          /\ req'[h].pc = "revokeSelect" =>
                req'[h].session # None /\ session[req'[h].session] # None
      BY <1>12, RevokeAuthStep, IdleIsRequest
    <2>4. \A g \in Thread \ {h} : HandlerOK(g)'
      BY <2>1, <2>2
    <2>5. HandlerOK(h)'
      BY <2>1, <2>3
    <2>6. /\ \A j \in Jti : JwtOK(j)'
          /\ \A t \in RefreshToken : SessionOK(t)'
      BY <2>1
    <2> QED
      BY <2>4, <2>5, <2>6
  <1>13. ASSUME NEW h \in Thread, RevokeSelect(h) PROVE LocalsOK'
    BY <1>13 DEF RevokeSelect, Idle, ClockReading
  <1>14. ASSUME NEW h \in Thread, RevokeBlock(h) PROVE LocalsOK'
    BY <1>14 DEF RevokeBlock
  <1>15. ASSUME NEW h \in Thread, RevokeDelete(h) PROVE LocalsOK'
    BY <1>15 DEF RevokeDelete, DeleteRefreshRow
  <1>16. ASSUME NEW h \in Thread, RevokeReply(h) PROVE LocalsOK'
    BY <1>16 DEF RevokeReply, Idle
  <1>17. CASE BundleLoad
    BY <1>17 DEF BundleLoad
  <1>18. CASE Restart
    BY <1>18 DEF Restart, PruneExpired, PruneRows, Idle
  <1>19. CASE Tick
    BY <1>19 DEF Tick
  <1>20. CASE UNCHANGED vars
    BY <1>20 DEF vars
  <1> QED
    BY <1>1, <1>2, <1>3, <1>4, <1>5, <1>6, <1>7, <1>8, <1>9, <1>10, <1>11, <1>12,
       <1>13, <1>14, <1>15, <1>16, <1>17, <1>18, <1>19, <1>20 DEF Next, Step

\* Every table row, token and local variable keeps its type, and no handler
\* ever dereferences a row, session or token that was never there.
THEOREM TypeCorrect == Spec => [](TypeOK /\ LocalsOK)
  <1>1. TypeOK /\ LocalsOK /\ [Next]_vars => TypeOK' /\ LocalsOK'
    BY TypeStep, LocalsStep
  <1> QED
    BY TypeInit, <1>1, PTL DEF Spec

--------------------------------------------------------------------------------
\* Every step keeps a challenge with at most one session or one handler that has
\* consumed it.
LEMMA ChallengeStep == TypeOK /\ LocalsOK /\ ChallengeInv /\ [Next]_vars => ChallengeInv'
  <1> SUFFICES ASSUME TypeOK, LocalsOK, ChallengeInv, [Next]_vars PROVE ChallengeInv'
    OBVIOUS
  <1> USE DEF TypeOK, ChallengeRow, LocalsOK, HandlerOK, SessionOK, ChallengeInv,
             OneSessionPerChallenge, HoldsChallenge, tables, tokens, Pc, At, Request
  <1>1. ASSUME NEW d \in DID, LoginStart(d) PROVE ChallengeInv'
    BY <1>1 DEF LoginStart, CreateChallenge, ChallengeInfo
  <1>2. ASSUME NEW c \in Challenge, LoginRejected(c) PROVE ChallengeInv'
    BY <1>2 DEF LoginRejected, ConsumeChallenge
  <1>3. ASSUME NEW t \in RefreshToken, Logout(t) PROVE ChallengeInv'
    BY <1>3 DEF Logout, DeleteRefreshRow
  <1>4. ASSUME NEW h \in Thread, NEW c \in Challenge, LoginComplete(h, c) PROVE ChallengeInv'
    BY <1>4 DEF LoginComplete, ConsumeChallenge, Idle
  <1>5. ASSUME NEW h \in Thread, CheckDid(h) PROVE ChallengeInv'
    BY <1>5 DEF CheckDid, Idle
  <1>6. ASSUME NEW h \in Thread, IssueRefreshToken(h) PROVE ChallengeInv'
    BY <1>6 DEF IssueRefreshToken, Idle, ClockReading
  <1>7. ASSUME NEW h \in Thread, IssueSessionToken(h) PROVE ChallengeInv'
    BY <1>7 DEF IssueSessionToken, Idle, ClockReading
  <1>8. ASSUME NEW h \in Thread, Respond(h) PROVE ChallengeInv'
    BY <1>8 DEF Respond, Idle
  <1>9. ASSUME NEW h \in Thread, NEW t \in RefreshToken, RefreshConsume(h, t) PROVE ChallengeInv'
    BY <1>9 DEF RefreshConsume, Idle
  <1>10. ASSUME NEW h \in Thread, RefreshExpired(h) PROVE ChallengeInv'
    BY <1>10 DEF RefreshExpired, DeleteRefreshRow, Idle
  <1>11. ASSUME NEW h \in Thread, NEW j \in Jti, NEW t \in RefreshToken,
                RevokeRequest(h, j, t)
         PROVE ChallengeInv'
    BY <1>11 DEF RevokeRequest, Idle
  <1>12. ASSUME NEW h \in Thread, RevokeAuth(h) PROVE ChallengeInv'
    <2>1. UNCHANGED <<challengeInfo, challenges, session>>
      BY <1>12, RevokeAuthStep
    <2>2. \A g \in Thread \ {h} : req'[g] = req[g]
      BY <1>12, RevokeAuthStep
    <2>3. ~HoldsChallenge(h)'
      BY <1>12, RevokeAuthStep
    <2>4. \A g \in Thread : HoldsChallenge(g)' =>
              g # h /\ HoldsChallenge(g) /\ req'[g] = req[g]
      BY <2>2, <2>3
    <2>5. OneSessionPerChallenge'
      BY <2>1
    <2> QED
      BY <2>1, <2>4, <2>5
  <1>13. ASSUME NEW h \in Thread, RevokeSelect(h) PROVE ChallengeInv'
    <2>1. UNCHANGED <<challengeInfo, challenges, session>>
      BY <1>13 DEF RevokeSelect
    <2>2. \A g \in Thread \ {h} : req'[g] = req[g]
      BY <1>13 DEF RevokeSelect
    <2>3. ~HoldsChallenge(h)'
      BY <1>13 DEF RevokeSelect, Idle
    <2>4. \A g \in Thread : HoldsChallenge(g)' =>
              g # h /\ HoldsChallenge(g) /\ req'[g] = req[g]
      BY <2>2, <2>3
    <2>5. OneSessionPerChallenge'
      BY <2>1
    <2> QED
      BY <2>1, <2>4, <2>5
  <1>14. ASSUME NEW h \in Thread, RevokeBlock(h) PROVE ChallengeInv'
    BY <1>14 DEF RevokeBlock
  <1>15. ASSUME NEW h \in Thread, RevokeDelete(h) PROVE ChallengeInv'
    BY <1>15 DEF RevokeDelete, DeleteRefreshRow
  <1>16. ASSUME NEW h \in Thread, RevokeReply(h) PROVE ChallengeInv'
    BY <1>16 DEF RevokeReply, Idle
  <1>17. CASE BundleLoad
    BY <1>17 DEF BundleLoad
  <1>18. CASE Restart
    BY <1>18 DEF Restart, PruneExpired, PruneRows, Idle
  <1>19. CASE Tick
    BY <1>19 DEF Tick
  <1>20. CASE UNCHANGED vars
    BY <1>20 DEF vars
  <1> QED
    BY <1>1, <1>2, <1>3, <1>4, <1>5, <1>6, <1>7, <1>8, <1>9, <1>10, <1>11, <1>12,
       <1>13, <1>14, <1>15, <1>16, <1>17, <1>18, <1>19, <1>20 DEF Next, Step

\* A challenge opens at most one session, for the DID it was drawn for.
THEOREM SingleUse == Spec => []OneSessionPerChallenge
  <1>1. Init => ChallengeInv
    BY DEF Init, Idle, ChallengeInv, OneSessionPerChallenge, HoldsChallenge
  <1>2. ChallengeInv => OneSessionPerChallenge
    BY DEF ChallengeInv
  <1> QED
    BY TypeCorrect, ChallengeStep, <1>1, <1>2, PTL DEF Spec

--------------------------------------------------------------------------------
\* Every step keeps the account of revocations: blocked, overlapped, or not deleted
\* yet.
LEMMA RevocationStep == TypeOK /\ LocalsOK /\ RevocationInv /\ [Next]_vars => RevocationInv'
  <1> SUFFICES ASSUME TypeOK, LocalsOK, RevocationInv, [Next]_vars PROVE RevocationInv'
    OBVIOUS
  <1> USE DEF TypeOK, ChallengeRow, LocalsOK, HandlerOK, JwtOK, SessionOK, RevocationInv,
             BlocklistOK, RevokerOK, RevokedOK, LastTokenCovered, Revoking, RevokeInFlight,
             Minting, MintInFlight, RacedIf, tables, tokens, Pc, At, Request, JwtPayload
  <1>1. ASSUME NEW d \in DID, LoginStart(d) PROVE RevocationInv'
    BY <1>1 DEF LoginStart, CreateChallenge, ChallengeInfo
  <1>2. ASSUME NEW c \in Challenge, LoginRejected(c) PROVE RevocationInv'
    BY <1>2 DEF LoginRejected, ConsumeChallenge
  <1>3. ASSUME NEW t \in RefreshToken, Logout(t) PROVE RevocationInv'
    BY <1>3 DEF Logout, DeleteRefreshRow
  <1>4. ASSUME NEW h \in Thread, NEW c \in Challenge, LoginComplete(h, c) PROVE RevocationInv'
    BY <1>4 DEF LoginComplete, ConsumeChallenge, Idle
  <1>5. ASSUME NEW h \in Thread, CheckDid(h) PROVE RevocationInv'
    BY <1>5 DEF CheckDid, Idle
  <1>6. ASSUME NEW h \in Thread, IssueRefreshToken(h) PROVE RevocationInv'
    <2> PICK t \in RefreshToken, at \in ClockReading(h) :
               /\ session[t] = None
               /\ session' = [session EXCEPT
                     ![t] = [did |-> challengeInfo[req[h].challenge].did,
                             expires |-> at + RefreshLifetime,
                             challenge |-> req[h].challenge]]
               /\ refreshRows' = refreshRows \cup {t}
               /\ req' = [req EXCEPT ![h] = [Idle EXCEPT !.pc = "issueSession",
                                                         !.since = now,
                                                         !.session = t]]
      BY <1>6 DEF IssueRefreshToken
    <2>1. UNCHANGED <<now, blocklist, jwt, latest, revoked, raced>>
      BY <1>6 DEF IssueRefreshToken
    <2>2. req[h].pc = "issueRefresh" /\ req'[h].pc = "issueSession" /\ req'[h].session = t
      BY <1>6 DEF IssueRefreshToken, Idle
    <2>3. \A g \in Thread \ {h} : req'[g] = req[g]
      OBVIOUS
    <2>4. \A u \in RefreshToken \ {t} : session'[u] = session[u]
      OBVIOUS
    <2>5. \A g \in Thread, u \in RefreshToken \ {t} : Minting(g, u)' <=> Minting(g, u)
      BY <2>2, <2>3
    <2>6. \A u \in RefreshToken \ {t} : MintInFlight(u)' <=> MintInFlight(u)
      BY <2>5
    <2>7. \A j \in Jti : BlocklistOK(j)'
      BY <2>1
    <2>8. \A u \in revoked' \ raced' : RevokedOK(u)'
      BY <2>1, <2>4, <2>6
    <2>9. ASSUME NEW g \in Thread, NEW u \in RefreshToken \ raced', Revoking(g, u)'
          PROVE  RevokerOK(g, u)'
      <3>1. g # h
        BY <2>2, <2>9
      <3>2. Revoking(g, u) /\ req'[g] = req[g]
        BY <2>3, <2>9, <3>1
      <3>3. u # t
        BY <3>2
      <3>4. RevokerOK(g, u)
        BY <2>1
      <3> QED
        BY <2>1, <2>6, <3>2, <3>3, <3>4
    <2> QED
      BY <2>7, <2>8, <2>9
  <1>7. ASSUME NEW h \in Thread, IssueSessionToken(h) PROVE RevocationInv'
    BY <1>7 DEF IssueSessionToken, Idle, ClockReading
  <1>8. ASSUME NEW h \in Thread, Respond(h) PROVE RevocationInv'
    BY <1>8 DEF Respond, Idle
  <1>9. ASSUME NEW h \in Thread, NEW t \in RefreshToken, RefreshConsume(h, t) PROVE RevocationInv'
    BY <1>9 DEF RefreshConsume, Idle
  <1>10. ASSUME NEW h \in Thread, RefreshExpired(h) PROVE RevocationInv'
    BY <1>10 DEF RefreshExpired, DeleteRefreshRow, Idle
  <1>11. ASSUME NEW h \in Thread, NEW j \in Jti, NEW t \in RefreshToken,
                RevokeRequest(h, j, t)
         PROVE RevocationInv'
    BY <1>11 DEF RevokeRequest, Idle
  <1>12. ASSUME NEW h \in Thread, RevokeAuth(h) PROVE RevocationInv'
    <2> DEFINE s == req[h].session
    <2>1. UNCHANGED <<now, session, refreshRows, lastJti, blocklist, jwt, latest, revoked>>
      BY <1>12, RevokeAuthStep
    <2>2. \A g \in Thread \ {h} : req'[g] = req[g]
      BY <1>12, RevokeAuthStep
    <2>3. req[h].pc = "authCheck" /\ s \in RefreshToken
      BY <1>12, RevokeAuthStep
    <2>4. \/ req'[h].pc = "idle" /\ raced' = raced
          \/ /\ req'[h].pc = "revokeSelect" /\ req'[h].since = now /\ req'[h].session = s
             /\ raced' = IF MintInFlight(s) THEN raced \cup {s} ELSE raced
      BY <1>12, RevokeAuthStep
    <2>6. raced \subseteq raced'
      BY <2>4
    <2>7. \A t \in RefreshToken : MintInFlight(t)' <=> MintInFlight(t)
      <3>1. \A t \in RefreshToken : ~Minting(h, t) /\ ~Minting(h, t)'
        BY <2>3, <2>4
      <3> QED
        BY <2>2, <3>1
    <2>8. \A j \in Jti : BlocklistOK(j)'
      BY <2>1, <2>6
    <2>9. \A t \in revoked' \ raced' : RevokedOK(t)'
      BY <2>1, <2>6, <2>7
    <2>10. ASSUME NEW g \in Thread, NEW t \in RefreshToken \ raced', Revoking(g, t)'
           PROVE  RevokerOK(g, t)'
      <3>1. CASE g # h
        BY <2>1, <2>2, <2>6, <2>7, <2>10, <3>1
      <3>2. CASE g = h
        <4>1. /\ t = s /\ ~MintInFlight(t)
              /\ req'[h].pc = "revokeSelect" /\ req'[h].since = now
          BY <2>4, <2>10, <3>2
        <4>2. latest[t] # None => jwt[latest[t]].expires <= now + SessionLifetime
          OBVIOUS
        <4> QED
          BY <2>1, <2>7, <3>2, <4>1, <4>2
      <3> QED
        BY <3>1, <3>2
    <2> QED
      BY <2>8, <2>9, <2>10
  <1>13. ASSUME NEW h \in Thread, RevokeSelect(h) PROVE RevocationInv'
    BY <1>13 DEF RevokeSelect, Idle, ClockReading
  <1>14. ASSUME NEW h \in Thread, RevokeBlock(h) PROVE RevocationInv'
    BY <1>14 DEF RevokeBlock
  <1>15. ASSUME NEW h \in Thread, RevokeDelete(h) PROVE RevocationInv'
    BY <1>15 DEF RevokeDelete, DeleteRefreshRow
  <1>16. ASSUME NEW h \in Thread, RevokeReply(h) PROVE RevocationInv'
    BY <1>16 DEF RevokeReply, Idle
  <1>17. CASE BundleLoad
    BY <1>17 DEF BundleLoad
  <1>18. CASE Restart
    BY <1>18 DEF Restart, PruneExpired, PruneRows, Idle
  <1>19. CASE Tick
    BY <1>19 DEF Tick
  <1>20. CASE UNCHANGED vars
    BY <1>20 DEF vars
  <1> QED
    BY <1>1, <1>2, <1>3, <1>4, <1>5, <1>6, <1>7, <1>8, <1>9, <1>10, <1>11, <1>12,
       <1>13, <1>14, <1>15, <1>16, <1>17, <1>18, <1>19, <1>20 DEF Next, Step

\* A completed revocation that no login or refresh of the session overlapped
\* leaves the session's last token rejected until its exp.
THEOREM RevocationHolds == Spec => []RevocationEffective
  <1>1. Init => RevocationInv
    BY DEF Init, Idle, RevocationInv, BlocklistOK, RevokerOK, Revoking
  <1>2. TypeOK /\ LocalsOK /\ RevocationInv => RevocationEffective
    <2> SUFFICES ASSUME TypeOK, LocalsOK, RevocationInv,
                        NEW t \in revoked \ raced,
                        latest[t] # None, now < jwt[latest[t]].expires
                 PROVE  BlockedAt(latest[t], now)
      BY DEF RevocationEffective
    <2>1. LastTokenCovered(t)
      BY DEF RevocationInv, RevokedOK
    <2>2. latest[t] \in Jti /\ jwt[latest[t]] \in JwtPayload /\ now \in Nat
      BY DEF TypeOK, LocalsOK, SessionOK
    <2>3. jwt[latest[t]].expires \in Nat /\ blocklist[latest[t]] \in Nat \cup {None}
          /\ now \in Nat
      BY <2>2 DEF TypeOK, JwtPayload
    <2> QED
      BY <2>1, <2>3 DEF LastTokenCovered, BlockedAt
  <1> QED
    BY TypeCorrect, RevocationStep, <1>1, <1>2, PTL DEF Spec

--------------------------------------------------------------------------------
\* No step gives a deleted session a row, or a token once it is quiet.
LEMMA ClosedStep == TypeOK /\ LocalsOK /\ [Next]_vars => \A t \in RefreshToken : ClosedStaysClosed(t)
  <1> SUFFICES ASSUME TypeOK, LocalsOK, [Next]_vars PROVE \A t \in RefreshToken : ClosedStaysClosed(t)
    OBVIOUS
  <1> SUFFICES ASSUME NEW r \in RefreshToken PROVE ClosedStaysClosed(r)
    OBVIOUS
  <1> USE DEF TypeOK, LocalsOK, HandlerOK, SessionOK, ClosedStaysClosed, Minting, MintInFlight,
             tables, tokens, Pc, At, Request
  <1>1. ASSUME NEW d \in DID, LoginStart(d) PROVE ClosedStaysClosed(r)
    BY <1>1 DEF LoginStart, CreateChallenge, ChallengeInfo
  <1>2. ASSUME NEW c \in Challenge, LoginRejected(c) PROVE ClosedStaysClosed(r)
    BY <1>2 DEF LoginRejected, ConsumeChallenge
  <1>3. ASSUME NEW t \in RefreshToken, Logout(t) PROVE ClosedStaysClosed(r)
    BY <1>3 DEF Logout, DeleteRefreshRow
  <1>4. ASSUME NEW h \in Thread, NEW c \in Challenge, LoginComplete(h, c) PROVE ClosedStaysClosed(r)
    BY <1>4 DEF LoginComplete, ConsumeChallenge, Idle
  <1>5. ASSUME NEW h \in Thread, CheckDid(h) PROVE ClosedStaysClosed(r)
    BY <1>5 DEF CheckDid, Idle
  <1>6. ASSUME NEW h \in Thread, IssueRefreshToken(h) PROVE ClosedStaysClosed(r)
    BY <1>6 DEF IssueRefreshToken, Idle, ClockReading
  <1>7. ASSUME NEW h \in Thread, IssueSessionToken(h) PROVE ClosedStaysClosed(r)
    BY <1>7 DEF IssueSessionToken, Idle, ClockReading
  <1>8. ASSUME NEW h \in Thread, Respond(h) PROVE ClosedStaysClosed(r)
    BY <1>8 DEF Respond, Idle
  <1>9. ASSUME NEW h \in Thread, NEW t \in RefreshToken, RefreshConsume(h, t) PROVE ClosedStaysClosed(r)
    BY <1>9 DEF RefreshConsume, Idle
  <1>10. ASSUME NEW h \in Thread, RefreshExpired(h) PROVE ClosedStaysClosed(r)
    BY <1>10 DEF RefreshExpired, DeleteRefreshRow, Idle
  <1>11. ASSUME NEW h \in Thread, NEW j \in Jti, NEW t \in RefreshToken,
                RevokeRequest(h, j, t)
         PROVE ClosedStaysClosed(r)
    BY <1>11 DEF RevokeRequest, Idle
  <1>12. ASSUME NEW h \in Thread, RevokeAuth(h) PROVE ClosedStaysClosed(r)
    BY <1>12, RevokeAuthStep
  <1>13. ASSUME NEW h \in Thread, RevokeSelect(h) PROVE ClosedStaysClosed(r)
    BY <1>13 DEF RevokeSelect, Idle, ClockReading
  <1>14. ASSUME NEW h \in Thread, RevokeBlock(h) PROVE ClosedStaysClosed(r)
    BY <1>14 DEF RevokeBlock
  <1>15. ASSUME NEW h \in Thread, RevokeDelete(h) PROVE ClosedStaysClosed(r)
    BY <1>15 DEF RevokeDelete, DeleteRefreshRow
  <1>16. ASSUME NEW h \in Thread, RevokeReply(h) PROVE ClosedStaysClosed(r)
    BY <1>16 DEF RevokeReply, Idle
  <1>17. CASE BundleLoad
    BY <1>17 DEF BundleLoad
  <1>18. CASE Restart
    BY <1>18 DEF Restart, PruneExpired, PruneRows, Idle
  <1>19. CASE Tick
    BY <1>19 DEF Tick
  <1>20. CASE UNCHANGED vars
    BY <1>20 DEF vars
  <1> QED
    BY <1>1, <1>2, <1>3, <1>4, <1>5, <1>6, <1>7, <1>8, <1>9, <1>10, <1>11, <1>12,
       <1>13, <1>14, <1>15, <1>16, <1>17, <1>18, <1>19, <1>20 DEF Next, Step

\* The row of a session that was logged out, revoked or expired never comes
\* back, and once no handler is minting for it none ever will.
THEOREM ClosedIsFinal == Spec => ClosedForever
  BY TypeCorrect, ClosedStep, PTL DEF Spec, ClosedForever

\* No step mints a token for a DID that was dropped before its handler asked.
LEMMA MintsNothingStep == TypeOK /\ LocalsOK /\ [Next]_vars => \A d \in DID : MintsNothing(d)
  <1> SUFFICES ASSUME TypeOK, LocalsOK, [Next]_vars PROVE \A d \in DID : MintsNothing(d)
    OBVIOUS
  <1> SUFFICES ASSUME NEW e \in DID PROVE MintsNothing(e)
    OBVIOUS
  <1> USE DEF TypeOK, LocalsOK, HandlerOK, MintsNothing, Drained, LetThrough, IsDidActive,
             CheckedDid, tables, tokens, Pc, At, Request, SessionInfo, ChallengeInfo, JwtPayload
  <1>1. ASSUME NEW d \in DID, LoginStart(d) PROVE MintsNothing(e)
    BY <1>1 DEF LoginStart, CreateChallenge, ChallengeInfo
  <1>2. ASSUME NEW c \in Challenge, LoginRejected(c) PROVE MintsNothing(e)
    BY <1>2 DEF LoginRejected, ConsumeChallenge
  <1>3. ASSUME NEW t \in RefreshToken, Logout(t) PROVE MintsNothing(e)
    BY <1>3 DEF Logout, DeleteRefreshRow
  <1>4. ASSUME NEW h \in Thread, NEW c \in Challenge, LoginComplete(h, c) PROVE MintsNothing(e)
    BY <1>4 DEF LoginComplete, ConsumeChallenge, Idle
  <1>5. ASSUME NEW h \in Thread, CheckDid(h) PROVE MintsNothing(e)
    <2>1. UNCHANGED <<cache, challengeInfo, session, jwt>>
      BY <1>5 DEF CheckDid
    <2>2. \A g \in Thread \ {h} : req'[g] = req[g]
      BY <1>5 DEF CheckDid
    <2>3. \/ IsDidActive(CheckedDid(h))
          \/ req'[h].pc = "idle"
      BY <1>5 DEF CheckDid, Idle
    <2>4. IsDidActive(CheckedDid(h)) =>
             \/ /\ req[h].pc = "loginCheck" /\ req'[h].pc = "issueRefresh"
                /\ req'[h].challenge = req[h].challenge
             \/ /\ req[h].pc = "refreshCheck" /\ req'[h].pc = "issueSession"
                /\ req'[h].session = req[h].session
      BY <1>5 DEF CheckDid
    <2>5. ASSUME Drained(e) PROVE Drained(e)'
      BY <2>1, <2>2, <2>3, <2>4, <2>5
    <2> QED
      BY <2>1, <2>5
  <1>6. ASSUME NEW h \in Thread, IssueRefreshToken(h) PROVE MintsNothing(e)
    BY <1>6 DEF IssueRefreshToken, Idle, ClockReading
  <1>7. ASSUME NEW h \in Thread, IssueSessionToken(h) PROVE MintsNothing(e)
    BY <1>7 DEF IssueSessionToken, Idle, ClockReading
  <1>8. ASSUME NEW h \in Thread, Respond(h) PROVE MintsNothing(e)
    BY <1>8 DEF Respond, Idle
  <1>9. ASSUME NEW h \in Thread, NEW t \in RefreshToken, RefreshConsume(h, t) PROVE MintsNothing(e)
    BY <1>9 DEF RefreshConsume, Idle
  <1>10. ASSUME NEW h \in Thread, RefreshExpired(h) PROVE MintsNothing(e)
    BY <1>10 DEF RefreshExpired, DeleteRefreshRow, Idle
  <1>11. ASSUME NEW h \in Thread, NEW j \in Jti, NEW t \in RefreshToken,
                RevokeRequest(h, j, t)
         PROVE MintsNothing(e)
    BY <1>11 DEF RevokeRequest, Idle
  <1>12. ASSUME NEW h \in Thread, RevokeAuth(h) PROVE MintsNothing(e)
    BY <1>12, RevokeAuthStep
  <1>13. ASSUME NEW h \in Thread, RevokeSelect(h) PROVE MintsNothing(e)
    BY <1>13 DEF RevokeSelect, Idle, ClockReading
  <1>14. ASSUME NEW h \in Thread, RevokeBlock(h) PROVE MintsNothing(e)
    BY <1>14 DEF RevokeBlock
  <1>15. ASSUME NEW h \in Thread, RevokeDelete(h) PROVE MintsNothing(e)
    BY <1>15 DEF RevokeDelete, DeleteRefreshRow
  <1>16. ASSUME NEW h \in Thread, RevokeReply(h) PROVE MintsNothing(e)
    BY <1>16 DEF RevokeReply, Idle
  <1>17. CASE BundleLoad
    BY <1>17 DEF BundleLoad
  <1>18. CASE Restart
    BY <1>18 DEF Restart, PruneExpired, PruneRows, Idle
  <1>19. CASE Tick
    BY <1>19 DEF Tick
  <1>20. CASE UNCHANGED vars
    BY <1>20 DEF vars
  <1> QED
    BY <1>1, <1>2, <1>3, <1>4, <1>5, <1>6, <1>7, <1>8, <1>9, <1>10, <1>11, <1>12,
       <1>13, <1>14, <1>15, <1>16, <1>17, <1>18, <1>19, <1>20 DEF Next, Step

\* A DID the cached bundle has dropped is given no session token, once the
\* handlers that had already asked about it are done.
THEOREM InactiveGetsNothing == Spec => InactiveDidMintsNothing
  BY TypeCorrect, MintsNothingStep, PTL DEF Spec, InactiveDidMintsNothing


\* A restart prunes only what no reader would accept any more.
LEMMA RestartStep ==
  ASSUME TypeOK, LocalsOK, Restart
  PROVE  /\ UsableChallenges' = UsableChallenges
         /\ UsableSessions' = UsableSessions
         /\ \A j \in Jti : Accepted(j)' = Accepted(j)
  <1>1. /\ UNCHANGED <<now, challengeInfo, session, jwt, delivered>>
        /\ challenges' = {c \in challenges : ~(challengeInfo[c].expires < now)}
        /\ refreshRows' = refreshRows \ {t \in refreshRows : session[t].expires < now}
        /\ \A j \in Jti : blocklist'[j] = IF blocklist[j] # None /\ blocklist[j] < now
                                          THEN None
                                          ELSE blocklist[j]
    BY DEF Restart, PruneExpired, PruneRows, tokens
  <1>2. /\ now \in Nat
        /\ \A c \in challenges : challengeInfo[c].expires \in Nat
        /\ \A t \in refreshRows : session[t].expires \in Nat
        /\ \A j \in Jti : blocklist[j] \in Nat \cup {None}
    BY DEF TypeOK, ChallengeRow, ChallengeInfo, SessionInfo
  <1>3. UsableChallenges' = UsableChallenges
    BY <1>1, <1>2 DEF UsableChallenges
  <1>4. UsableSessions' = UsableSessions
    BY <1>1, <1>2 DEF UsableSessions
  <1>5. ASSUME NEW j \in Jti PROVE Accepted(j)' = Accepted(j)
    <2>1. BlockedAt(j, now)' = BlockedAt(j, now)
      BY <1>1, <1>2 DEF BlockedAt
    <2> QED
      BY <1>1, <2>1 DEF Accepted, Decodes
  <1> QED
    BY <1>3, <1>4, <1>5

\* A restart of the BFF (_prune_expired) keeps every challenge, refresh token and
\* session token usable that was, and no other.
THEOREM RestartIsInvisible == Spec => RestartKeepsAnswers
  <1>1. TypeOK /\ LocalsOK /\ [Next]_vars =>
          [Restart => /\ UsableChallenges' = UsableChallenges
                      /\ UsableSessions' = UsableSessions
                      /\ \A j \in Jti : Accepted(j)' = Accepted(j)]_vars
    BY RestartStep
  <1> QED
    BY <1>1, TypeCorrect, PTL DEF Spec, RestartKeepsAnswers
================================================================================

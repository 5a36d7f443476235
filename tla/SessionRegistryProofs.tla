------------------------- MODULE SessionRegistryProofs -------------------------
(* BffSessions implements SessionRegistry, for every value of its constants. *)
EXTENDS BffSessionsProofs

USE LifetimeAssumption, BundleAssumption, NoneAssumption

\* Initially no session, no handler and no token.
LEMMA RegistryInit == Init => Registry!Init
  BY IdleIsRequest DEF Init, Registry!Init, registryState, registryMinting, registryOwner

\* A step after which every session is as open as it was, every handler may mint
\* for the session it could mint for, and every token has its owner, is a stutter.
LEMMA RegistryStutter ==
  ASSUME UNCHANGED <<session, refreshRows, jwt>>,
         \A h \in Thread : registryMinting'[h] = registryMinting[h]
  PROVE  UNCHANGED Registry!registry
  <1>1. registryMinting' = registryMinting
    BY DEF registryMinting
  <1> QED
    BY <1>1 DEF Registry!registry, registryState, registryOwner

\* A step in which the handlers `gone' stop minting and the rows `closed' go.
LEMMA RegistryDrop ==
  ASSUME NEW gone \in SUBSET Thread, NEW closed \in SUBSET RefreshToken,
         UNCHANGED <<session, jwt>>,
         refreshRows' = refreshRows \ closed,
         \A h \in Thread : registryMinting'[h] = IF h \in gone THEN None
                                                 ELSE registryMinting[h],
         TypeOK
  PROVE  Registry!Next
  <1>1. registryMinting' = [h \in Thread |-> IF h \in gone THEN None
                                             ELSE registryMinting[h]]
    BY DEF registryMinting
  <1>2. registryState' = [t \in RefreshToken |->
           IF t \in closed /\ registryState[t] = "open" THEN "closed" ELSE registryState[t]]
    BY DEF registryState, TypeOK
  <1>3. registryOwner' = registryOwner
    BY DEF registryOwner
  <1> QED
    BY <1>1, <1>2, <1>3 DEF Registry!Next, Registry!Drop

\* Every step of the store is a step of the registry, or none.
LEMMA RegistryStep ==
  TypeOK /\ LocalsOK /\ [Next]_vars => [Registry!Next]_(Registry!registry)
  <1> SUFFICES ASSUME TypeOK, LocalsOK, [Next]_vars
               PROVE  Registry!Next \/ UNCHANGED Registry!registry
    OBVIOUS
  <1> USE DEF tables, tokens, At
  <1>1. ASSUME NEW d \in DID, LoginStart(d) PROVE UNCHANGED Registry!registry
    BY <1>1, RegistryStutter DEF LoginStart, registryMinting
  <1>2. ASSUME NEW c \in Challenge, LoginRejected(c) PROVE UNCHANGED Registry!registry
    BY <1>2, RegistryStutter DEF LoginRejected, registryMinting
  <1>3. ASSUME NEW t \in RefreshToken, Logout(t) PROVE Registry!Next
    <2> DEFINE gone == {}
               closed == {t}
    <2>1. \A g \in Thread : registryMinting'[g] = registryMinting[g]
      BY <1>3 DEF Logout, registryMinting
    <2>2. UNCHANGED <<session, jwt>> /\ refreshRows' = refreshRows \ closed
      BY <1>3 DEF Logout, DeleteRefreshRow
    <2>3. gone \in SUBSET Thread /\ closed \in SUBSET RefreshToken
      OBVIOUS
    <2> QED
      BY <2>1, <2>2, <2>3, RegistryDrop
  <1>4. ASSUME NEW h \in Thread, NEW c \in Challenge, LoginComplete(h, c)
        PROVE  UNCHANGED Registry!registry
    <2>1. \A g \in Thread : registryMinting'[g] = registryMinting[g]
      BY <1>4 DEF LoginComplete, registryMinting, TypeOK, Idle
    <2> QED
      BY <1>4, <2>1, RegistryStutter DEF LoginComplete
  <1>5. ASSUME NEW h \in Thread, CheckDid(h)
        PROVE  Registry!Next \/ UNCHANGED Registry!registry
    <2>1. UNCHANGED <<session, refreshRows, jwt>> /\ \A g \in Thread \ {h} : req'[g] = req[g]
      BY <1>5 DEF CheckDid, TypeOK
    <2>2. CASE IsDidActive(CheckedDid(h))
      <3>1. \A g \in Thread : registryMinting'[g] = registryMinting[g]
        BY <1>5, <2>1, <2>2 DEF CheckDid, registryMinting, TypeOK, Request
      <3> QED
        BY <2>1, <3>1, RegistryStutter
    <2>3. CASE ~IsDidActive(CheckedDid(h))
      <3> DEFINE gone == {h}
                 closed == {}
      <3>1. req'[h].pc = "idle"
        BY <1>5, <2>3, IdleIsRequest DEF CheckDid, TypeOK
      <3>2. \A g \in Thread : registryMinting'[g] = IF g \in gone THEN None
                                                    ELSE registryMinting[g]
        BY <2>1, <3>1 DEF registryMinting
      <3>3. gone \in SUBSET Thread /\ closed \in SUBSET RefreshToken
        OBVIOUS
      <3>4. UNCHANGED <<session, jwt>> /\ refreshRows' = refreshRows \ closed
        BY <2>1
      <3> QED
        BY <3>2, <3>3, <3>4, RegistryDrop
    <2> QED
      BY <2>2, <2>3
  <1>6. ASSUME NEW h \in Thread, IssueRefreshToken(h) PROVE Registry!Next
    <2>1. PICK t \in RefreshToken, at \in ClockReading(h) : IssueRefreshToken(h)!2!(t, at)
      BY <1>6 DEF IssueRefreshToken
    <2>2. registryMinting[h] = None /\ registryState[t] = "fresh"
      BY <1>6, <2>1 DEF IssueRefreshToken, registryMinting, registryState
    <2>3. /\ session'[t] # None
          /\ \A u \in RefreshToken \ {t} : session'[u] = session[u]
      <3>1. session'[t] = [did |-> challengeInfo[req[h].challenge].did,
                           expires |-> at + RefreshLifetime,
                           challenge |-> req[h].challenge]
        BY <2>1 DEF TypeOK
      <3>2. /\ req[h].challenge \in Challenge
            /\ challengeInfo[req[h].challenge] \in ChallengeInfo
            /\ at \in Nat
        BY <1>6 DEF IssueRefreshToken, ClockReading, TypeOK, ChallengeRow, LocalsOK,
                    HandlerOK, Request
      <3>3. session'[t] \in SessionInfo
        BY <3>1, <3>2 DEF ChallengeInfo, SessionInfo
      <3> QED
        BY <2>1, <3>3 DEF TypeOK
    <2>4. registryState' = [registryState EXCEPT ![t] = "open"]
      BY <2>1, <2>3 DEF registryState
    <2>5. /\ req'[h].pc = "issueSession" /\ req'[h].session = t
          /\ \A g \in Thread \ {h} : req'[g] = req[g]
      BY <2>1 DEF TypeOK, Idle
    <2>6. registryMinting' = [registryMinting EXCEPT ![h] = t]
      BY <2>5 DEF registryMinting
    <2>7. registryOwner' = registryOwner
      BY <1>6 DEF IssueRefreshToken, registryOwner
    <2>8. Registry!Open(h, t)
      BY <2>2, <2>4, <2>6, <2>7 DEF Registry!Open
    <2> QED
      BY <2>8 DEF Registry!Next
  <1>7. ASSUME NEW h \in Thread, IssueSessionToken(h) PROVE Registry!Next
    <2> DEFINE t == req[h].session
    <2>1. PICK j \in Jti, at \in ClockReading(h) : IssueSessionToken(h)!1!2!(j, at)
      BY <1>7 DEF IssueSessionToken
    <2>2. t \in RefreshToken /\ session[t] \in SessionInfo /\ at \in Nat
      BY <1>7 DEF IssueSessionToken, ClockReading, TypeOK, LocalsOK, HandlerOK, Request, Pc
    <2>3. registryMinting[h] = t /\ t # None /\ registryOwner[j] = None
      BY <1>7, <2>1, <2>2 DEF IssueSessionToken, registryMinting, registryOwner
    <2>4. /\ jwt'[j] # None /\ jwt'[j].session = t
          /\ \A i \in Jti \ {j} : jwt'[i] = jwt[i]
      <3>1. jwt'[j] = [did |-> session[t].did, expires |-> at + SessionLifetime,
                       session |-> t]
        BY <2>1 DEF TypeOK
      <3>2. jwt'[j] \in JwtPayload
        BY <2>2, <3>1 DEF SessionInfo, JwtPayload
      <3> QED
        BY <2>1, <3>1, <3>2 DEF TypeOK
    <2>5. registryOwner' = [registryOwner EXCEPT ![j] = t]
      BY <2>4 DEF registryOwner
    <2>6. req'[h].pc = "respond" /\ \A g \in Thread \ {h} : req'[g] = req[g]
      BY <2>1 DEF TypeOK, Idle
    <2>7. registryMinting' = [registryMinting EXCEPT ![h] = None]
      BY <2>6 DEF registryMinting
    <2>8. registryState' = registryState
      BY <1>7 DEF IssueSessionToken, registryState
    <2>9. Registry!Mint(h, j)
      BY <2>3, <2>5, <2>7, <2>8 DEF Registry!Mint
    <2> QED
      BY <2>9 DEF Registry!Next
  <1>8. ASSUME NEW h \in Thread, Respond(h) PROVE UNCHANGED Registry!registry
    <2>1. \A g \in Thread : registryMinting'[g] = registryMinting[g]
      BY <1>8 DEF Respond, registryMinting, TypeOK, Idle
    <2> QED
      BY <1>8, <2>1, RegistryStutter DEF Respond
  <1>9. ASSUME NEW h \in Thread, NEW t \in RefreshToken, RefreshConsume(h, t)
        PROVE  Registry!Next
    <2>1. registryMinting[h] = None /\ registryState[t] = "open"
      BY <1>9 DEF RefreshConsume, registryMinting, registryState, TypeOK
    <2>2. /\ req'[h].pc = "refreshCheck" /\ req'[h].session = t
          /\ \A g \in Thread \ {h} : req'[g] = req[g]
      BY <1>9 DEF RefreshConsume, TypeOK, Idle
    <2>3. registryMinting' = [registryMinting EXCEPT ![h] = t]
      BY <2>2 DEF registryMinting
    <2>4. registryState' = registryState /\ registryOwner' = registryOwner
      BY <1>9 DEF RefreshConsume, registryState, registryOwner
    <2>5. Registry!Begin(h, t)
      BY <2>1, <2>3, <2>4 DEF Registry!Begin
    <2> QED
      BY <2>5 DEF Registry!Next
  <1>10. ASSUME NEW h \in Thread, RefreshExpired(h) PROVE Registry!Next
    <2> DEFINE gone == {h}
               closed == {req[h].session}
    <2>1. req'[h].pc = "idle" /\ \A g \in Thread \ {h} : req'[g] = req[g]
      BY <1>10, IdleIsRequest DEF RefreshExpired, TypeOK
    <2>2. \A g \in Thread : registryMinting'[g] = IF g \in gone THEN None
                                                  ELSE registryMinting[g]
      BY <2>1 DEF registryMinting
    <2>3. UNCHANGED <<session, jwt>> /\ refreshRows' = refreshRows \ closed
      BY <1>10 DEF RefreshExpired, DeleteRefreshRow
    <2>4. gone \in SUBSET Thread /\ closed \in SUBSET RefreshToken
      BY <1>10 DEF RefreshExpired, TypeOK, LocalsOK, HandlerOK, Request, Pc
    <2> QED
      BY <2>2, <2>3, <2>4, RegistryDrop
  <1>11. ASSUME NEW h \in Thread, NEW j \in Jti, NEW t \in RefreshToken,
                RevokeRequest(h, j, t)
         PROVE  UNCHANGED Registry!registry
    <2>1. \A g \in Thread : registryMinting'[g] = registryMinting[g]
      BY <1>11 DEF RevokeRequest, registryMinting, TypeOK, Idle
    <2> QED
      BY <1>11, <2>1, RegistryStutter DEF RevokeRequest
  <1>12. ASSUME NEW h \in Thread, RevokeAuth(h) PROVE UNCHANGED Registry!registry
    <2>1. \A g \in Thread : registryMinting'[g] = registryMinting[g]
      BY <1>12, RevokeAuthStep DEF registryMinting
    <2> QED
      BY <1>12, <2>1, RegistryStutter DEF RevokeAuth
  <1>13. ASSUME NEW h \in Thread, RevokeSelect(h) PROVE UNCHANGED Registry!registry
    <2>1. /\ req[h].pc = "revokeSelect"
          /\ req'[h].pc \in {"idle", "revokeBlock", "revokeDelete"}
          /\ \A g \in Thread \ {h} : req'[g] = req[g]
      BY <1>13, IdleIsRequest DEF RevokeSelect, TypeOK, Request
    <2>2. \A g \in Thread : registryMinting'[g] = registryMinting[g]
      BY <2>1 DEF registryMinting
    <2> QED
      BY <1>13, <2>2, RegistryStutter DEF RevokeSelect
  <1>14. ASSUME NEW h \in Thread, RevokeBlock(h) PROVE UNCHANGED Registry!registry
    <2>1. \A g \in Thread : registryMinting'[g] = registryMinting[g]
      BY <1>14 DEF RevokeBlock, registryMinting, TypeOK, Request
    <2> QED
      BY <1>14, <2>1, RegistryStutter DEF RevokeBlock
  <1>15. ASSUME NEW h \in Thread, RevokeDelete(h) PROVE Registry!Next
    <2> DEFINE gone == {}
               closed == {req[h].session}
    <2>1. /\ req[h].pc = "revokeDelete" /\ req'[h].pc = "revokeReply"
          /\ \A g \in Thread \ {h} : req'[g] = req[g]
      BY <1>15 DEF RevokeDelete, TypeOK, Request
    <2>2. \A g \in Thread : registryMinting'[g] = registryMinting[g]
      BY <2>1 DEF registryMinting
    <2>3. UNCHANGED <<session, jwt>> /\ refreshRows' = refreshRows \ closed
      BY <1>15 DEF RevokeDelete, DeleteRefreshRow
    <2>4. gone \in SUBSET Thread /\ closed \in SUBSET RefreshToken
      BY <1>15 DEF RevokeDelete, TypeOK, LocalsOK, HandlerOK, Request, Pc
    <2> QED
      BY <2>2, <2>3, <2>4, RegistryDrop
  <1>16. ASSUME NEW h \in Thread, RevokeReply(h) PROVE UNCHANGED Registry!registry
    <2>1. \A g \in Thread : registryMinting'[g] = registryMinting[g]
      BY <1>16 DEF RevokeReply, registryMinting, TypeOK, Idle
    <2> QED
      BY <1>16, <2>1, RegistryStutter DEF RevokeReply
  <1>17. ASSUME BundleLoad \/ Tick \/ UNCHANGED vars PROVE UNCHANGED Registry!registry
    BY <1>17, RegistryStutter DEF BundleLoad, Tick, vars, registryMinting
  <1>18. ASSUME Restart PROVE Registry!Next
    <2> DEFINE gone == Thread
               closed == {t \in refreshRows : session[t].expires < now}
    <2>1. \A g \in Thread : registryMinting'[g] = IF g \in gone THEN None
                                                  ELSE registryMinting[g]
      BY <1>18, IdleIsRequest DEF Restart, registryMinting
    <2>2. UNCHANGED <<session, jwt>> /\ refreshRows' = refreshRows \ closed
      BY <1>18 DEF Restart, PruneExpired, PruneRows
    <2>3. gone \in SUBSET Thread /\ closed \in SUBSET RefreshToken
      BY DEF TypeOK
    <2> QED
      BY <2>1, <2>2, <2>3, RegistryDrop
  <1> QED
    BY <1>1, <1>2, <1>3, <1>4, <1>5, <1>6, <1>7, <1>8, <1>9, <1>10, <1>11, <1>12,
       <1>13, <1>14, <1>15, <1>16, <1>17, <1>18 DEF Next, Step

\* The tables, locks and clocks of the store are invisible to a client that knows
\* which sessions are open, which handlers may mint and who owns which token.
THEOREM StoreImplementsRegistry == Spec => ImplementsRegistry
  BY TypeCorrect, RegistryInit, RegistryStep, PTL DEF Spec, ImplementsRegistry, Registry!Spec
================================================================================

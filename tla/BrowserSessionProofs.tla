-------------------------- MODULE BrowserSessionProofs --------------------------
(* Proofs about BrowserSession, for every value of its constants. *)
EXTENDS BrowserSession, TLAPS

USE NoneAssumption

LEMMA TypeInit == Init => TypeOK /\ CallsOK /\ StoredOK
  BY DEF Init, Bff!Init, TypeOK, CallsOK, CallOK, LoginOK, StoredOK, MintsFor, NoCall,
         Cleared, Kind

\* Every step keeps the type invariant.
LEMMA TypeStep == TypeOK /\ CallsOK /\ [Next]_vars => TypeOK'
  <1> SUFFICES ASSUME TypeOK, CallsOK, [Next]_vars PROVE TypeOK'
    OBVIOUS
  <1> USE DEF TypeOK, bff, history
  <1>1. ASSUME NEW k \in Tab, Login(k) PROVE TypeOK'
    BY <1>1 DEF Login, Send, Kind
  <1>2. ASSUME NEW k \in Tab, Refresh(k) PROVE TypeOK'
    BY <1>2 DEF Refresh, Send, Kind
  <1>3. ASSUME NEW k \in Tab, TimerFires(k) PROVE TypeOK'
    BY <1>3 DEF TimerFires, Send, Kind
  <1>4. ASSUME NEW k \in Tab, Logout(k) PROVE TypeOK'
    BY <1>4 DEF Logout, Send, Kind
  <1>5. ASSUME NEW k \in Tab, LogoutAlone(k) PROVE TypeOK'
    BY <1>5 DEF LogoutAlone, Cleared
  <1>6. ASSUME NEW k \in Tab, Reload(k) PROVE TypeOK'
    BY <1>6 DEF Reload, Bff!Drop, NoCall
  <1>7. ASSUME NEW c \in Call, Answered(c) PROVE TypeOK'
    <2>1. call[c].jti \in Jti /\ TabOf(c) \in Tab /\ owner[call[c].jti] \in RefreshToken
      BY <1>7 DEF Answered, CallsOK, CallOK, NoCall, TabOf
    <2>2. CASE call[c].kind = "login"
      BY <1>7, <2>1, <2>2 DEF Answered, StoreTokens, Replace, Return, NoCall
    <2>3. CASE call[c].kind # "login"
      BY <1>7, <2>1, <2>3 DEF Answered, StoreSession, Return, NoCall
    <2> QED
      BY <2>2, <2>3
  <1>8. ASSUME NEW c \in Call, LoginFails(c) PROVE TypeOK'
    BY <1>8 DEF LoginFails, Return, NoCall, Bff!Drop
  <1>9. ASSUME NEW c \in Call, CallClears(c) PROVE TypeOK'
    BY <1>9 DEF CallClears, ClearTokens, Replace, Cleared, Return, NoCall, Bff!Drop
  <1>10. ASSUME NEW c \in Call, Served(c) PROVE TypeOK'
    <2>1. CASE call[c].kind = "login"
      BY <1>10, <2>1 DEF Served, Bff!Open
    <2>2. CASE call[c].kind = "refresh"
      BY <1>10, <2>2 DEF Served, Bff!Begin, CallsOK, CallOK
    <2>3. CASE call[c].kind = "logout"
      BY <1>10, <2>3 DEF Served, Bff!Drop
    <2> QED
      BY <1>10, <2>1, <2>2, <2>3 DEF Served
  <1>11. ASSUME NEW c \in Call, Minted(c) PROVE TypeOK'
    BY <1>11 DEF Minted, Bff!Mint
  <1>12. ASSUME NEW t \in RefreshToken, CloseElsewhere(t) PROVE TypeOK'
    BY <1>12 DEF CloseElsewhere, Bff!Drop
  <1>13. CASE UNCHANGED vars
    BY <1>13 DEF vars
  <1> QED
    BY <1>1, <1>2, <1>3, <1>4, <1>5, <1>6, <1>7, <1>8, <1>9, <1>10, <1>11, <1>12, <1>13
       DEF Next, Settles

\* A call is sent: it presents the stored session, or none, and mints for none yet.
LEMMA SendStep ==
  ASSUME TypeOK, CallsOK, StoredOK, NEW k \in Tab, NEW kind \in Kind,
         NEW t \in RefreshToken \cup {None},
         kind # "login" => t # None /\ t = storage.refresh,
         \E c \in Call : Send(c, k, kind, t),
         UNCHANGED <<bff, storage, history>>
  PROVE  CallsOK' /\ StoredOK'
  <1> USE DEF bff, history
  <1>1. PICK c \in Call : Send(c, k, kind, t)
    OBVIOUS
  <1>2. /\ call[c] = NoCall
        /\ call'[c] = [tab |-> k, kind |-> kind, session |-> t, jti |-> None]
        /\ \A b \in Call \ {c} : call'[b] = call[b]
    BY <1>1 DEF Send, TypeOK
  <1>3. MintsFor(c) = None /\ \A b \in Call : MintsFor(b)' = MintsFor(b)
    BY <1>2 DEF MintsFor, CallsOK, CallOK, NoCall
  <1>4. \A b \in Call : CallOK(b)'
    BY <1>2, <1>3 DEF CallsOK, CallOK, MintsFor, Kind
  <1>5. \A b \in Call : LoginOK(b)'
    BY <1>2, <1>3 DEF CallsOK, LoginOK, NoCall
  <1> QED
    BY <1>4, <1>5 DEF CallsOK, StoredOK

\* Calls end without a word to the storage: each is gone at the BFF as well.
LEMMA EndStep ==
  ASSUME TypeOK, CallsOK, StoredOK, NEW ended \in SUBSET Call,
         call' = [c \in Call |-> IF c \in ended THEN NoCall ELSE call[c]],
         Bff!Drop(ended, {}),
         UNCHANGED <<storage, left, overtaken>>
  PROVE  CallsOK' /\ StoredOK'
  <1>1. /\ \A b \in ended : call'[b] = NoCall /\ minting'[b] = None
        /\ \A b \in Call \ ended : call'[b] = call[b] /\ minting'[b] = minting[b]
        /\ owner' = owner /\ state' = state
    BY DEF TypeOK, Bff!Drop
  <1>2. /\ \A b \in ended : MintsFor(b)' = None
        /\ \A b \in Call \ ended : MintsFor(b)' = MintsFor(b)
    BY <1>1 DEF MintsFor, NoCall
  <1>3. \A b \in Call : CallOK(b)'
    BY <1>1, <1>2 DEF CallsOK, CallOK, MintsFor, NoCall
  <1>4. \A b \in Call : LoginOK(b)'
    BY <1>1, <1>2 DEF CallsOK, LoginOK, NoCall
  <1> QED
    BY <1>1, <1>3, <1>4 DEF CallsOK, StoredOK

\* A call ends and its outcome replaces decpki_refresh by t: the calls that
\* presented the one before are overtaken, and no login is.
LEMMA ReplaceStep ==
  ASSUME TypeOK, CallsOK, StoredOK, NEW c \in Call, NEW t \in RefreshToken \cup {None},
         Replace(c, t), Return(c),
         storage'.refresh = t,
         t # None => call[c].kind = "login" /\ t = MintsFor(c),
         minting'[c] = None,
         \A b \in Call \ {c} : minting'[b] = minting[b],
         UNCHANGED <<owner, state>>
  PROVE  CallsOK' /\ StoredOK'
  <1>1. /\ call'[c] = NoCall
        /\ \A b \in Call \ {c} : call'[b] = call[b]
    BY DEF TypeOK, Return
  <1>2. /\ MintsFor(c)' = None
        /\ \A b \in Call \ {c} : MintsFor(b)' = MintsFor(b)
    BY <1>1 DEF MintsFor, NoCall
  <1>3. /\ left' \subseteq left \cup ({storage.refresh} \ {None})
        /\ overtaken \subseteq overtaken'
        /\ \A b \in Call \ {c} :
              call[b].session # None /\ call[b].session = storage.refresh =>
                 call[b].session \in {t} \cup overtaken'
    BY DEF Replace
  <1>4. t # None => t \notin left \cup {storage.refresh} /\ state[t] # "fresh"
    BY DEF CallsOK, LoginOK
  <1>5. \A b \in Call : CallOK(b)'
    BY <1>1, <1>2, <1>3 DEF CallsOK, CallOK, MintsFor, NoCall
  <1>6. \A b \in Call : LoginOK(b)'
    <2> SUFFICES ASSUME NEW b \in Call, LoginOK(b), call'[b].kind = "login",
                        MintsFor(b)' # None
                 PROVE  /\ MintsFor(b)' \notin left' \cup {t}
                        /\ state[MintsFor(b)'] # "fresh"
                        /\ \A d \in Call \ {b} :
                              call'[d].kind = "login" => MintsFor(d)' # MintsFor(b)'
      BY DEF LoginOK, CallsOK
    <2>1. b # c /\ call[b].kind = "login" /\ MintsFor(b)' = MintsFor(b)
      BY <1>1, <1>2 DEF NoCall
    <2> QED
      BY <1>1, <1>2, <1>3, <2>1 DEF LoginOK, NoCall
  <1>7. StoredOK'
    BY <1>3, <1>4 DEF StoredOK
  <1> QED
    BY <1>5, <1>6, <1>7 DEF CallsOK

\* The outcome of a call: what it writes to decpki_refresh, and that it is gone.
LEMMA OutcomeStep ==
  ASSUME TypeOK, CallsOK, StoredOK, NEW c \in Call, Settles(c)
  PROVE  CallsOK' /\ StoredOK'
  <1> USE DEF bff, history
  <1>1. CASE Answered(c) /\ call[c].kind = "login"
    <2>1. /\ minting[c] = None /\ MintsFor(c) = owner[call[c].jti]
          /\ MintsFor(c) \in RefreshToken
      BY <1>1 DEF Answered, CallsOK, CallOK, MintsFor, TypeOK
    <2>2. Replace(c, MintsFor(c)) /\ Return(c) /\ storage'.refresh = MintsFor(c)
      BY <1>1, <2>1 DEF Answered, StoreTokens
    <2> QED
      BY <1>1, <2>1, <2>2, ReplaceStep DEF Answered
  <1>2. CASE Answered(c) /\ call[c].kind # "login"
    <2>1. minting[c] = None /\ Return(c) /\ storage'.refresh = storage.refresh
      BY <1>2 DEF Answered, StoreSession, CallsOK, CallOK, TypeOK
    <2>2. call'[c] = NoCall /\ \A b \in Call \ {c} : call'[b] = call[b]
      BY <2>1 DEF Return, TypeOK
    <2>3. MintsFor(c)' = None /\ \A b \in Call \ {c} : MintsFor(b)' = MintsFor(b)
      BY <1>2, <2>1, <2>2 DEF Answered, MintsFor, NoCall
    <2>4. UNCHANGED <<state, minting, owner, left, overtaken>>
      BY <1>2 DEF Answered, StoreSession
    <2>5. \A b \in Call : CallOK(b)'
      BY <2>1, <2>2, <2>3, <2>4 DEF CallsOK, CallOK, MintsFor, NoCall
    <2>6. \A b \in Call : LoginOK(b)'
      BY <2>1, <2>2, <2>3, <2>4 DEF CallsOK, LoginOK, NoCall
    <2> QED
      BY <2>1, <2>4, <2>5, <2>6 DEF CallsOK, StoredOK
  <1>3. CASE LoginFails(c)
    <2>1. call' = [b \in Call |-> IF b \in {c} THEN NoCall ELSE call[b]]
      BY <1>3 DEF LoginFails, Return, TypeOK
    <2> QED
      BY <1>3, <2>1, EndStep DEF LoginFails
  <1>4. CASE CallClears(c)
    <2>1. /\ Replace(c, None) /\ Return(c) /\ storage'.refresh = None
          /\ minting'[c] = None /\ \A b \in Call \ {c} : minting'[b] = minting[b]
          /\ UNCHANGED <<owner, state>>
      BY <1>4 DEF CallClears, ClearTokens, Cleared, Bff!Drop, TypeOK
    <2> QED
      BY <2>1, ReplaceStep
  <1> QED
    BY <1>1, <1>2, <1>3, <1>4 DEF Settles

\* A session is closed.
LEMMA CloseStep ==
  ASSUME TypeOK, CallsOK, StoredOK, NEW t \in RefreshToken, Bff!Drop({}, {t}),
         UNCHANGED <<storage, call, left, overtaken>>
  PROVE  CallsOK' /\ StoredOK'
  BY DEF Bff!Drop, CallsOK, CallOK, LoginOK, StoredOK, MintsFor, TypeOK

\* A step at the BFF: a login opens a session no one has, a call that mints
\* mints for the session it had.
LEMMA ServedStep ==
  ASSUME TypeOK, CallsOK, StoredOK, NEW c \in Call, Served(c)
  PROVE  CallsOK' /\ StoredOK'
  <1>1. /\ call[c].jti = None /\ MintsFor(c) = minting[c]
        /\ UNCHANGED <<storage, call, left, overtaken>>
    BY DEF Served, MintsFor, history
  <1>2. CASE call[c].kind = "login"
    <2>1. PICK t \in RefreshToken : Bff!Open(c, t)
      BY <1>2 DEF Served
    <2>2. /\ MintsFor(c) = None /\ MintsFor(c)' = t
          /\ \A b \in Call \ {c} : MintsFor(b)' = MintsFor(b)
      BY <1>1, <2>1 DEF MintsFor, Bff!Open, TypeOK
    <2>3. /\ state[t] = "fresh" /\ state'[t] = "open" /\ owner' = owner
          /\ \A u \in RefreshToken \ {t} : state'[u] = state[u]
          /\ \A b \in Call \ {c} : minting'[b] = minting[b]
      BY <2>1 DEF Bff!Open, TypeOK
    <2>4. \A b \in Call : CallOK(b)'
      BY <1>1, <1>2, <2>2, <2>3 DEF CallsOK, CallOK
    <2>5. \A b \in Call \ {c} : MintsFor(b) \in RefreshToken \cup {None}
      BY DEF MintsFor, TypeOK
    <2>6. t \notin left \cup {storage.refresh} /\ t # None
      BY <2>3 DEF StoredOK
    <2>7. \A b \in Call \ {c} : call[b].kind = "login" => MintsFor(b) # t
      BY <2>3, <2>6 DEF CallsOK, LoginOK
    <2>8. LoginOK(c)'
      BY <1>1, <2>2, <2>3, <2>6, <2>7 DEF LoginOK
    <2>9. \A b \in Call \ {c} : LoginOK(b)'
      BY <1>1, <2>2, <2>3, <2>5, <2>7 DEF CallsOK, LoginOK
    <2>10. StoredOK'
      BY <1>1, <2>3 DEF StoredOK
    <2> QED
      BY <2>4, <2>8, <2>9, <2>10 DEF CallsOK
  <1>3. CASE call[c].kind = "refresh"
    <2>1. Bff!Begin(c, call[c].session)
      BY <1>3 DEF Served
    <2>2. /\ MintsFor(c)' = call[c].session
          /\ \A b \in Call \ {c} : MintsFor(b)' = MintsFor(b) /\ minting'[b] = minting[b]
          /\ UNCHANGED <<state, owner>>
      BY <1>1, <2>1 DEF MintsFor, Bff!Begin, TypeOK
    <2>3. \A b \in Call : CallOK(b)'
      BY <1>1, <1>3, <2>2 DEF CallsOK, CallOK
    <2>4. \A b \in Call : LoginOK(b)'
      BY <1>1, <1>3, <2>2 DEF CallsOK, LoginOK
    <2> QED
      BY <1>1, <2>2, <2>3, <2>4 DEF CallsOK, StoredOK
  <1>4. CASE call[c].kind = "logout"
    <2>1. PICK t \in RefreshToken : Bff!Drop({}, {t})
      BY <1>4 DEF Served, CallsOK, CallOK, TypeOK
    <2> QED
      BY <1>1, <2>1, CloseStep
  <1> QED
    BY <1>2, <1>3, <1>4 DEF Served

\* A call mints for the session it was to mint for.
LEMMA MintedStep ==
  ASSUME TypeOK, CallsOK, StoredOK, NEW c \in Call, Minted(c)
  PROVE  CallsOK' /\ StoredOK'
  <1>1. PICK j \in Jti : Bff!Mint(c, j) /\ call' = [call EXCEPT ![c].jti = j]
    BY DEF Minted
  <1>2. call[c].jti = None /\ j # None /\ minting[c] \in RefreshToken
    BY <1>1 DEF Bff!Mint, CallsOK, CallOK, TypeOK
  <1>3. /\ call'[c] = [call[c] EXCEPT !.jti = j] /\ minting'[c] = None
        /\ owner[j] = None /\ owner'[j] = minting[c]
        /\ \A b \in Call \ {c} : call'[b] = call[b] /\ minting'[b] = minting[b]
        /\ \A i \in Jti \ {j} : owner'[i] = owner[i]
        /\ UNCHANGED <<state, storage, left, overtaken>>
    BY <1>1 DEF Bff!Mint, Minted, TypeOK, history
  <1>4. \A b \in Call : call'[b].kind = call[b].kind /\ call'[b].session = call[b].session
    BY <1>3 DEF TypeOK
  <1>5. MintsFor(c)' = MintsFor(c)
    BY <1>2, <1>3 DEF MintsFor, TypeOK
  <1>6. \A b \in Call \ {c} : call[b].jti # None => call[b].jti # j
    BY <1>3 DEF CallsOK, CallOK
  <1>7. \A b \in Call \ {c} : MintsFor(b)' = MintsFor(b)
    BY <1>3, <1>6 DEF MintsFor, TypeOK
  <1>8. CallOK(c)'
    <2>1. call[c] # NoCall /\ call'[c].tab = call[c].tab
      BY <1>2, <1>3 DEF CallsOK, CallOK, MintsFor, NoCall, TypeOK
    <2> QED
      BY <1>2, <1>3, <1>4, <1>5, <2>1 DEF CallsOK, CallOK, TypeOK
  <1>9. \A b \in Call \ {c} : CallOK(b)'
    BY <1>3, <1>4, <1>6, <1>7 DEF CallsOK, CallOK, TypeOK
  <1>10. \A b \in Call : LoginOK(b)'
    BY <1>3, <1>4, <1>5, <1>7 DEF CallsOK, LoginOK
  <1> QED
    BY <1>3, <1>8, <1>9, <1>10 DEF CallsOK, StoredOK

\* What calls hold stays as it is said to be in every step.
LEMMA CallsStep ==
  TypeOK /\ CallsOK /\ StoredOK /\ [Next]_vars => CallsOK' /\ StoredOK'
  <1> SUFFICES ASSUME TypeOK, CallsOK, StoredOK, [Next]_vars
               PROVE  CallsOK' /\ StoredOK'
    OBVIOUS
  <1> DEFINE Kept == CallsOK' /\ StoredOK'
  <1>1. ASSUME NEW k \in Tab, Login(k) PROVE Kept
    BY <1>1, SendStep DEF Login, Kind
  <1>2. ASSUME NEW k \in Tab, Refresh(k) PROVE Kept
    BY <1>2, SendStep DEF Refresh, Kind, TypeOK
  <1>3. ASSUME NEW k \in Tab, TimerFires(k) PROVE Kept
    <2>1. CASE UNCHANGED call
      BY <1>3, <2>1 DEF TimerFires, CallsOK, CallOK, LoginOK, StoredOK, MintsFor, bff, history
    <2>2. CASE storage.refresh # None /\ \E c \in Call : Send(c, k, "refresh", storage.refresh)
      BY <1>3, <2>2, SendStep DEF TimerFires, Kind, TypeOK
    <2> QED
      BY <1>3, <2>1, <2>2 DEF TimerFires
  <1>4. ASSUME NEW k \in Tab, Logout(k) PROVE Kept
    BY <1>4, SendStep DEF Logout, Kind, TypeOK
  <1>5. ASSUME NEW k \in Tab, LogoutAlone(k) PROVE Kept
    BY <1>5 DEF LogoutAlone, CallsOK, CallOK, LoginOK, StoredOK, MintsFor, Cleared, bff
  <1>6. ASSUME NEW k \in Tab, Reload(k) PROVE Kept
    BY <1>6, EndStep DEF Reload
  <1>7. ASSUME NEW c \in Call, Settles(c) PROVE Kept
    BY <1>7, OutcomeStep
  <1>8. ASSUME NEW c \in Call, Served(c) PROVE Kept
    BY <1>8, ServedStep
  <1>9. ASSUME NEW c \in Call, Minted(c) PROVE Kept
    BY <1>9, MintedStep
  <1>10. ASSUME NEW t \in RefreshToken, CloseElsewhere(t) PROVE Kept
    BY <1>10, CloseStep DEF CloseElsewhere, history
  <1>11. CASE UNCHANGED vars
    BY <1>11 DEF vars, bff, history, CallsOK, CallOK, LoginOK, StoredOK, MintsFor
  <1> QED
    BY <1>1, <1>2, <1>3, <1>4, <1>5, <1>6, <1>7, <1>8, <1>9, <1>10, <1>11 DEF Next

\* What a call that was answered stores is a token of the session it is for.
LEMMA AnswerOwner ==
  ASSUME TypeOK, CallsOK, NEW c \in Call, Answered(c)
  PROVE  /\ call[c].kind \in {"login", "refresh"}
         /\ owner[call[c].jti] = MintsFor(c) /\ MintsFor(c) # None
         /\ call[c].kind = "refresh" => MintsFor(c) = call[c].session
         /\ owner' = owner
  BY DEF Answered, CallsOK, CallOK, MintsFor, NoCall, TypeOK, Kind, bff

LEMMA StaysOutStep ==
  TypeOK /\ CallsOK /\ LoggedOutStaysOut /\ [Next]_vars => LoggedOutStaysOut'
  <1> SUFFICES ASSUME TypeOK, CallsOK, LoggedOutStaysOut, [Next]_vars
               PROVE  LoggedOutStaysOut'
    OBVIOUS
  <1> USE DEF LoggedOutStaysOut, history
  <1>1. ASSUME NEW c \in Call, Answered(c) PROVE LoggedOutStaysOut'
    <2>1. CASE call[c].kind = "login"
      <3>1. MintsFor(c) \notin left \cup {storage.refresh}
        BY <1>1, <2>1, AnswerOwner DEF CallsOK, LoginOK
      <3>2. storage'.refresh = MintsFor(c) /\ left' \subseteq left \cup {storage.refresh}
        BY <1>1, <2>1, AnswerOwner DEF Answered, StoreTokens, Replace
      <3> QED
        BY <3>1, <3>2
    <2>2. CASE call[c].kind # "login"
      BY <1>1, <2>2 DEF Answered, StoreSession, TypeOK
    <2> QED
      BY <2>1, <2>2
  <1>2. ASSUME NEW c \in Call, CallClears(c) PROVE LoggedOutStaysOut'
    BY <1>2 DEF CallClears, ClearTokens, Replace, Cleared, TypeOK
  <1>3. ASSUME NEW k \in Tab, LogoutAlone(k) PROVE LoggedOutStaysOut'
    BY <1>3 DEF LogoutAlone, Cleared
  <1>4. CASE UNCHANGED <<storage, left>>
    BY <1>4
  <1> QED
    BY <1>1, <1>2, <1>3, <1>4 DEF Next, Settles, Login, Refresh, TimerFires, Logout, Reload,
       LoginFails, Served, Minted, CloseElsewhere, vars

LEMMA TogetherStep ==
  TypeOK /\ CallsOK /\ TokensTogether /\ [Next]_vars => TokensTogether'
  <1> SUFFICES ASSUME TypeOK, CallsOK, TokensTogether, [Next]_vars
               PROVE  TokensTogether'
    OBVIOUS
  <1> USE DEF TokensTogether, history
  <1>1. ASSUME NEW c \in Call, Answered(c) PROVE TokensTogether'
    <2>1. CASE call[c].kind = "login"
      BY <1>1, <2>1, AnswerOwner DEF Answered, StoreTokens
    <2>2. CASE call[c].kind # "login"
      <3>1. MintsFor(c) \in {storage.refresh} \cup overtaken
        BY <1>1, <2>2, AnswerOwner DEF CallsOK, CallOK
      <3>2. storage' = [storage EXCEPT !.session = call[c].jti] /\ overtaken' = overtaken
        BY <1>1, <2>2 DEF Answered, StoreSession
      <3> QED
        BY <1>1, <3>1, <3>2, AnswerOwner DEF TypeOK
    <2> QED
      BY <2>1, <2>2
  <1>2. ASSUME NEW c \in Call, CallClears(c) PROVE TokensTogether'
    BY <1>2 DEF CallClears, ClearTokens, Cleared
  <1>3. ASSUME NEW k \in Tab, LogoutAlone(k) PROVE TokensTogether'
    BY <1>3 DEF LogoutAlone, Cleared
  <1>4. ASSUME NEW c \in Call, Minted(c) PROVE TokensTogether'
    <2>1. storage.session # None => storage.session \in Jti /\ owner[storage.session] # None
      BY DEF TypeOK
    <2> QED
      BY <1>4, <2>1 DEF Minted, Bff!Mint, TypeOK
  <1>5. CASE UNCHANGED <<storage, overtaken, owner>>
    BY <1>5
  <1> QED
    BY <1>1, <1>2, <1>3, <1>4, <1>5 DEF Next, Settles, Login, Refresh, TimerFires, Logout,
       Reload, LoginFails, Served, CloseElsewhere, vars, bff,
       Bff!Open, Bff!Begin, Bff!Drop

LEMMA FreshStep ==
  TypeOK /\ CallsOK /\ KeptFresh /\ [Next]_vars => KeptFresh'
  <1> SUFFICES ASSUME TypeOK, CallsOK, KeptFresh, [Next]_vars,
                      keeper' # None, storage'.refresh # None
               PROVE  \/ keeper' \in timer'
                      \/ \E c \in Call : TabOf(c)' = keeper' /\ call'[c].kind = "refresh"
    BY DEF KeptFresh
  <1> DEFINE Goal == \/ keeper' \in timer'
                     \/ \E c \in Call : TabOf(c)' = keeper' /\ call'[c].kind = "refresh"
  <1> USE DEF TabOf, history
  <1>1. ASSUME NEW k \in Tab, NEW kind \in Kind, NEW t \in RefreshToken \cup {None},
               \E c \in Call : Send(c, k, kind, t),
               UNCHANGED <<storage, history>>,
               timer' = timer \/ (timer' = timer \ {k} /\ kind = "refresh")
        PROVE  Goal
    <2>1. PICK c \in Call : Send(c, k, kind, t)
      BY <1>1
    <2>2. /\ call'[c].tab = k /\ call'[c].kind = kind
          /\ \A b \in Call : call[b].kind = "refresh" => call'[b] = call[b]
      BY <2>1 DEF Send, NoCall, TypeOK
    <2>3. CASE keeper \in timer
      BY <1>1, <2>2, <2>3
    <2>4. CASE \E b \in Call : call[b].tab = keeper /\ call[b].kind = "refresh"
      BY <1>1, <2>2, <2>4
    <2> QED
      BY <1>1, <2>3, <2>4 DEF KeptFresh
  <1>2. ASSUME NEW k \in Tab, Login(k) \/ Refresh(k) \/ Logout(k) PROVE Goal
    BY <1>1, <1>2 DEF Login, Refresh, Logout, Kind, TypeOK
  <1>3. ASSUME NEW k \in Tab, TimerFires(k) PROVE Goal
    BY <1>1, <1>3 DEF TimerFires, Kind, TypeOK
  <1>4. ASSUME NEW k \in Tab, Reload(k) PROVE Goal
    BY <1>4 DEF Reload, KeptFresh
  <1>5. ASSUME NEW c \in Call, Answered(c) PROVE Goal
    BY <1>5 DEF Answered, StoreTokens, StoreSession
  <1>6. ASSUME NEW c \in Call, LoginFails(c) PROVE Goal
    BY <1>6 DEF LoginFails, Return, KeptFresh, TypeOK
  <1>7. ASSUME NEW c \in Call, CallClears(c) \/ (\E k \in Tab : LogoutAlone(k)) PROVE Goal
    BY <1>7 DEF CallClears, ClearTokens, LogoutAlone
  <1>8. ASSUME NEW c \in Call, Minted(c) PROVE Goal
    BY <1>8 DEF Minted, KeptFresh, TypeOK
  <1>9. CASE UNCHANGED <<storage, timer, call, keeper>>
    BY <1>9 DEF KeptFresh
  <1> QED
    BY <1>2, <1>3, <1>4, <1>5, <1>6, <1>7, <1>8, <1>9 DEF Next, Settles, Served,
       CloseElsewhere, LogoutAlone, vars

LEMMA KeptStep ==
  TypeOK /\ CallsOK /\ [Next]_vars =>
     [storage.refresh # None /\ storage'.refresh = None =>
         \E c \in Call :
            /\ call[c].kind \in {"refresh", "logout"} /\ call'[c] = NoCall
            /\ call[c].session \in {storage.refresh} \cup overtaken]_storage
  <1> SUFFICES ASSUME TypeOK, CallsOK, [Next]_vars,
                      storage.refresh # None, storage'.refresh = None
               PROVE  \E c \in Call :
                         /\ call[c].kind \in {"refresh", "logout"} /\ call'[c] = NoCall
                         /\ call[c].session \in {storage.refresh} \cup overtaken
    OBVIOUS
  <1>1. ASSUME NEW c \in Call, Answered(c) PROVE FALSE
    BY <1>1, AnswerOwner DEF Answered, StoreTokens, StoreSession, TypeOK
  <1>2. \E c \in Call : CallClears(c)
    BY <1>1 DEF Next, Settles, Login, Refresh, TimerFires, Logout, LogoutAlone, Reload,
       LoginFails, Served, Minted, CloseElsewhere, vars
  <1> QED
    BY <1>2 DEF CallClears, Return, CallsOK, CallOK, TypeOK

--------------------------------------------------------------------------------
\* The types hold, and the calls hold what CallsOK says they do.
THEOREM TypeCorrect == Spec => [](TypeOK /\ CallsOK /\ StoredOK)
  <1>1. TypeOK /\ CallsOK /\ StoredOK /\ [Next]_vars => (TypeOK /\ CallsOK /\ StoredOK)'
    BY TypeStep, CallsStep
  <1> QED
    BY TypeInit, <1>1, PTL DEF Spec

\* A refresh token that left localStorage never comes back, whatever answers are
\* late, for any number of tabs, calls and sessions.
THEOREM NoLateUndo == Spec => []LoggedOutStaysOut
  <1>1. Init => LoggedOutStaysOut
    BY DEF Init, LoggedOutStaysOut
  <1> QED
    BY <1>1, TypeCorrect, StaysOutStep, PTL DEF Spec

\* Both stored tokens are of one session, unless an overtaken refresh was answered.
THEOREM OneSessionStored == Spec => []TokensTogether
  <1>1. Init => TokensTogether
    BY DEF Init, TokensTogether, Cleared
  <1> QED
    BY <1>1, TypeCorrect, TogetherStep, PTL DEF Spec

\* While the tab that stored a token lives, a refresh of it is scheduled or waiting.
THEOREM RefreshScheduled == Spec => []KeptFresh
  <1>1. Init => KeptFresh
    BY DEF Init, KeptFresh
  <1> QED
    BY <1>1, TypeCorrect, FreshStep, PTL DEF Spec

\* Only a call that presented the stored session, or an overtaken one, clears it.
THEOREM LoginIsKept == Spec => LoginKept
  BY TypeCorrect, KeptStep, PTL DEF Spec, LoginKept
================================================================================

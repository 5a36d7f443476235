----------------------------- MODULE BrowserSession -----------------------------
(***************************************************************************)
(* DecPKISession in the tabs of one browser (browser/src/session.js), with *)
(* the BFF as SessionRegistry promises it.  The tabs share localStorage,   *)
(* each has its own refresh timer, and their calls overlap: whatever a     *)
(* call has read from localStorage may have changed when its answer comes. *)
(* A stretch of code between two awaits is one action.  A timer fires at   *)
(* any time after it is set: at once, when SESSION_LIFETIME_SECONDS is no  *)
(* more than REFRESH_BEFORE_SECS.                                          *)
(*                                                                         *)
(* What a request still does at the BFF after its client stopped waiting   *)
(* is to use up identifiers, or to close a session as CloseElsewhere does: *)
(* it ends with the wait.                                                  *)
(***************************************************************************)
CONSTANTS Tab,           \* the tabs, or the DecPKISession objects of one tab
          RefreshToken,  \* the refresh tokens ever drawn: one per session
          Jti,           \* the session tokens ever minted
          Call,          \* bound on the calls in progress at once
          None           \* nothing stored, no call, no answer

ASSUME NoneAssumption == None \notin Tab \cup RefreshToken \cup Jti

VARIABLES
    state, minting, owner,  \* the BFF: see SessionRegistry
    storage,    \* localStorage: decpki_session, decpki_refresh; decpki_did comes
                \* and goes with the latter, decpki_expires_at with the former
    timer,      \* the tabs whose _refreshTimer runs
    call,       \* the calls in progress
    \* History, which no code reads:
    keeper,     \* the tab that wrote the stored session token, while it lives
    left,       \* sessions that were in storage and are no longer
    overtaken   \* those of them that left while a call presenting them waited

bff     == <<state, minting, owner>>
history == <<keeper, left, overtaken>>
vars    == <<bff, storage, timer, call, history>>

Bff == INSTANCE SessionRegistry WITH Thread <- Call

Kind    == {"login", "refresh", "logout"}
NoCall  == [tab |-> None, kind |-> "none", session |-> None, jti |-> None]
Cleared == [session |-> None, refresh |-> None]

TabOf(c) == call[c].tab

Init ==
    /\ Bff!Init
    /\ storage = Cleared
    /\ timer = {}
    /\ call = [c \in Call |-> NoCall]
    /\ keeper = None
    /\ left = {}
    /\ overtaken = {}

--------------------------------------------------------------------------------
(* localStorage and the timer *)

\* The history of a write of decpki_refresh by call c.
Replace(c, t) ==
    LET old == storage.refresh
        waiting == {b \in Call \ {c} : call[b].session = old} IN
    IF old \in {None, t}
    THEN UNCHANGED <<left, overtaken>>
    ELSE /\ left' = left \cup {old}
         /\ overtaken' = IF waiting # {} THEN overtaken \cup {old} ELSE overtaken

\* Mutant of StoreTokens: the answer's fields are swapped.
StoreTokensSwapped(c, j) ==
    /\ storage' = [session |-> owner[j], refresh |-> j]
    /\ timer' = timer \cup {TabOf(c)}
    /\ keeper' = TabOf(c)
    /\ Replace(c, owner[j])

\* _storeTokens and _scheduleRefresh of login.
StoreTokens(c, j) ==
    /\ storage' = [session |-> j, refresh |-> owner[j]]
    /\ timer' = timer \cup {TabOf(c)}
    /\ keeper' = TabOf(c)
    /\ Replace(c, owner[j])

\* Mutants of StoreSession: the next refresh is not scheduled; the refresh token
\* is written as well, as login does.
StoreSessionOnly(c, j) ==
    /\ storage' = [storage EXCEPT !.session = j]
    /\ keeper' = TabOf(c)
    /\ UNCHANGED <<timer, left, overtaken>>

StoreSessionAndRefresh(c, j) ==
    /\ storage' = [session |-> j, refresh |-> owner[j]]
    /\ timer' = timer \cup {TabOf(c)}
    /\ keeper' = TabOf(c)
    /\ Replace(c, owner[j])

\* The end of refresh: whatever else localStorage holds by now stays.
StoreSession(c, j) ==
    /\ storage' = [storage EXCEPT !.session = j]
    /\ timer' = timer \cup {TabOf(c)}
    /\ keeper' = TabOf(c)
    /\ UNCHANGED <<left, overtaken>>

\* Mutant of ClearTokens: a key is forgotten.
ClearRefreshOnly(c) ==
    /\ storage' = [storage EXCEPT !.refresh = None]
    /\ timer' = timer \ {TabOf(c)}
    /\ keeper' = None
    /\ Replace(c, None)

\* _clearTokens: of the timers, only this tab's.
ClearTokens(c) ==
    /\ storage' = Cleared
    /\ timer' = timer \ {TabOf(c)}
    /\ keeper' = None
    /\ Replace(c, None)

--------------------------------------------------------------------------------
(* A tab *)

Send(c, k, kind, t) ==
    /\ call[c] = NoCall
    /\ call' = [call EXCEPT ![c] = [tab |-> k, kind |-> kind, session |-> t, jti |-> None]]
Return(c) == call' = [call EXCEPT ![c] = NoCall]

\* login, from its POST of the assertion: nothing is stored before the answer.
Login(k) ==
    /\ \E c \in Call : Send(c, k, "login", None)
    /\ UNCHANGED <<bff, storage, timer, history>>

\* refresh; or getToken, when the stored session token is about to expire.
Refresh(k) ==
    /\ storage.refresh # None
    /\ \E c \in Call : Send(c, k, "refresh", storage.refresh)
    /\ UNCHANGED <<bff, storage, timer, history>>

\* Mutant of TimerFires: setInterval for setTimeout.
TimerKeepsFiring(k) ==
    /\ k \in timer
    /\ storage.refresh # None
    /\ \E c \in Call : Send(c, k, "refresh", storage.refresh)
    /\ UNCHANGED <<bff, storage, timer, history>>

\* The timer's callback calls refresh, which throws when there is no refresh
\* token and leaves the rest as it is.
TimerFires(k) ==
    /\ k \in timer
    /\ timer' = timer \ {k}
    /\ \/ /\ storage.refresh # None
          /\ \E c \in Call : Send(c, k, "refresh", storage.refresh)
       \/ storage.refresh = None /\ UNCHANGED call
    /\ UNCHANGED <<bff, storage, history>>

\* logout.
Logout(k) ==
    /\ storage.refresh # None
    /\ \E c \in Call : Send(c, k, "logout", storage.refresh)
    /\ UNCHANGED <<bff, storage, timer, history>>

\* logout without a refresh token: there is nothing to wait for.
LogoutAlone(k) ==
    /\ storage.refresh = None
    /\ storage' = Cleared
    /\ timer' = timer \ {k}
    /\ keeper' = None
    /\ UNCHANGED <<bff, call, left, overtaken>>

\* The answer to login or refresh.
Answered(c) ==
    LET j == call[c].jti IN
    /\ j # None
    /\ IF call[c].kind = "login" THEN StoreTokens(c, j) ELSE StoreSession(c, j)
    /\ Return(c)
    /\ UNCHANGED bff

\* Mutant of LoginFails: it clears what another tab may have stored.
LoginFailsAndClears(c) ==
    /\ call[c].kind = "login"
    /\ ClearTokens(c)
    /\ Return(c)
    /\ Bff!Drop({c}, {})

\* login: any other answer, a network error or a cancelled prompt.
LoginFails(c) ==
    /\ call[c].kind = "login"
    /\ Return(c)
    /\ Bff!Drop({c}, {})
    /\ UNCHANGED <<storage, timer, history>>

\* Mutant of CallClears: a refresh that fails leaves the tokens alone.
LogoutClears(c) ==
    /\ call[c].kind \in {"refresh", "logout"}
    /\ IF call[c].kind = "logout"
       THEN ClearTokens(c)
       ELSE UNCHANGED <<storage, timer, history>>
    /\ Return(c)
    /\ Bff!Drop({c}, {})

\* refresh: any other answer or a network error; logout: any outcome at all.
CallClears(c) ==
    /\ call[c].kind \in {"refresh", "logout"}
    /\ ClearTokens(c)
    /\ Return(c)
    /\ Bff!Drop({c}, {})

\* A tab is closed or reloaded: its timer and its calls are gone, localStorage
\* stays, and nothing schedules a refresh anew.
Reload(k) ==
    LET mine == {c \in Call : TabOf(c) = k} IN
    /\ timer' = timer \ {k}
    /\ call' = [c \in Call |-> IF c \in mine THEN NoCall ELSE call[c]]
    /\ keeper' = IF keeper = k THEN None ELSE keeper
    /\ Bff!Drop(mine, {})
    /\ UNCHANGED <<storage, left, overtaken>>

--------------------------------------------------------------------------------
(* The BFF *)

\* A call reaches the BFF: a login opens a session, a refresh finds it open, a
\* logout closes it.
Served(c) ==
    /\ call[c].jti = None
    /\ \/ call[c].kind = "login" /\ \E t \in RefreshToken : Bff!Open(c, t)
       \/ call[c].kind = "refresh" /\ Bff!Begin(c, call[c].session)
       \/ call[c].kind = "logout" /\ state[call[c].session] = "open"
                                  /\ Bff!Drop({}, {call[c].session})
    /\ UNCHANGED <<storage, timer, call, history>>

Minted(c) ==
    /\ \E j \in Jti : Bff!Mint(c, j) /\ call' = [call EXCEPT ![c].jti = j]
    /\ UNCHANGED <<storage, timer, history>>

\* The user revokes a session, from here or elsewhere (DecPKISessions.revoke
\* leaves localStorage alone, also when the session is the stored one), or the
\* session expires.
CloseElsewhere(t) ==
    /\ state[t] = "open"
    /\ Bff!Drop({}, {t})
    /\ UNCHANGED <<storage, timer, call, history>>

--------------------------------------------------------------------------------
Settles(c) == Answered(c) \/ LoginFails(c) \/ CallClears(c)

Next ==
    \/ \E k \in Tab : Login(k) \/ Refresh(k) \/ TimerFires(k) \/ Logout(k)
                   \/ LogoutAlone(k) \/ Reload(k)
    \/ \E c \in Call : Settles(c) \/ Served(c) \/ Minted(c)
    \/ \E t \in RefreshToken : CloseElsewhere(t)

Spec == Init /\ [][Next]_vars

\* Time passes, timers fire and every fetch settles: it is answered, or the
\* browser reports an error.  Nothing is assumed of the users and of the BFF.
Fairness ==
    /\ \A k \in Tab : SF_vars(TimerFires(k))
    /\ \A c \in Call : WF_vars(Settles(c))

--------------------------------------------------------------------------------
(* Properties *)

\* Types; a timer waits for, and storage holds, tokens that were minted.
TypeOK ==
    /\ state \in [RefreshToken -> {"fresh", "open", "closed"}]
    /\ minting \in [Call -> RefreshToken \cup {None}]
    /\ owner \in [Jti -> RefreshToken \cup {None}]
    /\ storage \in [session: Jti \cup {None}, refresh: RefreshToken \cup {None}]
    /\ storage.session # None => owner[storage.session] # None
    /\ timer \subseteq Tab
    /\ call \in [Call -> [tab: Tab \cup {None}, kind: Kind \cup {"none"},
                          session: RefreshToken \cup {None}, jti: Jti \cup {None}]]
    /\ keeper \in Tab \cup {None}
    /\ left \subseteq RefreshToken
    /\ overtaken \subseteq left

\* The session token and the refresh token in localStorage are of one session,
\* whatever the tabs log in, refresh and log out at once, unless a refresh was
\* waiting when its session left: its answer is stored beside whatever is there
\* by then, or alone (refresh reads decpki_refresh before its await only).
TokensTogether ==
    storage.session # None =>
        owner[storage.session] \in {storage.refresh} \cup overtaken

\* A tab that stored the session token will replace it in time: its timer runs or
\* a refresh of its own is waiting, whichever of its calls overlap, succeed or
\* fail (_scheduleRefresh and _clearTokens share one _refreshTimer).
KeptFresh ==
    keeper # None /\ storage.refresh # None =>
        \/ keeper \in timer
        \/ \E c \in Call : TabOf(c) = keeper /\ call[c].kind = "refresh"

\* A refresh token that left localStorage never comes back: no late answer undoes
\* a logout or a newer login.
LoggedOutStaysOut == storage.refresh \notin left

\* A login is lost only to a logout or a failed refresh that presented its own
\* session, or one that had been overtaken by it.
LoginKept ==
    [][storage.refresh # None /\ storage'.refresh = None =>
          \E c \in Call :
             /\ call[c].kind \in {"refresh", "logout"} /\ call'[c] = NoCall
             /\ call[c].session \in {storage.refresh} \cup overtaken]_storage

\* Silent refresh never stalls: as long as the tab that stored a token lives and
\* nobody logs out, that token does not stay: it is replaced, or its session found
\* closed and the tokens cleared.
Keeps(j) == storage.session = j /\ keeper # None /\ storage.refresh # None
SilentRefresh == \A j \in Jti : []<>~Keeps(j)

\* A session that was revoked elsewhere, or has expired, is noticed: the tokens go
\* as soon as a refresh of the tab that keeps them is refused, whatever refreshes
\* the BFF had begun before still bring.
Unnoticed(t) == storage.refresh = t /\ state[t] = "closed" /\ keeper # None
RevocationNoticed == \A t \in RefreshToken : []<>~Unnoticed(t)

\* After a logout the other tabs come to rest: their timers, which logout does
\* not stop, and late answers do not keep refreshing without a refresh token.
Quiet ==
    /\ timer = {}
    /\ \A c \in Call : call[c].kind # "refresh"
LogoutQuiets == []<>(storage.refresh # None \/ Quiet)

--------------------------------------------------------------------------------
(* The inductive invariant behind the safety properties. *)

\* The session a login or refresh mints for, and then that of its token.
MintsFor(c) == IF call[c].jti = None THEN minting[c] ELSE owner[call[c].jti]

\* What a call holds, at its tab and at the BFF.  A refresh or logout presents the
\* stored session, or one it has been overtaken by.
CallOK(c) ==
    /\ call[c] = NoCall \/ (call[c].tab \in Tab /\ call[c].kind \in Kind)
    /\ call[c].kind \in {"refresh", "logout"} =>
          /\ call[c].session # None
          /\ call[c].session \in {storage.refresh} \cup overtaken
    /\ call[c].jti # None => minting[c] = None /\ owner[call[c].jti] # None
    /\ call[c].kind \notin {"login", "refresh"} => MintsFor(c) = None
    /\ call[c].kind = "refresh" => MintsFor(c) \in {None, call[c].session}

\* No two logins have a session in common, and none has one that was stored before.
LoginOK(c) ==
    call[c].kind = "login" /\ MintsFor(c) # None =>
        /\ MintsFor(c) \notin left \cup {storage.refresh}
        /\ state[MintsFor(c)] # "fresh"
        /\ \A b \in Call \ {c} : call[b].kind = "login" => MintsFor(b) # MintsFor(c)

CallsOK  == \A c \in Call : CallOK(c) /\ LoginOK(c)
StoredOK == \A t \in RefreshToken : t \in left \cup {storage.refresh} => state[t] # "fresh"
================================================================================

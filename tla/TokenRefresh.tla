---------------------------- MODULE TokenRefresh ----------------------------
(***************************************************************************)
(* How the mobile app keeps its session (mobile/src/api/client.ts,         *)
(* store/authStore.ts, api/auth.ts): a request refused with 401 renews the *)
(* pair of access and refresh token by POST /auth/refresh, which the       *)
(* requests share through refreshPromise, stores the pair key by key and   *)
(* is sent once more.  The server rotates refresh tokens (backend          *)
(* auth/refresh_token.go): each serves once, and one used again revokes    *)
(* its family.  (Its one caller names no user, which the table refuses: as *)
(* long as that is so, Refuse is what the server does.)  JavaScript runs   *)
(* one task at a time, so a step ends where the code awaits.  Network and  *)
(* storage are external, and storage works; the network may lose an answer *)
(* and deliver a POST after the app has given up on it.                    *)
(***************************************************************************)
EXTENDS Naturals

CONSTANTS
    Requests,   \* the requests the app's screens and hooks make, each once
    MaxPairs,   \* bound: pairs of tokens the server issues
    MaxKills    \* bound: how often the phone kills the app

ASSUME RefreshAssumption ==
    /\ MaxPairs \in Nat \ {0}
    /\ MaxKills \in Nat

VARIABLES
    request,   \* per request: where it awaits, the refresh token it read, what it writes
    screen,    \* what a login or logout screen writes
    refresh,   \* refreshPromise: the token posted, and the answer on its way
    storage,   \* AsyncStorage: the pair each key comes from (user: the login)
    signedIn,  \* isAuthenticated
    login,     \* the server: the login each issued pair goes back to
    active,    \* the server: the refresh tokens not revoked
    late,      \* per token: POSTs the app gave up on that may still reach the server
    kills,
    \* bookkeeping
    answered,  \* refresh tokens for which the app has received the server's answer
    unheard,   \* logins for which the app posted a token and never heard what became of it
    torn       \* writers of different pairs overlapped, or the app died amid a writer

tokens == <<login, active>>
server == <<login, active, late>>
heard == <<answered, unheard>>
vars == <<request, screen, refresh, storage, signedIn, server, kills, heard, torn>>

\* The n-th pair of an access and a refresh token.  Whether an access token is still
\* accepted is up to the clock, so any request may be refused.
Pair == 1 .. MaxPairs
None == 0
Issued == {p \in Pair : login[p] # None}

\* A writer: its pair (None removes the keys), its next step (setToken, setRefreshToken,
\* setUser, set) and how many rounds it makes.
Idle == [pair |-> None, step |-> 0, rounds |-> 0]
Writing(pair, rounds) == [pair |-> pair, step |-> 1, rounds |-> rounds]

NoRefresh == [sent |-> None, answer |-> "none", pair |-> None]
Unsent == [at |-> "sent", held |-> None, write |-> Idle]

Tokens == Pair \cup {None}
Writer == [pair : Tokens, step : 0 .. 4, rounds : 0 .. 2]

TypeOK ==
    /\ request \in [Requests -> [at : {"sent", "read", "wait", "write", "again", "done"},
                                 held : Tokens, write : Writer]]
    /\ screen \in Writer
    /\ refresh \in [sent : Tokens, answer : {"none", "open", "pair", "refused"}, pair : Tokens]
    /\ storage \in [token : Tokens, refreshToken : Tokens, user : Tokens]
    /\ signedIn \in BOOLEAN
    /\ login \in [Pair -> Tokens]
    /\ active \subseteq Pair
    /\ late \in [Pair -> Nat]
    /\ kills \in 0 .. MaxKills
    /\ answered \subseteq Tokens /\ unheard \subseteq Tokens
    /\ torn \in BOOLEAN

Init ==
    /\ request = [r \in Requests |-> Unsent]
    /\ screen = Idle /\ refresh = NoRefresh
    /\ storage = [token |-> 1, refreshToken |-> 1, user |-> 1]
    /\ signedIn = TRUE
    /\ login = [p \in Pair |-> IF p = 1 THEN 1 ELSE None]
    /\ active = {1}
    /\ late = [p \in Pair |-> 0]
    /\ kills = 0
    /\ answered = {} /\ unheard = {}
    /\ torn = FALSE

Writers == {screen} \cup {request[r].write : r \in Requests}
Overlaps(pair) == \E w \in Writers : w # Idle /\ w.pair # pair

-----------------------------------------------------------------------------
(* The response interceptor *)

\* An answer other than 401, or none at all; a second 401 is passed on as well.
Ends(r) ==
    /\ request[r].at \in {"sent", "again"}
    /\ request' = [request EXCEPT ![r].at = "done"]
    /\ UNCHANGED <<screen, refresh, storage, signedIn, server, kills, heard, torn>>

\* 401, the first time: the refresh token is read from storage.
Refused(r) ==
    /\ request[r].at = "sent"
    /\ request' = [request EXCEPT ![r].at = "read", ![r].held = storage.refreshToken]
    /\ UNCHANGED <<screen, refresh, storage, signedIn, server, kills, heard, torn>>

\* Without a token the session is over.
NothingHeld(r) ==
    /\ request[r].at = "read" /\ request[r].held = None
    /\ request' = [request EXCEPT ![r].at = "write", ![r].write = Writing(None, 1)]
    /\ torn' = Overlaps(None)
    /\ UNCHANGED <<screen, refresh, storage, signedIn, server, kills, heard>>

\* The request joins the refresh under way, whatever token that one sent, or starts one.
Renew(r) ==
    /\ request[r].at = "read" /\ request[r].held # None
    /\ request' = [request EXCEPT ![r].at = "wait", ![r].held = None]
    /\ IF refresh = NoRefresh
       THEN refresh' = [NoRefresh EXCEPT !.sent = request[r].held, !.answer = "open"]
       ELSE UNCHANGED refresh
    /\ UNCHANGED <<screen, storage, signedIn, server, kills, heard, torn>>

-----------------------------------------------------------------------------
(* POST /auth/refresh *)

NewPair(p, family) ==
    /\ p \notin Issued /\ \A earlier \in 1 .. p - 1 : earlier \in Issued
    /\ login' = [login EXCEPT ![p] = family]

\* RotateRefreshToken: the token is replaced, in its family.
Rotates(token, p) ==
    /\ token \in active
    /\ NewPair(p, login[token])
    /\ active' = (active \ {token}) \cup {p}

\* It is refused: expired, of another fingerprint, or revoked before its successor
\* could not be stored; or it was used before, and its whole family is revoked.
Refuses(token) ==
    /\ IF token \in active
       THEN active' \in {active, active \ {token}}
       ELSE active' = {p \in active : login[p] # login[token]}
    /\ UNCHANGED login

Rotate ==
    /\ refresh.answer = "open"
    /\ \E p \in Pair :
           /\ Rotates(refresh.sent, p)
           /\ refresh' = [refresh EXCEPT !.answer = "pair", !.pair = p]
    /\ UNCHANGED <<request, screen, storage, signedIn, late, kills, heard, torn>>

Refuse ==
    /\ refresh.answer = "open"
    /\ Refuses(refresh.sent)
    /\ refresh' = [refresh EXCEPT !.answer = "refused"]
    /\ UNCHANGED <<request, screen, storage, signedIn, late, kills, heard, torn>>

\* A POST the app gave up on, or died over, reaches the server after all; its answer
\* reaches nobody.
ArrivesLate(token) ==
    /\ late[token] > 0
    /\ late' = [late EXCEPT ![token] = @ - 1]
    /\ Refuses(token) \/ \E p \in Pair : Rotates(token, p)
    /\ UNCHANGED <<request, screen, refresh, storage, signedIn, kills, heard, torn>>

\* The app will not hear what becomes of the POST under way.
GivenUp ==
    /\ unheard' = unheard \cup {login[refresh.sent]}
    /\ late' = IF refresh.answer = "open" THEN [late EXCEPT ![refresh.sent] = @ + 1] ELSE late

\* The promise is settled: those that wait go on to store the pair, or to log out.
Settled(waiters, pair) ==
    /\ refresh' = NoRefresh
    /\ request' = [r \in Requests |->
           IF r \in waiters
           THEN [request[r] EXCEPT !.at = "write", !.write = Writing(pair, 1)]
           ELSE request[r]]
    /\ torn' = Overlaps(pair)
    /\ UNCHANGED <<screen, storage, signedIn, tokens, kills>>

Heard == answered' = answered \cup {refresh.sent} /\ UNCHANGED <<late, unheard>>

Waiting == {r \in Requests : request[r].at = "wait"}

\* A slip to guard against: the answer resumes one of the requests that wait.
RenewedOne == refresh.answer = "pair" /\ Settled({CHOOSE r \in Waiting : TRUE}, refresh.pair) /\ Heard

\* The answer: every request that waits goes on to store the same pair.
Renewed == refresh.answer = "pair" /\ Settled(Waiting, refresh.pair) /\ Heard

\* A slip to guard against: the refusal is passed on and the tokens stay.
RefusalIgnored ==
    /\ refresh.answer = "refused"
    /\ refresh' = NoRefresh
    /\ request' = [r \in Requests |->
           IF r \in Waiting THEN [request[r] EXCEPT !.at = "done"] ELSE request[r]]
    /\ Heard
    /\ UNCHANGED <<screen, storage, signedIn, tokens, kills, torn>>

\* A refusal: every request that waits logs out.
RenewalRefused == refresh.answer = "refused" /\ Settled(Waiting, None) /\ Heard

\* No answer within 15 seconds, or a broken connection, whatever the server did or will
\* still do: the requests log out as well.
RenewalLost ==
    /\ refresh.answer # "none"
    /\ Settled(Waiting, None)
    /\ GivenUp /\ UNCHANGED answered

-----------------------------------------------------------------------------
(* Storing a pair, or removing the keys *)

Key == <<"token", "refreshToken", "user">>

WriteKeys(w, keys) ==
    /\ w.step # 0
    /\ storage' = [key \in DOMAIN storage |->
           IF w.step \in keys /\ key = Key[w.step]
           THEN IF key = "user" /\ w.pair # None THEN login[w.pair] ELSE w.pair
           ELSE storage[key]]
    /\ signedIn' = IF w.step = 4 THEN w.pair # None ELSE signedIn

\* A slip to guard against: the new refresh token is not stored.
WriteAccessOnly(w) == WriteKeys(w, IF w.pair = None THEN 1 .. 3 ELSE {1, 3})

Write(w) == WriteKeys(w, 1 .. 3)

\* authApi.login stores the pair, then setAuth does once more and sets the state.
Advance(w) ==
    IF w.step = 3 /\ w.rounds = 2 THEN Writing(w.pair, 1)
    ELSE IF w.step = 4 THEN Idle ELSE [w EXCEPT !.step = @ + 1]

\* A request that has stored a pair is sent again, one that logged out is rejected.
RequestWrites(r) ==
    /\ request[r].at = "write"
    /\ Write(request[r].write)
    /\ LET next == Advance(request[r].write)
           after == IF request[r].write.pair = None THEN "done" ELSE "again"
       IN  request' = [request EXCEPT ![r].write = next,
                                      ![r].at = IF next = Idle THEN after ELSE "write"]
    /\ UNCHANGED <<screen, refresh, server, kills, heard, torn>>

ScreenWrites ==
    /\ Write(screen)
    /\ screen' = Advance(screen)
    /\ UNCHANGED <<request, refresh, server, kills, heard, torn>>

\* The profile screen's logout, of which the server hears nothing.
Logout ==
    /\ screen = Idle /\ signedIn
    /\ screen' = Writing(None, 1)
    /\ torn' = Overlaps(None)
    /\ UNCHANGED <<request, refresh, storage, signedIn, server, kills, heard>>

\* The server has accepted a user's password; a rejected one is refused as a request is.
Login ==
    /\ screen = Idle /\ ~signedIn
    /\ \E p \in Pair :
           /\ NewPair(p, p)
           /\ active' = active \cup {p}
           /\ screen' = Writing(p, 2)
           /\ torn' = Overlaps(p)
    /\ UNCHANGED <<request, refresh, storage, signedIn, late, kills, heard>>

\* The phone kills the app; the next start signs in with what is stored (loadStoredAuth).
Restart ==
    /\ kills < MaxKills
    /\ kills' = kills + 1
    /\ torn' = (torn \/ Writers # {Idle})
    /\ IF refresh # NoRefresh THEN GivenUp ELSE UNCHANGED <<late, unheard>>
    /\ request' = [r \in Requests |->
           IF request[r].at = "sent" THEN Unsent ELSE [Unsent EXCEPT !.at = "done"]]
    /\ screen' = Idle /\ refresh' = NoRefresh
    /\ signedIn' = \A key \in DOMAIN storage : storage[key] # None
    /\ UNCHANGED <<storage, tokens, answered>>

-----------------------------------------------------------------------------
RequestStep(r) == Ends(r) \/ Refused(r) \/ NothingHeld(r) \/ Renew(r) \/ RequestWrites(r)
Answer == Renewed \/ RenewalRefused \/ RenewalLost

Next ==
    \/ \E r \in Requests : RequestStep(r)
    \/ Rotate \/ Refuse \/ Answer
    \/ \E token \in Pair : ArrivesLate(token)
    \/ ScreenWrites \/ Logout \/ Login
    \/ Restart

Spec == Init /\ [][Next]_vars

\* Requests time out after 15 seconds, and storage answers.
FairSpec ==
    /\ Spec
    /\ \A r \in Requests : WF_vars(RequestStep(r))
    /\ WF_vars(Answer) /\ WF_vars(ScreenWrites)

-----------------------------------------------------------------------------
Quiet == Writers = {Idle} /\ refresh = NoRefresh

\* When no writer is at work, the three keys and the app's state tell one story: all of
\* one session, or none.  Requests that store one pair together keep it so, in any
\* order; only writers of different pairs, or a death of the app amid a writer, tear it.
SessionWhole ==
    Quiet /\ ~torn =>
        \/ signedIn /\ storage.refreshToken = storage.token
                    /\ storage.token # None /\ storage.user = login[storage.token]
        \/ ~signedIn /\ \A key \in DOMAIN storage : storage[key] = None

\* A technician who is signed in can renew the session: the server has not revoked the
\* token the app kept.  The one other cause is an answer of this same login that the app
\* never heard: it was killed between the server's rotation and setRefreshToken
\* (client.ts:65), or a POST it gave up on was processed afterwards.
StoredTokenServes ==
    Quiet /\ ~torn /\ signedIn =>
        storage.refreshToken \in active \/ login[storage.refreshToken] \in unheard

\* A token whose answer the app has heard is not kept, whatever was lost or killed before:
\* an app that starts with a used token loses it, and its session, with the first answer.
AnsweredNotKept == Quiet /\ ~torn /\ signedIn => storage.refreshToken \notin answered

\* A refused request comes to its end: it is sent again or its caller is told.
RequestsSettle == \A r \in Requests : request[r].at = "read" ~> request[r].at = "done"

\* "If several requests get a 401, only one performs the refresh, the others wait for its
\* result" (client.ts:53-55): a token is not posted again after its answer.
OneRefreshPerToken == refresh.sent \notin answered
=============================================================================

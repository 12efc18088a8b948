------------------------- MODULE TokenRefresh_proofs -------------------------
(***************************************************************************)
(* The session a phone keeps is whole, and its refresh token serves, for   *)
(* any number of requests, pairs of tokens and deaths of the app, unless   *)
(* writers of different pairs overlapped or the app died amid one (torn),  *)
(* and, for the token, unless an answer was not heard (unheard).  Requests *)
(* that waited for one refresh store one pair, key by key and in any       *)
(* order: every key has that pair already or one of them has yet to write  *)
(* it.  The server's new pair is known to nobody before the answer, so a   *)
(* token that was answered is never the pair that is stored next.          *)
(***************************************************************************)
EXTENDS TokenRefresh, TLAPS

UserOf(pair) == IF pair = None THEN None ELSE login[pair]

\* A refresh is under way exactly while some request waits for it; a writer has steps left.
Stations ==
    /\ \A r \in Requests : request[r].at = "write" <=> request[r].write # Idle
    /\ \A w \in Writers : w.step = 0 <=> w = Idle
    /\ refresh.answer = "none" <=> refresh = NoRefresh
    /\ refresh # NoRefresh <=> Waiting # {}
    /\ refresh # NoRefresh => refresh.sent # None

\* The tokens the app has had in hand.
Disclosed ==
    answered \cup {refresh.sent, storage.refreshToken}
        \cup {request[r].held : r \in Requests} \cup {w.pair : w \in Writers}

\* The server honours the token, or the app missed an answer of its login.
Serves(token) == token \in active \/ login[token] \in unheard

\* The answer on its way may have used up the token, or revoked its family.
Spent(token) == refresh.answer \in {"pair", "refused"} /\ login[refresh.sent] = login[token]

\* Only pairs the server issued are handled; the one in an answer is new to the app; and a
\* POST that may still arrive is of a login with an answer missed.
Known ==
    /\ active \subseteq Issued
    /\ Disclosed \subseteq Issued \cup {None}
    /\ refresh.pair \in Issued \cup {None}
    /\ refresh.answer = "pair" => refresh.pair # None /\ refresh.pair \notin Disclosed /\ Serves(refresh.pair)
    /\ \A token \in Pair : late[token] > 0 => token \in Issued /\ login[token] \in unheard

\* The pair everything stored or being written tells of: what is not written yet has a
\* writer to come, and the pair's token was not answered yet and serves, unless the
\* refresh under way has just used it.
Story(pair) ==
    /\ pair \in Issued \cup {None}
    /\ \A w \in Writers : w # Idle => w.pair = pair
    /\ storage.token = pair \/ \E w \in Writers : w.step = 1
    /\ storage.refreshToken = pair \/ \E w \in Writers : w.step \in {1, 2}
    /\ storage.user = UserOf(pair) \/ \E w \in Writers : w.step \in {1, 2, 3}
    /\ (signedIn <=> pair # None) \/ \E w \in Writers : w # Idle
    /\ pair # None => (Serves(pair) \/ Spent(pair)) /\ pair \notin answered

OneStory == torn \/ \E pair \in Tokens : Story(pair)

IInv == TypeOK /\ Stations /\ Known /\ OneStory

-----------------------------------------------------------------------------
\* The invariant holds for an app signed in with the first pair.
LEMMA InitIInv == Init => IInv
<1> SUFFICES ASSUME Init PROVE IInv
  OBVIOUS
<1> USE RefreshAssumption DEF Init, None
<1>1. 1 \in Pair /\ login[1] = 1 /\ Issued = {1}
  BY DEF Pair, Issued
<1>2. TypeOK
  <2>1. Idle \in Writer /\ 0 \in Tokens /\ 1 \in Tokens
    BY <1>1 DEF Idle, Writer, Tokens
  <2>2. request \in [Requests -> [at : {"sent", "read", "wait", "write", "again", "done"},
                                 held : Tokens, write : Writer]]
    BY <2>1 DEF Unsent
  <2>3. refresh \in [sent : Tokens, answer : {"none", "open", "pair", "refused"}, pair : Tokens]
    BY <2>1 DEF NoRefresh
  <2>4. login \in [Pair -> Tokens] /\ active \subseteq Pair /\ kills \in 0 .. MaxKills
    BY <1>1, <2>1
  <2>5. late \in [Pair -> Nat] /\ answered \subseteq Tokens /\ unheard \subseteq Tokens
    OBVIOUS
  <2> QED  BY <2>1, <2>2, <2>3, <2>4, <2>5 DEF TypeOK
<1>3. Writers = {Idle}
  BY DEF Writers, Unsent
<1>4. Stations
  BY <1>3 DEF Stations, Unsent, Waiting, NoRefresh, Idle
<1>5. Known
  <2>1. Disclosed \subseteq {0, 1}
    BY <1>3 DEF Disclosed, NoRefresh, Unsent, Idle
  <2> QED  BY <1>1, <2>1 DEF Known, NoRefresh
<1>6. Story(1)
  BY <1>1, <1>3 DEF Story, UserOf, Serves, NoRefresh, Idle
<1> QED  BY <1>1, <1>2, <1>4, <1>5, <1>6 DEF IInv, OneStory, Tokens

\* A POST given up counts as late.
LEMMA LateGrows ==
  ASSUME late \in [Pair -> Nat],
         late' = IF refresh.answer = "open" THEN [late EXCEPT ![refresh.sent] = @ + 1] ELSE late
  PROVE  /\ late' \in [Pair -> Nat]
         /\ \A t \in Pair : late'[t] > 0 => late[t] > 0 \/ t = refresh.sent
<1>1. CASE refresh.answer = "open"
  <2>1. \A t \in Pair : late[t] \in Nat /\ late[t] + 1 \in Nat
    OBVIOUS
  <2>2. \A t \in Pair : late'[t] = IF t = refresh.sent THEN late[t] + 1 ELSE late[t]
    BY <1>1
  <2>3. late' \in [Pair -> Nat]
    <3>1. late' = [t \in Pair |-> late'[t]]
      BY <1>1
    <3> QED  BY <2>1, <2>2, <3>1
  <2> QED  BY <2>1, <2>2, <2>3
<1>2. CASE refresh.answer # "open"
  BY <1>2
<1> QED  BY <1>1, <1>2

\* A step that starts no answer keeps what is known, if it discloses no token but new ones
\* and gives up no POST silently.
LEMMA KnownStays ==
  ASSUME Known, Issued \subseteq Issued', \A p \in Issued : login'[p] = login[p],
         unheard \subseteq unheard', active' \subseteq Issued',
         Disclosed' \subseteq Disclosed \cup {None} \cup (Issued' \ Issued),
         refresh'.pair \in {refresh.pair, None},
         refresh'.answer = "pair" =>
             /\ refresh.answer = "pair" /\ refresh'.pair = refresh.pair
             /\ refresh.pair \in active => refresh.pair \in active' \/ login[refresh.pair] \in unheard',
         \A token \in Pair : late'[token] > 0 =>
             late[token] > 0 \/ (token \in Issued /\ login[token] \in unheard')
  PROVE  Known'
<1>1. Disclosed' \subseteq Issued' \cup {None} /\ refresh'.pair \in Issued' \cup {None}
  BY DEF Known
<1>2. ASSUME refresh'.answer = "pair"
      PROVE  (refresh.pair # None /\ refresh.pair \notin Disclosed /\ Serves(refresh.pair))'
  <2>1. refresh.pair \in Issued /\ refresh.pair # None /\ refresh.pair \notin Disclosed
        /\ (refresh.pair \in active \/ login[refresh.pair] \in unheard)
    BY <1>2 DEF Known, Serves
  <2> QED  BY <1>2, <2>1 DEF Serves
<1>3. \A token \in Pair : late'[token] > 0 => token \in Issued' /\ login'[token] \in unheard'
  BY DEF Known
<1> QED  BY <1>1, <1>2, <1>3 DEF Known

\* A step that writes nothing and starts no writer keeps the story, if a token that serves
\* or was used by the refresh goes on so.
LEMMA StoryStays ==
  ASSUME OneStory,
         UNCHANGED <<storage, signedIn, answered, torn>>, Writers' = Writers, Issued \subseteq Issued',
         \A p \in Issued : login'[p] = login[p],
         \A p \in Issued : Serves(p) \/ Spent(p) => Serves(p)' \/ Spent(p)'
  PROVE  OneStory'
<1>1. ASSUME NEW pair \in Tokens, Story(pair) PROVE Story(pair)'
  BY <1>1 DEF Story, UserOf, None
<1> QED  BY <1>1 DEF OneStory, Tokens, Pair, None

\* New writers of one pair begin the story of that pair, unless others are at work.
LEMMA StoryBegins ==
  ASSUME NEW pair \in Tokens, torn' = Overlaps(pair),
         \A w \in Writers' : w \in Writers \/ w.pair = pair,
         \E w \in Writers' : w.step = 1 /\ w # Idle,
         pair \in Issued' \cup {None},
         pair # None => Serves(pair)' /\ pair \notin answered'
  PROVE  OneStory'
<1>1. CASE torn'
  BY <1>1 DEF OneStory
<1>2. CASE ~torn'
  <2>1. Story(pair)'
    BY <1>2 DEF Story, Overlaps, Idle, None
  <2> QED  BY <2>1 DEF OneStory, Tokens, Pair, None
<1> QED  BY <1>1, <1>2

\* A writer writes its next key, or the state, and goes on to the one after.
LEMMA StoryWrites ==
  ASSUME TypeOK, OneStory, Known, NEW w \in Writers, w # Idle, w \in Writer, Write(w),
         Advance(w) \in Writers',
         \A other \in Writers : other = w \/ other \in Writers',
         \A other \in Writers' : other = Advance(w) \/ other \in Writers,
         UNCHANGED <<refresh, login, active, late, answered, unheard, torn>>
  PROVE  OneStory'
<1> USE DEF None
<1>1. w.step \in 1 .. 4 /\ w.pair \in Issued \cup {None}
  BY DEF Write, WriteKeys, Writer, Known, Disclosed
<1>2. storage' = [token |-> IF w.step = 1 THEN w.pair ELSE storage.token,
                  refreshToken |-> IF w.step = 2 THEN w.pair ELSE storage.refreshToken,
                  user |-> IF w.step = 3 THEN UserOf(w.pair) ELSE storage.user]
  BY <1>1 DEF TypeOK, Write, WriteKeys, Key, UserOf
<1>3. signedIn' = IF w.step = 4 THEN w.pair # None ELSE signedIn
  BY DEF Write, WriteKeys
<1>4. /\ w.step = 4 => Advance(w) = Idle
      /\ w.step \in {1, 2} => Advance(w).step = w.step + 1 /\ Advance(w).pair = w.pair
      /\ w.step = 3 => Advance(w).step \in {1, 4} /\ Advance(w).pair = w.pair
  BY <1>1 DEF Advance, Writing, Writer, Idle
<1>5. ASSUME NEW pair \in Tokens, Story(pair) PROVE Story(pair)'
  <2>1. w.pair = pair /\ \A other \in Writers : other # Idle => other.pair = pair
    BY <1>5 DEF Story
  <2>2. \A other \in Writers' : other # Idle => other.pair = pair
    BY <1>1, <1>4, <2>1
  <2>3. storage'.token = pair \/ \E other \in Writers' : other.step = 1
    BY <1>1, <1>2, <1>5, <2>1 DEF Story
  <2>4. storage'.refreshToken = pair \/ \E other \in Writers' : other.step \in {1, 2}
    BY <1>1, <1>2, <1>4, <1>5, <2>1 DEF Story
  <2>5. storage'.user = UserOf(pair) \/ \E other \in Writers' : other.step \in {1, 2, 3}
    BY <1>1, <1>2, <1>4, <1>5, <2>1 DEF Story
  <2>6. (signedIn' <=> pair # None) \/ \E other \in Writers' : other # Idle
    <3>1. CASE w.step = 4
      BY <1>3, <2>1, <3>1
    <3>2. CASE w.step # 4
      <4>1. Advance(w) # Idle
        BY <1>1, <1>4, <3>2 DEF Idle
      <4> QED  BY <4>1
    <3> QED  BY <3>1, <3>2
  <2>7. /\ pair \in Issued' \cup {None} /\ UserOf(pair)' = UserOf(pair)
        /\ pair # None => (Serves(pair)' \/ Spent(pair)') /\ pair \notin answered'
    BY <1>5 DEF Story, Issued, UserOf, Serves, Spent
  <2> QED  BY <1>5, <2>2, <2>3, <2>4, <2>5, <2>6, <2>7 DEF Story
<1> QED  BY <1>5 DEF OneStory, Tokens, Pair

-----------------------------------------------------------------------------
Ats == {"sent", "read", "wait", "write", "again", "done"}
RequestType == [at : Ats, held : Tokens, write : Writer]

\* Idle and fresh writers are writers, and a fresh one has steps left.
LEMMA WriterTypes ==
  ASSUME NEW pair \in Tokens, NEW rounds \in 0 .. 2
  PROVE  /\ Idle \in Writer /\ Idle.step = 0 /\ Idle.pair = None
         /\ Writing(pair, rounds) \in Writer /\ Writing(pair, rounds) # Idle
         /\ Writing(pair, rounds).pair = pair /\ Writing(pair, rounds).step = 1
BY DEF Idle, Writing, Writer, Tokens, None

\* One request goes on, the others stay.
LEMMA OneMoves ==
  ASSUME request \in [Requests -> RequestType], NEW r \in Requests, NEW next \in RequestType,
         request' = [request EXCEPT ![r] = next]
  PROVE  /\ request' \in [Requests -> RequestType] /\ request'[r] = next
         /\ \A q \in Requests : q # r => request'[q] = request[q]
OBVIOUS

\* A request ends, is refused, or waits for a refresh: no writer begins or ends.
LEMMA RequestsKeep ==
  ASSUME IInv, NEW r \in Requests, Ends(r) \/ Refused(r) \/ Renew(r) PROVE IInv'
<1> USE RefreshAssumption DEF server, heard
<1>0. TypeOK /\ Stations /\ Known /\ request[r] \in RequestType
  BY DEF IInv, TypeOK, RequestType, Ats
<1>1. /\ Ends(r) => request' = [request EXCEPT ![r] = [@ EXCEPT !.at = "done"]]
      /\ Refused(r) => request' = [request EXCEPT ![r] = [@ EXCEPT !.at = "read", !.held = storage.refreshToken]]
      /\ Renew(r) => request' = [request EXCEPT ![r] = [@ EXCEPT !.at = "wait", !.held = None]]
  BY DEF Ends, Refused, Renew
<1>2. storage.refreshToken \in Tokens /\ None \in Tokens /\ request[r].held \in Tokens
  BY <1>0 DEF TypeOK, Tokens, RequestType
<1>3. /\ request' \in [Requests -> RequestType]
      /\ \A q \in Requests : request'[q].write = request[q].write /\ (q # r => request'[q] = request[q])
      /\ request'[r].at \in {"done", "read", "wait"} /\ (Renew(r) <=> request'[r].at = "wait")
      /\ request[r].at \in {"sent", "read", "again"}
  <2>1. CASE Ends(r)
    <3>1. ~Renew(r) /\ request[r].at \in {"sent", "again"}
      BY <2>1 DEF Ends, Renew
    <3> QED  BY <1>0, <1>1, <1>2, <2>1, <3>1 DEF TypeOK, RequestType, Ats
  <2>2. CASE Refused(r)
    <3>1. ~Renew(r) /\ request[r].at = "sent"
      BY <2>2 DEF Refused, Renew
    <3>2. request' = [request EXCEPT ![r] = [request[r] EXCEPT !.at = "read", !.held = storage.refreshToken]]
      BY <1>1, <2>2
    <3>3. /\ [request[r] EXCEPT !.at = "read", !.held = storage.refreshToken] \in RequestType
          /\ [request[r] EXCEPT !.at = "read", !.held = storage.refreshToken].at = "read"
          /\ [request[r] EXCEPT !.at = "read", !.held = storage.refreshToken].write = request[r].write
      BY <1>0, <1>2 DEF RequestType, Ats
    <3> QED  BY <1>0, <2>2, <3>1, <3>2, <3>3, OneMoves DEF TypeOK, RequestType, Ats
  <2>3. CASE Renew(r)
    <3>1. request[r].at = "read"
      BY <2>3 DEF Renew
    <3>2. request' = [request EXCEPT ![r] = [request[r] EXCEPT !.at = "wait", !.held = None]]
      BY <1>1, <2>3
    <3>3. /\ [request[r] EXCEPT !.at = "wait", !.held = None] \in RequestType
          /\ [request[r] EXCEPT !.at = "wait", !.held = None].at = "wait"
          /\ [request[r] EXCEPT !.at = "wait", !.held = None].write = request[r].write
      BY <1>0, <1>2 DEF RequestType, Ats
    <3> QED  BY <1>0, <2>3, <3>1, <3>2, <3>3, OneMoves DEF TypeOK, RequestType, Ats
  <2> QED  BY <2>1, <2>2, <2>3
<1>4. Writers' = Writers
  <2>1. screen' = screen
    BY DEF Ends, Refused, Renew
  <2> QED  BY <1>3, <2>1 DEF Writers
<1>5. /\ UNCHANGED <<screen, storage, signedIn, login, active, late, kills, answered, unheard, torn>>
      /\ \/ refresh' = refresh /\ (Renew(r) => refresh # NoRefresh)
         \/ /\ Renew(r) /\ refresh = NoRefresh
            /\ refresh' = [sent |-> request[r].held, answer |-> "open", pair |-> None]
  BY DEF Ends, Refused, Renew, NoRefresh
<1>6. refresh' \in [sent : Tokens, answer : {"none", "open", "pair", "refused"}, pair : Tokens]
  BY <1>0, <1>2, <1>5 DEF TypeOK
<1>7. TypeOK'
  BY <1>0, <1>3, <1>5, <1>6 DEF TypeOK, RequestType, Ats
<1>8. Stations'
  <2>1. \A q \in Requests : request'[q].at = "write" <=> request'[q].write # Idle
    BY <1>0, <1>3 DEF Stations
  <2>2. \A w \in Writers' : w.step = 0 <=> w = Idle
    BY <1>0, <1>4 DEF Stations
  <2>3. refresh'.answer = "none" <=> refresh' = NoRefresh
    BY <1>0, <1>5 DEF Stations, NoRefresh
  <2>4. refresh' # NoRefresh <=> Waiting' # {}
    <3>1. CASE Renew(r)
      <4>1. refresh' # NoRefresh
        BY <1>5, <3>1 DEF NoRefresh
      <4>2. r \in Waiting'
        BY <1>3, <3>1 DEF Waiting
      <4> QED  BY <4>1, <4>2
    <3>2. CASE ~Renew(r)
      <4>1. Waiting' = Waiting
        BY <1>3, <3>2 DEF Waiting
      <4> QED  BY <1>0, <1>5, <3>2, <4>1 DEF Stations
    <3> QED  BY <3>1, <3>2
  <2>5. refresh' # NoRefresh => refresh'.sent # None
    <3>1. Renew(r) => request[r].held # None
      BY DEF Renew
    <3> QED  BY <1>0, <1>5, <3>1 DEF Stations
  <2> QED  BY <2>1, <2>2, <2>3, <2>4, <2>5 DEF Stations
<1>9. Known'
  <2>1. \A q \in Requests : request'[q].held \in Disclosed \cup {None}
    <3>1. request'[r].held \in {request[r].held, storage.refreshToken, None}
      <4>1. CASE Ends(r)
        BY <1>0, <1>1, <4>1 DEF TypeOK, RequestType
      <4>2. CASE Refused(r)
        <5>1. request'[r] = [request[r] EXCEPT !.at = "read", !.held = storage.refreshToken]
          BY <1>0, <1>1, <4>2 DEF TypeOK
        <5> QED  BY <1>0, <5>1 DEF RequestType
      <4>3. CASE Renew(r)
        <5>1. request'[r] = [request[r] EXCEPT !.at = "wait", !.held = None]
          BY <1>0, <1>1, <4>3 DEF TypeOK
        <5> QED  BY <1>0, <5>1 DEF RequestType
      <4> QED  BY <4>1, <4>2, <4>3
    <3> QED  BY <1>3, <3>1 DEF Disclosed
  <2>2. refresh'.sent \in Disclosed /\ storage'.refreshToken \in Disclosed /\ answered' \subseteq Disclosed
    BY <1>5 DEF Disclosed
  <2>3. \A w \in Writers' : w.pair \in Disclosed
    BY <1>4 DEF Disclosed
  <2>4. Disclosed' \subseteq Disclosed \cup {None}
    BY <2>1, <2>2, <2>3 DEF Disclosed
  <2>5. Issued' = Issued /\ active \subseteq Issued
    BY <1>0, <1>5 DEF Issued, Known
  <2>6. /\ refresh'.pair \in {refresh.pair, None}
        /\ refresh'.answer = "pair" => refresh.answer = "pair" /\ refresh'.pair = refresh.pair
    BY <1>5
  <2> QED  BY <1>0, <1>5, <2>4, <2>5, <2>6, KnownStays
<1>10. OneStory'
  <2>1. \A p \in Issued : Serves(p) \/ Spent(p) => Serves(p)' \/ Spent(p)'
    BY <1>5 DEF Serves, Spent, NoRefresh
  <2> QED  BY <1>4, <1>5, <2>1, StoryStays DEF IInv, Issued
<1> QED  BY <1>7, <1>8, <1>9, <1>10 DEF IInv

\* A rotation issues one new pair of the token's login, and uses up the token only.
LEMMA Rotation ==
  ASSUME TypeOK, Known, NEW t, NEW p \in Pair, Rotates(t, p)
  PROVE  /\ p \notin Issued /\ p # None /\ Issued' = Issued \cup {p}
         /\ login' \in [Pair -> Tokens] /\ login'[p] = login[t]
         /\ \A q \in Issued : login'[q] = login[q]
         /\ active' \subseteq Issued' /\ active' \subseteq Pair /\ p \in active'
         /\ \A q \in active : q \in active' \/ login[q] = login[t]
<1>1. p \notin Issued /\ login' = [login EXCEPT ![p] = login[t]]
      /\ t \in active /\ active' = (active \ {t}) \cup {p}
  BY DEF Rotates, NewPair
<1>2. t \in Issued /\ t \in Pair /\ login[t] # None /\ login[t] \in Tokens
  BY <1>1 DEF Known, Issued, TypeOK
<1>3. /\ login' \in [Pair -> Tokens] /\ login'[p] = login[t]
      /\ \A q \in Pair : q # p => login'[q] = login[q]
  BY <1>1, <1>2 DEF TypeOK
<1>4. Issued' = Issued \cup {p} /\ p # None
  BY <1>2, <1>3 DEF Issued, Pair, None
<1> QED  BY <1>1, <1>3, <1>4 DEF Known, Issued

\* A refusal revokes tokens of one login at most.
LEMMA Refusal ==
  ASSUME NEW t, Refuses(t)
  PROVE  /\ login' = login /\ active' \subseteq active
         /\ \A q \in active : q \in active' \/ login[q] = login[t]
BY DEF Refuses

\* The server rotates the token it was sent, or refuses it.
LEMMA ServerKeeps == ASSUME IInv, Rotate \/ Refuse PROVE IInv'
<1> USE RefreshAssumption
<1>0. TypeOK /\ Stations /\ Known /\ refresh.answer = "open"
  BY DEF IInv, Rotate, Refuse
<1>1. UNCHANGED <<request, screen, storage, signedIn, late, kills, answered, unheard, torn>>
  BY DEF Rotate, Refuse, heard
<1>2. Writers' = Writers /\ Waiting' = Waiting
  BY <1>1 DEF Writers, Waiting
<1>3. CASE Rotate
  <2>1. PICK p \in Pair : Rotates(refresh.sent, p) /\ refresh' = [refresh EXCEPT !.answer = "pair", !.pair = p]
    BY <1>3 DEF Rotate
  <2>2. /\ p \notin Issued /\ p # None /\ Issued' = Issued \cup {p}
        /\ login' \in [Pair -> Tokens] /\ login'[p] = login[refresh.sent]
        /\ \A q \in Issued : login'[q] = login[q]
        /\ active' \subseteq Issued' /\ active' \subseteq Pair /\ p \in active'
        /\ \A q \in active : q \in active' \/ login[q] = login[refresh.sent]
    BY <1>0, <2>1, Rotation
  <2>3. refresh' \in [sent : Tokens, answer : {"none", "open", "pair", "refused"}, pair : Tokens]
        /\ refresh'.answer = "pair" /\ refresh'.pair = p /\ refresh'.sent = refresh.sent
    BY <1>0, <2>1 DEF TypeOK, Tokens
  <2>4. TypeOK'
    BY <1>0, <1>1, <2>2, <2>3 DEF TypeOK
  <2>5. Stations'
    <3>1. refresh # NoRefresh /\ refresh' # NoRefresh
      BY <1>0, <2>3 DEF NoRefresh
    <3> QED  BY <1>0, <1>1, <1>2, <2>3, <3>1 DEF Stations
  <2>6. Known'
    <3>1. Disclosed' = Disclosed
      BY <1>1, <1>2, <2>3 DEF Disclosed
    <3>2. Serves(p)'
      BY <2>2 DEF Serves
    <3>3. \A t \in Pair : late'[t] > 0 => t \in Issued' /\ login'[t] \in unheard'
      BY <1>0, <1>1, <2>2 DEF Known
    <3> QED  BY <1>0, <2>2, <2>3, <3>1, <3>2, <3>3 DEF Known
  <2>7. OneStory'
    <3>1. refresh.sent \in Issued
      BY <2>1, <1>0 DEF Rotates, Known
    <3>2. \A q \in Issued : Serves(q) \/ Spent(q) => Serves(q)' \/ Spent(q)'
      BY <1>0, <1>1, <2>2, <2>3, <3>1 DEF Serves, Spent
    <3> QED  BY <1>1, <1>2, <2>2, <3>2, StoryStays DEF IInv
  <2> QED  BY <2>4, <2>5, <2>6, <2>7 DEF IInv
<1>4. CASE Refuse
  <2>1. Refuses(refresh.sent) /\ refresh' = [refresh EXCEPT !.answer = "refused"]
    BY <1>4 DEF Refuse
  <2>2. /\ login' = login /\ active' \subseteq active
        /\ \A q \in active : q \in active' \/ login[q] = login[refresh.sent]
    BY <2>1, Refusal
  <2>3. /\ refresh' \in [sent : Tokens, answer : {"none", "open", "pair", "refused"}, pair : Tokens]
        /\ refresh'.answer = "refused" /\ refresh'.pair = refresh.pair /\ refresh'.sent = refresh.sent
    BY <1>0, <2>1 DEF TypeOK
  <2>4. TypeOK'
    BY <1>0, <1>1, <2>2, <2>3 DEF TypeOK
  <2>5. Stations'
    <3>1. refresh # NoRefresh /\ refresh' # NoRefresh
      BY <1>0, <2>3 DEF NoRefresh
    <3> QED  BY <1>0, <1>1, <1>2, <2>3, <3>1 DEF Stations
  <2>6. Issued' = Issued /\ active' \subseteq Issued
    BY <1>0, <2>2 DEF Issued, Known
  <2>7. Known'
    <3>1. Disclosed' = Disclosed
      BY <1>1, <1>2, <2>3 DEF Disclosed
    <3> QED  BY <1>0, <1>1, <2>2, <2>3, <2>6, <3>1, KnownStays
  <2>8. OneStory'
    <3>1. \A q \in Issued : Serves(q) \/ Spent(q) => Serves(q)' \/ Spent(q)'
      BY <1>0, <1>1, <2>2, <2>3 DEF Serves, Spent
    <3> QED  BY <1>1, <1>2, <2>2, <2>6, <3>1, StoryStays DEF IInv
  <2> QED  BY <2>4, <2>5, <2>7, <2>8 DEF IInv
<1> QED  BY <1>3, <1>4

\* A POST the app gave up on revokes tokens of a login with an answer missed, and no other.
LEMMA LateKeeps == ASSUME IInv, NEW t \in Pair, ArrivesLate(t) PROVE IInv'
<1> USE RefreshAssumption
<1>0. TypeOK /\ Stations /\ Known /\ late[t] > 0
  BY DEF IInv, ArrivesLate
<1>1. /\ UNCHANGED <<request, screen, refresh, storage, signedIn, kills, answered, unheard, torn>>
      /\ late' = [late EXCEPT ![t] = @ - 1]
  BY DEF ArrivesLate, heard
<1>2. Writers' = Writers /\ Waiting' = Waiting
  BY <1>1 DEF Writers, Waiting
<1>3. t \in Issued /\ login[t] \in unheard
  BY <1>0 DEF Known
<1>4. /\ Issued \subseteq Issued' /\ login' \in [Pair -> Tokens] /\ \A q \in Issued : login'[q] = login[q]
      /\ active' \subseteq Issued' /\ active' \subseteq Pair
      /\ \A q \in active : q \in active' \/ login[q] = login[t]
  <2>1. CASE Refuses(t)
    <3>1. /\ login' = login /\ active' \subseteq active
          /\ \A q \in active : q \in active' \/ login[q] = login[t]
      BY <2>1, Refusal
    <3>2. Issued' = Issued /\ active \subseteq Issued /\ active \subseteq Pair
      BY <1>0, <3>1 DEF Issued, Known, TypeOK
    <3> QED  BY <1>0, <3>1, <3>2 DEF TypeOK
  <2>2. ASSUME NEW p \in Pair, Rotates(t, p)
        PROVE  /\ Issued \subseteq Issued' /\ login' \in [Pair -> Tokens] /\ \A q \in Issued : login'[q] = login[q]
               /\ active' \subseteq Issued' /\ active' \subseteq Pair
               /\ \A q \in active : q \in active' \/ login[q] = login[t]
    BY <1>0, <2>2, Rotation
  <2> QED  BY <2>1, <2>2 DEF ArrivesLate
<1>5. late' \in [Pair -> Nat] /\ \A q \in Pair : late'[q] > 0 => late[q] > 0
  BY <1>0, <1>1 DEF TypeOK
<1>6. TypeOK'
  BY <1>0, <1>1, <1>4, <1>5 DEF TypeOK
<1>7. Stations'
  BY <1>0, <1>1, <1>2 DEF Stations
<1>8. Known'
  <2>1. Disclosed' = Disclosed
    BY <1>1, <1>2 DEF Disclosed
  <2>2. refresh.pair \in active => refresh.pair \in active' \/ login[refresh.pair] \in unheard'
    BY <1>1, <1>3, <1>4
  <2> QED  BY <1>0, <1>1, <1>4, <1>5, <2>1, <2>2, KnownStays
<1>9. OneStory'
  <2>1. ASSUME NEW q \in Issued PROVE Serves(q) => Serves(q)'
    BY <1>1, <1>3, <1>4 DEF Serves
  <2>2. ASSUME NEW q \in Issued PROVE Spent(q) => Spent(q)'
    <3>1. Spent(q) => refresh.sent \in Issued
      BY <1>0 DEF Spent, Stations, Known, Disclosed, NoRefresh
    <3> QED  BY <1>1, <1>4, <3>1 DEF Spent
  <2> QED  BY <1>1, <1>2, <1>4, <2>1, <2>2, StoryStays DEF IInv
<1> QED  BY <1>6, <1>7, <1>8, <1>9 DEF IInv

\* New writers of one pair, or of none, are writers and begin its story.
LEMMA WritersBegin ==
  ASSUME IInv, NEW pair \in Tokens, NEW rounds \in {1, 2}, torn' = Overlaps(pair),
         Writing(pair, rounds) \in Writers',
         \A w \in Writers' : w \in Writers \/ w = Writing(pair, rounds),
         pair \in Issued' \cup {None}, pair # None => Serves(pair)' /\ pair \notin answered'
  PROVE  (\A w \in Writers' : w.step = 0 <=> w = Idle) /\ OneStory'
         /\ \A w \in Writers' : w.pair \in Disclosed \cup {pair}
<1>0. Stations
  BY DEF IInv
<1>1. /\ Idle.pair = None /\ Idle.step = 0 /\ Writing(pair, rounds) # Idle
      /\ Writing(pair, rounds).pair = pair /\ Writing(pair, rounds).step = 1
  BY WriterTypes
<1>2. \A w \in Writers' : w.step = 0 <=> w = Idle
  BY <1>0, <1>1 DEF Stations
<1>3. OneStory'
  BY <1>1, StoryBegins
<1>4. \A w \in Writers' : w.pair \in Disclosed \cup {pair}
  BY <1>1 DEF Disclosed
<1> QED  BY <1>2, <1>3, <1>4

\* A refused request without a refresh token begins to log out.
LEMMA NothingHeldKeeps == ASSUME IInv, NEW r \in Requests, NothingHeld(r) PROVE IInv'
<1> DEFINE w == Writing(None, 1)
           next == [request[r] EXCEPT !.at = "write", !.write = w]
<1>0. TypeOK /\ Stations /\ Known /\ request[r] \in RequestType /\ request \in [Requests -> RequestType]
  BY DEF IInv, TypeOK, RequestType, Ats
<1>1. w \in Writer /\ w # Idle
  BY WriterTypes DEF Tokens
<1>2. request' = [request EXCEPT ![r] = next] /\ request[r].at = "read"
  BY DEF NothingHeld
<1>3. next \in RequestType /\ next.at = "write" /\ next.write = w
  BY <1>0, <1>1 DEF RequestType, Ats
<1> HIDE DEF next, w
<1>4. /\ request' \in [Requests -> RequestType] /\ request'[r] = next
      /\ \A q \in Requests : q # r => request'[q] = request[q]
  BY <1>0, <1>2, <1>3, OneMoves
<1>5. UNCHANGED <<screen, refresh, storage, signedIn, login, active, late, kills, answered, unheard>>
      /\ torn' = Overlaps(None)
  BY DEF NothingHeld, server, heard
<1>6. TypeOK'
  <2>1. torn' \in BOOLEAN
    BY <1>5 DEF Overlaps
  <2> QED  BY <1>0, <1>4, <1>5, <2>1 DEF TypeOK, RequestType, Ats
<1>7. w \in Writers' /\ \A v \in Writers' : v \in Writers \/ v = w
  BY <1>3, <1>4, <1>5 DEF Writers
<1>8. (\A v \in Writers' : v.step = 0 <=> v = Idle) /\ OneStory'
      /\ \A v \in Writers' : v.pair \in Disclosed \cup {None}
  BY <1>5, <1>7, WritersBegin DEF Tokens, w
<1>10. Known'
  <2>1. Issued' = Issued /\ active \subseteq Issued
    BY <1>0, <1>5 DEF Issued, Known
  <2>2. next.held = request[r].held
    BY <1>0 DEF next, RequestType
  <2>3. Disclosed' \subseteq Disclosed \cup {None}
    <3>1. \A q \in Requests : request'[q].held = request[q].held
      BY <1>4, <2>2
    <3> QED  BY <1>5, <1>8, <3>1 DEF Disclosed
  <2> QED  BY <1>0, <1>5, <2>1, <2>3, KnownStays
<1>9. Stations'
  <2>1. \A q \in Requests : request'[q].at = "write" <=> request'[q].write # Idle
    BY <1>0, <1>1, <1>3, <1>4 DEF Stations
  <2>2. Waiting' = Waiting
    BY <1>2, <1>3, <1>4 DEF Waiting
  <2> QED  BY <1>0, <1>5, <1>8, <2>1, <2>2 DEF Stations
<1> QED  BY <1>6, <1>8, <1>9, <1>10 DEF IInv

\* The answer: all that wait begin to write, the new pair or nothing.
LEMMA AnswerKeeps == ASSUME IInv, Answer PROVE IInv'
<1>0. TypeOK /\ Stations /\ Known /\ request \in [Requests -> RequestType]
  BY DEF IInv, TypeOK, RequestType, Ats
<1>1. PICK pair \in Tokens :
          /\ refresh.answer # "none" /\ Settled(Waiting, pair)
          /\ pair \in Issued \cup {None}
          /\ pair # None => Serves(pair) /\ pair \notin answered \cup {refresh.sent}
          /\ answered' \subseteq answered \cup {refresh.sent} /\ unheard \subseteq unheard'
          /\ unheard' \subseteq unheard \cup {login[refresh.sent]}
          /\ late' \in [Pair -> Nat]
          /\ \A t \in Pair : late'[t] > 0 => late[t] > 0 \/ (t = refresh.sent /\ login[t] \in unheard')
  <2>1. CASE Renewed
    <3>1. /\ refresh.answer = "pair" /\ Settled(Waiting, refresh.pair)
          /\ answered' = answered \cup {refresh.sent} /\ UNCHANGED <<late, unheard>>
      BY <2>1 DEF Renewed, Heard
    <3>2. refresh.pair \in Tokens /\ refresh.pair \in Issued \cup {None} /\ Serves(refresh.pair)
          /\ refresh.pair \notin answered \cup {refresh.sent}
      BY <1>0, <3>1 DEF TypeOK, Known, Disclosed
    <3> QED  BY <1>0, <3>1, <3>2 DEF TypeOK
  <2>2. CASE RenewalRefused
    <3>1. /\ refresh.answer = "refused" /\ Settled(Waiting, None)
          /\ answered' = answered \cup {refresh.sent} /\ UNCHANGED <<late, unheard>>
      BY <2>2 DEF RenewalRefused, Heard
    <3> QED  BY <1>0, <3>1 DEF TypeOK, Tokens
  <2>3. CASE RenewalLost
    <3>1. /\ refresh.answer # "none" /\ Settled(Waiting, None) /\ answered' = answered
          /\ unheard' = unheard \cup {login[refresh.sent]}
          /\ late' = IF refresh.answer = "open" THEN [late EXCEPT ![refresh.sent] = @ + 1] ELSE late
      BY <2>3 DEF RenewalLost, GivenUp
    <3>2. /\ late' \in [Pair -> Nat]
          /\ \A t \in Pair : late'[t] > 0 => late[t] > 0 \/ t = refresh.sent
      BY <1>0, <3>1, LateGrows DEF TypeOK
    <3> QED  BY <3>1, <3>2 DEF Tokens
  <2> QED  BY <2>1, <2>2, <2>3 DEF Answer
<1>12. refresh # NoRefresh /\ refresh.sent \in Issued /\ refresh.sent \in Pair
  BY <1>0, <1>1 DEF Stations, NoRefresh, Known, Disclosed, Issued
<1> DEFINE w == Writing(pair, 1)
           next(r) == [request[r] EXCEPT !.at = "write", !.write = w]
<1>2. w \in Writer /\ w # Idle
  BY WriterTypes
<1>3. \A r \in Requests : next(r) \in RequestType /\ next(r).at = "write" /\ next(r).write = w
  BY <1>0, <1>2 DEF RequestType, Ats
<1>4. request' = [r \in Requests |-> IF r \in Waiting THEN next(r) ELSE request[r]]
  BY <1>1 DEF Settled
<1>5. UNCHANGED <<screen, storage, signedIn, login, active, kills>> /\ refresh' = NoRefresh
      /\ torn' = Overlaps(pair)
  BY <1>1 DEF Settled, tokens
<1> HIDE DEF next, w
<1>6. /\ request' \in [Requests -> RequestType]
      /\ \A r \in Waiting : request'[r].at = "write" /\ request'[r].write = w
      /\ \A r \in Requests \ Waiting : request'[r] = request[r]
  BY <1>0, <1>3, <1>4 DEF Waiting
<1>7. TypeOK'
  <2>1. torn' \in BOOLEAN /\ answered' \subseteq Tokens /\ unheard' \subseteq Tokens /\ late' \in [Pair -> Nat]
    BY <1>0, <1>1, <1>5, <1>12 DEF Overlaps, TypeOK
  <2>2. refresh' \in [sent : Tokens, answer : {"none", "open", "pair", "refused"}, pair : Tokens]
    BY <1>5 DEF NoRefresh, Tokens
  <2> QED  BY <1>0, <1>5, <1>6, <2>1, <2>2 DEF TypeOK, RequestType, Ats
<1>8. Waiting # {} /\ Waiting \subseteq Requests /\ Waiting' = {}
  <2>1. Waiting # {}
    BY <1>0, <1>1 DEF Stations, NoRefresh
  <2>2. \A r \in Requests : request'[r].at # "wait"
    BY <1>6 DEF Waiting
  <2> QED  BY <2>1, <2>2 DEF Waiting
<1>9. w \in Writers' /\ \A v \in Writers' : v \in Writers \/ v = w
  BY <1>5, <1>6, <1>8 DEF Writers
<1>10. (\A v \in Writers' : v.step = 0 <=> v = Idle) /\ OneStory'
       /\ \A v \in Writers' : v.pair \in Disclosed \cup {pair}
  <2>1. Issued' = Issued
    BY <1>5 DEF Issued
  <2>2. pair # None => Serves(pair)' /\ pair \notin answered'
    BY <1>1, <1>5 DEF Serves
  <2> QED  BY <1>1, <1>5, <1>9, <2>1, <2>2, WritersBegin DEF w
<1>13. Known'
  <2>1. Issued' = Issued /\ active' \subseteq Issued
    BY <1>0, <1>5 DEF Issued, Known
  <2>2. \A r \in Requests : request'[r].held = request[r].held
    <3>1. \A r \in Requests : next(r).held = request[r].held
      BY <1>0 DEF next, RequestType
    <3> QED  BY <1>4, <3>1
  <2>3. refresh'.sent = None /\ refresh'.pair = None /\ refresh'.answer = "none"
    BY <1>5 DEF NoRefresh
  <2>4. Disclosed' \subseteq Disclosed \cup {None, pair}
    BY <1>1, <1>5, <1>10, <2>2, <2>3 DEF Disclosed
  <2>5. \A t \in Pair : late'[t] > 0 => t \in Issued' /\ login'[t] \in unheard'
    BY <1>0, <1>1, <1>5, <1>12, <2>1 DEF Known
  <2> QED  BY <1>0, <1>1, <2>1, <2>3, <2>4, <2>5 DEF Known
<1>11. Stations'
  <2>1. \A r \in Requests : request'[r].at = "write" <=> request'[r].write # Idle
    BY <1>0, <1>2, <1>6 DEF Stations
  <2>2. /\ refresh'.answer = "none" <=> refresh' = NoRefresh
        /\ refresh' # NoRefresh <=> Waiting' # {}
        /\ refresh' # NoRefresh => refresh'.sent # None
    BY <1>5, <1>8 DEF NoRefresh
  <2> QED  BY <1>10, <2>1, <2>2 DEF Stations
<1> QED  BY <1>7, <1>10, <1>11, <1>13 DEF IInv

\* A screen begins to remove the session, or to store the pair of a login.
LEMMA ScreensKeep == ASSUME IInv, Logout \/ Login PROVE IInv'
<1> USE RefreshAssumption
<1>0. TypeOK /\ Stations /\ Known
  BY DEF IInv
<1>1. /\ UNCHANGED <<request, refresh, storage, signedIn, late, kills, answered, unheard>>
      /\ Waiting' = Waiting
  BY DEF Logout, Login, Waiting, server, heard
<1>2. PICK pair \in Tokens, rounds \in {1, 2} :
          /\ screen' = Writing(pair, rounds) /\ torn' = Overlaps(pair)
          /\ pair \in (Issued' \ Issued) \cup {None} /\ (pair # None => pair \in active')
          /\ Issued \subseteq Issued' /\ active \subseteq active' /\ active' \subseteq Issued'
          /\ login' \in [Pair -> Tokens] /\ active' \subseteq Pair
          /\ \A q \in Issued : login'[q] = login[q]
  <2>1. CASE Logout
    <3>1. screen' = Writing(None, 1) /\ torn' = Overlaps(None) /\ UNCHANGED <<login, active>>
      BY <2>1 DEF Logout, server
    <3> QED  BY <1>0, <3>1 DEF Known, Issued, TypeOK, Tokens
  <2>2. CASE Login
    <3>1. PICK p \in Pair : /\ NewPair(p, p) /\ active' = active \cup {p}
                            /\ screen' = Writing(p, 2) /\ torn' = Overlaps(p)
      BY <2>2 DEF Login
    <3>2. p \notin Issued /\ login' = [login EXCEPT ![p] = p]
      BY <3>1 DEF NewPair
    <3>3. p # None /\ p \in Tokens
      BY DEF Pair, None, Tokens
    <3>4. login' \in [Pair -> Tokens] /\ login'[p] = p /\ \A q \in Pair : q # p => login'[q] = login[q]
      BY <1>0, <3>2, <3>3 DEF TypeOK
    <3>5. Issued' = Issued \cup {p}
      BY <3>3, <3>4 DEF Issued
    <3>6. \A q \in Issued : login'[q] = login[q]
      BY <3>2, <3>4 DEF Issued
    <3> QED  BY <1>0, <3>1, <3>2, <3>3, <3>4, <3>5, <3>6 DEF Known, TypeOK
  <2> QED  BY <2>1, <2>2
<1>3. TypeOK'
  <2>1. screen' \in Writer /\ torn' \in BOOLEAN
    BY <1>2, WriterTypes DEF Overlaps
  <2> QED  BY <1>0, <1>1, <1>2, <2>1 DEF TypeOK
<1>4. Writing(pair, rounds) \in Writers' /\ \A w \in Writers' : w \in Writers \/ w = Writing(pair, rounds)
  BY <1>1, <1>2 DEF Writers
<1>5. (\A w \in Writers' : w.step = 0 <=> w = Idle) /\ OneStory'
      /\ \A w \in Writers' : w.pair \in Disclosed \cup {pair}
  <2>1. pair # None => Serves(pair)' /\ pair \notin answered'
    BY <1>0, <1>1, <1>2 DEF Serves, Known, Disclosed
  <2> QED  BY <1>1, <1>2, <1>4, <2>1, WritersBegin
<1>6. Stations'
  BY <1>0, <1>1, <1>5 DEF Stations
<1>7. Known'
  <2>1. Disclosed' \subseteq Disclosed \cup {None} \cup (Issued' \ Issued)
    BY <1>1, <1>2, <1>5 DEF Disclosed
  <2> QED  BY <1>0, <1>1, <1>2, <2>1, KnownStays
<1> QED  BY <1>3, <1>5, <1>6, <1>7 DEF IInv

\* A writer's step keeps what is said of the writers and of what they write.
LEMMA WriterGoesOn ==
  ASSUME IInv, NEW w \in Writers, Write(w),
         Advance(w) \in Writers',
         \A other \in Writers : other = w \/ other \in Writers',
         \A other \in Writers' : other = Advance(w) \/ other \in Writers,
         UNCHANGED <<refresh, login, active, late, answered, unheard, torn>>
  PROVE  /\ Advance(w) \in Writer /\ w # Idle
         /\ storage' \in [token : Tokens, refreshToken : Tokens, user : Tokens] /\ signedIn' \in BOOLEAN
         /\ (\A other \in Writers' : other.step = 0 <=> other = Idle) /\ OneStory'
         /\ \A other \in Writers' : other.pair \in Disclosed \cup {None}
         /\ storage'.refreshToken \in Disclosed
<1>0. TypeOK /\ Stations /\ Known /\ OneStory
  BY DEF IInv
<1>1. w \in Writer /\ w.step \in 1 .. 4 /\ w.pair \in Tokens /\ w.rounds \in 0 .. 2
  BY <1>0 DEF TypeOK, Writers, Write, WriteKeys, Writer
<1>2. w # Idle
  BY <1>1 DEF Idle
<1>3. /\ Advance(w) \in Writer /\ (Advance(w).step = 0 <=> Advance(w) = Idle)
      /\ Advance(w).pair \in {w.pair, None}
  <2>1. CASE w.step = 3 /\ w.rounds = 2
    <3>1. Advance(w) = Writing(w.pair, 1)
      BY <2>1 DEF Advance
    <3> QED  BY <1>1, <3>1, WriterTypes
  <2>2. CASE w.step = 4
    <3>1. Advance(w) = Idle
      BY <2>2 DEF Advance
    <3> QED  BY <1>1, <3>1, WriterTypes
  <2>3. CASE w.step # 4 /\ ~(w.step = 3 /\ w.rounds = 2)
    <3>1. Advance(w) = [w EXCEPT !.step = @ + 1]
      BY <2>3 DEF Advance
    <3>2. w.step + 1 \in 1 .. 4
      BY <1>1, <2>3
    <3> QED  BY <1>1, <3>1, <3>2 DEF Writer, Idle
  <2> QED  BY <2>1, <2>2, <2>3
<1>4. /\ storage' \in [token : Tokens, refreshToken : Tokens, user : Tokens]
      /\ signedIn' \in BOOLEAN
  <2>1. /\ signedIn' = (IF w.step = 4 THEN w.pair # None ELSE signedIn)
        /\ storage' = [key \in DOMAIN storage |->
               IF w.step \in 1 .. 3 /\ key = Key[w.step]
               THEN IF key = "user" /\ w.pair # None THEN login[w.pair] ELSE w.pair
               ELSE storage[key]]
    BY DEF Write, WriteKeys
  <2>2. w.pair # None => login[w.pair] \in Tokens
    BY <1>0, <1>1 DEF TypeOK, Tokens
  <2> QED  BY <1>0, <1>1, <2>1, <2>2 DEF TypeOK
<1>5. \A other \in Writers' : other.step = 0 <=> other = Idle
  BY <1>0, <1>3 DEF Stations
<1>6. /\ \A other \in Writers' : other.pair \in Disclosed \cup {None}
      /\ storage'.refreshToken \in Disclosed
  <2>1. w.pair \in Disclosed /\ storage.refreshToken \in Disclosed
    BY DEF Disclosed
  <2>2. storage'.refreshToken \in {w.pair, storage.refreshToken}
    BY <1>0 DEF Write, WriteKeys, Key, TypeOK
  <2> QED  BY <1>3, <2>1, <2>2 DEF Disclosed
<1>7. OneStory'
  BY <1>0, <1>1, <1>2, StoryWrites
<1> QED  BY <1>2, <1>3, <1>4, <1>5, <1>6, <1>7

\* A request writes one key, or the state and goes on.
LEMMA RequestWritesKeeps == ASSUME IInv, NEW r \in Requests, RequestWrites(r) PROVE IInv'
<1> DEFINE w == request[r].write
           after == IF w.pair = None THEN "done" ELSE "again"
           next == [request[r] EXCEPT !.write = Advance(w),
                                      !.at = IF Advance(w) = Idle THEN after ELSE "write"]
<1>0. TypeOK /\ Stations /\ Known /\ request[r] \in RequestType /\ request \in [Requests -> RequestType]
  BY DEF IInv, TypeOK, RequestType, Ats
<1>1. /\ request[r].at = "write" /\ Write(w) /\ request' = [request EXCEPT ![r] = next]
      /\ UNCHANGED <<screen, refresh, login, active, late, kills, answered, unheard, torn>>
  BY DEF RequestWrites, server, heard
<1>2. /\ request'[r] = next /\ \A q \in Requests : q # r => request'[q] = request[q]
  BY <1>0, <1>1
<1>3. next.write = Advance(w) /\ (next.at = "write" <=> Advance(w) # Idle) /\ next.at # "wait"
      /\ next.held = request[r].held
  BY <1>0 DEF RequestType
<1>4. /\ Advance(w) \in Writers' /\ w \in Writers
      /\ \A other \in Writers : other = w \/ other \in Writers'
      /\ \A other \in Writers' : other = Advance(w) \/ other \in Writers
  <2> HIDE DEF next
  <2> QED  BY <1>1, <1>2, <1>3 DEF Writers
<1>5. /\ Advance(w) \in Writer
      /\ storage' \in [token : Tokens, refreshToken : Tokens, user : Tokens] /\ signedIn' \in BOOLEAN
      /\ (\A other \in Writers' : other.step = 0 <=> other = Idle) /\ OneStory'
      /\ \A other \in Writers' : other.pair \in Disclosed \cup {None}
      /\ storage'.refreshToken \in Disclosed
  <2> HIDE DEF w
  <2> QED  BY <1>1, <1>4, WriterGoesOn
<1>6. next \in RequestType
  BY <1>0, <1>5 DEF RequestType, Ats
<1>7. request' \in [Requests -> RequestType]
  <2> HIDE DEF next
  <2> QED  BY <1>0, <1>1, <1>6, OneMoves
<1> HIDE DEF next, w
<1>8. TypeOK'
  BY <1>0, <1>1, <1>5, <1>7 DEF TypeOK, RequestType, Ats
<1>9. Stations'
  <2>1. \A q \in Requests : request'[q].at = "write" <=> request'[q].write # Idle
    BY <1>0, <1>2, <1>3 DEF Stations
  <2>2. Waiting' = Waiting
    BY <1>1, <1>2, <1>3 DEF Waiting
  <2> QED  BY <1>0, <1>1, <1>5, <2>1, <2>2 DEF Stations
<1>10. Known'
  <2>1. \A q \in Requests : request'[q].held = request[q].held
    BY <1>2, <1>3
  <2>2. Disclosed' \subseteq Disclosed \cup {None}
    BY <1>1, <1>5, <2>1 DEF Disclosed
  <2>3. Issued' = Issued /\ active \subseteq Issued
    BY <1>0, <1>1 DEF Issued, Known
  <2> QED  BY <1>0, <1>1, <2>2, <2>3, KnownStays
<1> QED  BY <1>5, <1>8, <1>9, <1>10 DEF IInv

\* A login or logout screen writes one key, or the state.
LEMMA ScreenWritesKeeps == ASSUME IInv, ScreenWrites PROVE IInv'
<1>0. TypeOK /\ Stations /\ Known
  BY DEF IInv
<1>1. /\ Write(screen) /\ screen' = Advance(screen)
      /\ UNCHANGED <<request, refresh, login, active, late, kills, answered, unheard, torn>>
  BY DEF ScreenWrites, server, heard
<1>2. /\ Advance(screen) \in Writers' /\ screen \in Writers
      /\ \A other \in Writers : other = screen \/ other \in Writers'
      /\ \A other \in Writers' : other = Advance(screen) \/ other \in Writers
  BY <1>1 DEF Writers
<1>3. /\ Advance(screen) \in Writer
      /\ storage' \in [token : Tokens, refreshToken : Tokens, user : Tokens] /\ signedIn' \in BOOLEAN
      /\ (\A other \in Writers' : other.step = 0 <=> other = Idle) /\ OneStory'
      /\ \A other \in Writers' : other.pair \in Disclosed \cup {None}
      /\ storage'.refreshToken \in Disclosed
  BY <1>1, <1>2, WriterGoesOn
<1>4. TypeOK'
  BY <1>0, <1>1, <1>3 DEF TypeOK
<1>5. Stations'
  BY <1>0, <1>1, <1>3 DEF Stations, Waiting
<1>6. Known'
  <2>1. Disclosed' \subseteq Disclosed \cup {None}
    BY <1>1, <1>3 DEF Disclosed
  <2>2. Issued' = Issued /\ active \subseteq Issued
    BY <1>0, <1>1 DEF Issued, Known
  <2> QED  BY <1>0, <1>1, <2>1, <2>2, KnownStays
<1> QED  BY <1>3, <1>4, <1>5, <1>6 DEF IInv

\* A start of the app: what is stored is the story, if no writer was at work; a
\* refresh under way is one the app will not hear of.
LEMMA RestartKeeps == ASSUME IInv, Restart PROVE IInv'
<1> USE RefreshAssumption
<1>0. TypeOK /\ Stations /\ Known /\ OneStory
  BY DEF IInv
<1>1. /\ request' = [r \in Requests |->
             IF request[r].at = "sent" THEN Unsent ELSE [Unsent EXCEPT !.at = "done"]]
      /\ screen' = Idle /\ refresh' = NoRefresh
      /\ signedIn' = \A key \in DOMAIN storage : storage[key] # None
      /\ UNCHANGED <<storage, login, active, answered>>
      /\ kills' \in 0 .. MaxKills
      /\ torn' = (torn \/ Writers # {Idle})
  BY <1>0 DEF Restart, tokens, TypeOK
<1>8. refresh # NoRefresh => refresh.sent \in Issued /\ refresh.sent \in Pair
  BY <1>0 DEF Stations, Known, Disclosed, Issued
<1>9. /\ unheard \subseteq unheard' /\ unheard' \subseteq Tokens /\ late' \in [Pair -> Nat]
      /\ refresh # NoRefresh => login[refresh.sent] \in unheard'
      /\ \A t \in Pair : late'[t] > 0 => late[t] > 0 \/ (t \in Issued /\ login[t] \in unheard')
  <2>1. CASE refresh = NoRefresh
    BY <1>0, <2>1 DEF Restart, TypeOK
  <2>2. CASE refresh # NoRefresh
    <3>1. /\ unheard' = unheard \cup {login[refresh.sent]}
          /\ late' = IF refresh.answer = "open" THEN [late EXCEPT ![refresh.sent] = @ + 1] ELSE late
      BY <2>2 DEF Restart, GivenUp
    <3>2. /\ late' \in [Pair -> Nat]
          /\ \A t \in Pair : late'[t] > 0 => late[t] > 0 \/ t = refresh.sent
      BY <1>0, <3>1, LateGrows DEF TypeOK
    <3> QED  BY <1>0, <1>8, <2>2, <3>1, <3>2 DEF TypeOK
  <2> QED  BY <2>1, <2>2
<1>2. \A r \in Requests : /\ request'[r] \in RequestType /\ request'[r].at \in {"sent", "done"}
                          /\ request'[r].write = Idle /\ request'[r].held = None
  BY <1>1, WriterTypes DEF Unsent, RequestType, Ats, Tokens
<1>3. Writers' = {Idle} /\ Waiting' = {}
  BY <1>1, <1>2 DEF Writers, Waiting
<1>4. TypeOK'
  <2>1. request' \in [Requests -> RequestType]
    BY <1>1, <1>2
  <2>2. refresh' \in [sent : Tokens, answer : {"none", "open", "pair", "refused"}, pair : Tokens]
    BY <1>1 DEF NoRefresh, Tokens
  <2>3. screen' \in Writer /\ torn' \in BOOLEAN /\ signedIn' \in BOOLEAN
    BY <1>0, <1>1, WriterTypes DEF Tokens, TypeOK
  <2> QED  BY <1>0, <1>1, <1>9, <2>1, <2>2, <2>3 DEF TypeOK, RequestType, Ats
<1>5. Stations'
  BY <1>1, <1>2, <1>3, WriterTypes DEF Stations, NoRefresh, Tokens
<1>6. Known'
  <2>1. refresh'.sent = None /\ refresh'.pair = None /\ refresh'.answer = "none"
    BY <1>1 DEF NoRefresh
  <2>2. Disclosed' \subseteq Disclosed \cup {None}
    BY <1>1, <1>2, <1>3, <2>1, WriterTypes DEF Disclosed, Tokens
  <2>3. Issued' = Issued /\ active \subseteq Issued
    BY <1>0, <1>1 DEF Issued, Known
  <2> QED  BY <1>0, <1>1, <1>9, <2>1, <2>2, <2>3, KnownStays
<1>7. OneStory'
  <2>1. CASE torn'
    BY <2>1 DEF OneStory
  <2>2. CASE ~torn'
    <3>1. PICK pair \in Tokens : Story(pair)
      BY <1>0, <1>1, <2>2 DEF OneStory
    <3>2. Writers = {Idle} /\ Idle.step = 0
      BY <1>1, <2>2 DEF Idle
    <3>3. /\ storage.token = pair /\ storage.refreshToken = pair /\ storage.user = UserOf(pair)
          /\ pair \in Issued \cup {None}
          /\ pair # None => (Serves(pair) \/ Spent(pair)) /\ pair \notin answered
      BY <3>1, <3>2 DEF Story
    <3>7. pair # None => Serves(pair)' /\ pair \notin answered'
      <4>1. Spent(pair) => refresh # NoRefresh /\ login[refresh.sent] = login[pair]
        BY DEF Spent, NoRefresh
      <4> QED  BY <1>1, <1>9, <3>3, <4>1 DEF Serves
    <3>4. signedIn' <=> pair # None
      <4>1. UserOf(pair) # None <=> pair # None
        BY <3>3 DEF UserOf, Issued, None
      <4>2. DOMAIN storage = {"token", "refreshToken", "user"}
        BY <1>0 DEF TypeOK
      <4> QED  BY <1>1, <3>3, <4>1, <4>2
    <3>5. Issued' = Issued /\ UserOf(pair)' = UserOf(pair)
      BY <1>1 DEF Issued, UserOf
    <3>6. Story(pair)'
      BY <1>1, <1>3, <3>3, <3>4, <3>5, <3>7 DEF Story
    <3> QED  BY <3>6 DEF OneStory, Tokens, Pair, None
  <2> QED  BY <2>1, <2>2
<1> QED  BY <1>4, <1>5, <1>6, <1>7 DEF IInv

-----------------------------------------------------------------------------
\* The invariant of the app's session and of the server's tokens.
THEOREM Invariant == Spec => []IInv
<1>1. ASSUME IInv, Next PROVE IInv'
  <2>1. ASSUME NEW r \in Requests, RequestStep(r) PROVE IInv'
    BY <1>1, <2>1, NothingHeldKeeps, RequestWritesKeeps, RequestsKeep DEF RequestStep
  <2>2. CASE Rotate \/ Refuse
    BY <1>1, <2>2, ServerKeeps
  <2>3. CASE Answer
    BY <1>1, <2>3, AnswerKeeps
  <2>4. CASE ScreenWrites
    BY <1>1, <2>4, ScreenWritesKeeps
  <2>5. CASE Logout \/ Login
    BY <1>1, <2>5, ScreensKeep
  <2>6. CASE Restart
    BY <1>1, <2>6, RestartKeeps
  <2>7. ASSUME NEW t \in Pair, ArrivesLate(t) PROVE IInv'
    BY <1>1, <2>7, LateKeeps
  <2> QED  BY <1>1, <2>1, <2>2, <2>3, <2>4, <2>5, <2>6, <2>7 DEF Next
<1>2. ASSUME IInv, UNCHANGED vars PROVE IInv'
  <2>1. UNCHANGED <<request, screen, refresh, storage, signedIn, login, active, late, kills, answered,
                    unheard, torn>>
    BY <1>2 DEF vars, server, heard
  <2>2. Writers' = Writers /\ Waiting' = Waiting /\ Issued' = Issued
    BY <2>1 DEF Writers, Waiting, Issued
  <2>3. Disclosed' = Disclosed
    BY <2>1, <2>2 DEF Disclosed
  <2>4. TypeOK' /\ Stations'
    BY <1>2, <2>1, <2>2 DEF IInv, TypeOK, Stations
  <2>5. Known'
    BY <1>2, <2>1, <2>2, <2>3 DEF IInv, Known, Serves
  <2>6. OneStory'
    BY <1>2, <2>1, <2>2, StoryStays DEF IInv, Serves, Spent
  <2> QED  BY <2>4, <2>5, <2>6 DEF IInv
<1> QED  BY <1>1, <1>2, InitIInv, PTL DEF Spec

\* Requests, writers, refresh, storage and the server's tokens keep their types.
THEOREM TypeCorrect == Spec => []TypeOK
BY Invariant, PTL DEF IInv

\* When no writer is at work, what the app stored and what it shows are of one session
\* (authStore.ts:30-59, client.ts:65-81), unless writers of different pairs overlapped or
\* the app died amid one.
THEOREM SessionIsWhole == Spec => []SessionWhole
<1>1. ASSUME IInv PROVE SessionWhole
  <2>1. SUFFICES ASSUME Quiet, ~torn PROVE
          \/ signedIn /\ storage.refreshToken = storage.token
                      /\ storage.token # None /\ storage.user = login[storage.token]
          \/ ~signedIn /\ \A key \in DOMAIN storage : storage[key] = None
    BY DEF SessionWhole
  <2>2. PICK pair \in Tokens : Story(pair)
    BY <1>1, <2>1 DEF IInv, OneStory
  <2>3. /\ storage.token = pair /\ storage.refreshToken = pair /\ storage.user = UserOf(pair)
        /\ (signedIn <=> pair # None)
    BY <2>1, <2>2 DEF Quiet, Story, Idle
  <2>4. DOMAIN storage = {"token", "refreshToken", "user"}
    BY <1>1 DEF IInv, TypeOK
  <2> QED  BY <2>3, <2>4 DEF UserOf, None
<1> QED  BY <1>1, Invariant, PTL

\* The refresh token of a signed-in technician is one the server has not revoked
\* (client.ts:57-74, refresh_token.go:223-297), under the same condition and unless an
\* answer of this login was never heard: a kill, a time-out, a lost answer.
THEOREM TokenServes == Spec => []StoredTokenServes
<1>1. ASSUME IInv PROVE StoredTokenServes
  <2>1. SUFFICES ASSUME Quiet, ~torn, signedIn
                 PROVE  storage.refreshToken \in active \/ login[storage.refreshToken] \in unheard
    BY DEF StoredTokenServes
  <2>2. PICK pair \in Tokens : Story(pair)
    BY <1>1, <2>1 DEF IInv, OneStory
  <2>3. storage.refreshToken = pair /\ pair # None
    BY <2>1, <2>2 DEF Quiet, Story, Idle
  <2>4. ~Spent(pair)
    BY <2>1 DEF Quiet, Spent, NoRefresh
  <2> QED  BY <2>2, <2>3, <2>4 DEF Story, Serves
<1> QED  BY <1>1, Invariant, PTL

\* The app does not keep a token whose answer it has heard (client.ts:64-80), whatever was
\* lost or killed before: a session that a kill has left with a used token ends with the
\* first answer.
THEOREM AnsweredGoes == Spec => []AnsweredNotKept
<1>1. ASSUME IInv PROVE AnsweredNotKept
  <2>1. SUFFICES ASSUME Quiet, ~torn, signedIn PROVE storage.refreshToken \notin answered
    BY DEF AnsweredNotKept
  <2>2. PICK pair \in Tokens : Story(pair)
    BY <1>1, <2>1 DEF IInv, OneStory
  <2>3. storage.refreshToken = pair /\ pair # None
    BY <2>1, <2>2 DEF Quiet, Story, Idle
  <2> QED  BY <2>2, <2>3 DEF Story
<1> QED  BY <1>1, Invariant, PTL
=============================================================================

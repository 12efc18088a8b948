--------------------------- MODULE SyncStore_proofs ---------------------------
(***************************************************************************)
(* What holds of the two ways store/syncStore.ts sends offline work, for   *)
(* any number of actions and mutations, loads and kills: a row leaves its  *)
(* table only for a reason, and is sent twice only for a reason; an action *)
(* is tried a bounded number of times; a sync that reports success has     *)
(* fetched the work orders.  The two share nothing but the store, so each  *)
(* has its own specification: Spec is the action queue's, DeltaSpec the    *)
(* differential sync's.                                                    *)
(***************************************************************************)
EXTENDS ActionQueue, DeltaSync, FiniteSetTheorems, WellFoundedInduction, TLAPS

-----------------------------------------------------------------------------
(* The action queue.  A completion's row is destroyed only by a pass that  *)
(* has it in its processedIds, and those were sent or given up.  The array *)
(* in memory takes no part in it, so what it loses does not matter here.   *)

-----------------------------------------------------------------------------
(* Arrays of actions, seen as the sets of objects in them.                  *)

\* A set of numbers that is not empty has a least one.
LEMMA MinExists ==
  ASSUME NEW S, S \subseteq Nat, S # {}
  PROVE  Min(S) \in S /\ \A n \in S : Min(S) <= n
<1> DEFINE Below == {pair \in Nat \X Nat : pair[1] < pair[2]}
<1>1. IsWellFoundedOn(Below, Nat)
  BY NatLessThanWellFounded, Zenon DEF OpToRel
<1>2. PICK m \in S : \A n \in S : ~(<<n, m>> \in Below)
  BY <1>1, WFMin
<1>3. \A n \in S : m <= n
  <2> SUFFICES ASSUME NEW n \in S, ~(m <= n) PROVE FALSE
    OBVIOUS
  <2>1. n \in Nat /\ m \in Nat /\ n < m
    OBVIOUS
  <2>2. <<n, m>> \in Below
    BY <2>1
  <2> QED  BY <1>2, <2>2
<1> QED  BY <1>3 DEF Min

\* The lesser of two numbers.
LEMMA MinOfTwo ==
  ASSUME NEW x \in Int, NEW y \in Int
  PROVE  Min({x, y}) = IF x <= y THEN x ELSE y
BY DEF Min

\* The last object of an array it was appended to.
LEMMA ToSetAppend ==
  ASSUME NEW S, NEW s \in Seq(S), NEW e \in S
  PROVE  /\ Append(s, e) \in Seq(S) /\ ToSet(Append(s, e)) = ToSet(s) \cup {e}
         /\ IsInjective(s) /\ e \notin ToSet(s) => IsInjective(Append(s, e))
<1>1. /\ Append(s, e) \in Seq(S) /\ Len(s) \in Nat
      /\ DOMAIN s = 1 .. Len(s) /\ DOMAIN Append(s, e) = 1 .. Len(s) + 1
      /\ \A i \in 1 .. Len(s) : Append(s, e)[i] = s[i]
      /\ Append(s, e)[Len(s) + 1] = e
  OBVIOUS
<1> DEFINE longer == Append(s, e)
<1> HIDE DEF longer
<1>2. /\ longer \in Seq(S) /\ DOMAIN longer = 1 .. Len(s) + 1
      /\ \A i \in 1 .. Len(s) : longer[i] = s[i]
      /\ longer[Len(s) + 1] = e
  BY <1>1 DEF longer
<1>3. \A i \in DOMAIN longer : i = Len(s) + 1 \/ i \in 1 .. Len(s)
  BY <1>1, <1>2
<1>4. \A i \in 1 .. Len(s) : i \in DOMAIN longer
  BY <1>1, <1>2
<1>5. Len(s) + 1 \in DOMAIN longer
  BY <1>1, <1>2
<1>6. ToSet(longer) = ToSet(s) \cup {e}
  BY <1>1, <1>2, <1>3, <1>4, <1>5, Zenon DEF ToSet
<1>7. IsInjective(s) /\ e \notin ToSet(s) => IsInjective(longer)
  BY <1>1, <1>2, <1>3 DEF ToSet, IsInjective
<1> QED  BY <1>2, <1>6, <1>7 DEF longer

\* Two arrays, one after the other.
LEMMA ToSetConcat ==
  ASSUME NEW S, NEW s \in Seq(S), NEW t \in Seq(S)
  PROVE  ToSet(s \o t) = ToSet(s) \cup ToSet(t)
<1> DEFINE both == s \o t
<1>1. /\ DOMAIN s = 1 .. Len(s) /\ DOMAIN t = 1 .. Len(t) /\ Len(s) \in Nat /\ Len(t) \in Nat
      /\ DOMAIN both = 1 .. Len(s) + Len(t)
      /\ \A i \in 1 .. Len(s) : both[i] = s[i]
      /\ \A i \in 1 .. Len(t) : both[Len(s) + i] = t[i]
  OBVIOUS
<1> HIDE DEF both
<1>2. \A i \in DOMAIN s : i \in DOMAIN both /\ both[i] = s[i]
  BY <1>1
<1>3. \A i \in DOMAIN t : Len(s) + i \in DOMAIN both /\ both[Len(s) + i] = t[i]
  BY <1>1
<1>4. ASSUME NEW i \in DOMAIN both PROVE i \in DOMAIN s \/ (i - Len(s) \in DOMAIN t /\ both[i] = t[i - Len(s)])
  <2>1. CASE i <= Len(s)
    BY <1>1, <2>1
  <2>2. CASE i > Len(s)
    <3>1. i - Len(s) \in 1 .. Len(t) /\ Len(s) + (i - Len(s)) = i
      BY <1>1, <2>2
    <3> QED  BY <1>1, <3>1
  <2> QED  BY <1>1, <2>1, <2>2
<1>5. ToSet(s) \subseteq ToSet(both)
  BY <1>2, Zenon DEF ToSet
<1>6. ToSet(t) \subseteq ToSet(both)
  BY <1>3, Zenon DEF ToSet
<1>7. ToSet(both) \subseteq ToSet(s) \cup ToSet(t)
  BY <1>2, <1>4, Zenon DEF ToSet
<1> QED  BY <1>5, <1>6, <1>7 DEF both

\* The first object of an array, and the others.
LEMMA ToSetTail ==
  ASSUME NEW S, NEW s \in Seq(S), s # <<>>
  PROVE  /\ Head(s) \in S /\ Tail(s) \in Seq(S)
         /\ ToSet(s) = {Head(s)} \cup ToSet(Tail(s))
         /\ IsInjective(s) => IsInjective(Tail(s)) /\ Head(s) \notin ToSet(Tail(s))
<1>1. /\ Head(s) = s[1] /\ Head(s) \in S /\ Tail(s) \in Seq(S) /\ Len(s) \in Nat /\ Len(s) >= 1
      /\ DOMAIN s = 1 .. Len(s) /\ DOMAIN Tail(s) = 1 .. Len(s) - 1
      /\ \A i \in 1 .. Len(s) - 1 : Tail(s)[i] = s[i + 1]
  OBVIOUS
<1>2. ToSet(s) \subseteq {Head(s)} \cup ToSet(Tail(s))
  <2> SUFFICES ASSUME NEW i \in 1 .. Len(s), i # 1 PROVE s[i] \in ToSet(Tail(s))
    BY <1>1 DEF ToSet
  <2>1. i - 1 \in DOMAIN Tail(s) /\ Tail(s)[i - 1] = s[i]
    BY <1>1
  <2> QED  BY <2>1 DEF ToSet
<1>3. {Head(s)} \cup ToSet(Tail(s)) \subseteq ToSet(s)
  BY <1>1 DEF ToSet
<1>4. ASSUME IsInjective(s) PROVE IsInjective(Tail(s)) /\ Head(s) \notin ToSet(Tail(s))
  BY <1>1, <1>4 DEF IsInjective, ToSet
<1> QED  BY <1>1, <1>2, <1>3, <1>4

\* An array cut in two.
LEMMA ToSetCut ==
  ASSUME NEW S, NEW s \in Seq(S), NEW c \in 1 .. Len(s)
  PROVE  LET before == SubSeq(s, 1, c - 1)
             rest == SubSeq(s, c, Len(s))
         IN  /\ before \in Seq(S) /\ rest \in Seq(S) /\ rest # <<>>
             /\ ToSet(s) = ToSet(before) \cup ToSet(rest)
             /\ IsInjective(s) => IsInjective(rest)
<1> DEFINE before == SubSeq(s, 1, c - 1)
           rest == SubSeq(s, c, Len(s))
<1>1. /\ Len(s) \in Nat /\ c \in Nat /\ c >= 1 /\ c <= Len(s) /\ DOMAIN s = 1 .. Len(s)
      /\ before \in Seq(S) /\ rest \in Seq(S)
      /\ DOMAIN before = 1 .. c - 1 /\ \A i \in 1 .. c - 1 : before[i] = s[i]
      /\ DOMAIN rest = 1 .. Len(s) - c + 1 /\ \A i \in 1 .. Len(s) - c + 1 : rest[i] = s[i + c - 1]
  OBVIOUS
<1>2. rest # <<>>
  <2>1. 1 \in DOMAIN rest
    BY <1>1
  <2> QED  BY <2>1
<1>6. before = SubSeq(s, 1, c - 1) /\ rest = SubSeq(s, c, Len(s))
  OBVIOUS
<1> HIDE DEF before, rest
<1>3. ToSet(s) \subseteq ToSet(before) \cup ToSet(rest)
  <2> SUFFICES ASSUME NEW i \in 1 .. Len(s) PROVE s[i] \in ToSet(before) \cup ToSet(rest)
    BY <1>1 DEF ToSet
  <2>1. CASE i < c
    <3>1. i \in DOMAIN before /\ before[i] = s[i]
      BY <1>1, <2>1
    <3> QED  BY <3>1 DEF ToSet
  <2>2. CASE i >= c
    <3>1. i - c + 1 \in 1 .. Len(s) - c + 1 /\ (i - c + 1) + c - 1 = i
      BY <1>1, <2>2
    <3>2. i - c + 1 \in DOMAIN rest /\ rest[i - c + 1] = s[i]
      BY <1>1, <3>1
    <3> QED  BY <3>2 DEF ToSet
  <2> QED  BY <1>1, <2>1, <2>2
<1>7. ASSUME NEW i \in DOMAIN rest PROVE i + c - 1 \in DOMAIN s /\ rest[i] = s[i + c - 1]
  <2>1. i \in 1 .. Len(s) - c + 1
    BY <1>1
  <2>2. i + c - 1 \in 1 .. Len(s)
    BY <1>1, <2>1
  <2> QED  BY <1>1, <2>1, <2>2
<1>8. \A i \in DOMAIN before : i \in DOMAIN s /\ before[i] = s[i]
  BY <1>1
<1>4. ToSet(before) \cup ToSet(rest) \subseteq ToSet(s)
  BY <1>7, <1>8, Zenon DEF ToSet
<1>5. ASSUME IsInjective(s) PROVE IsInjective(rest)
  <2> SUFFICES ASSUME NEW i \in DOMAIN rest, NEW j \in DOMAIN rest, rest[i] = rest[j] PROVE i = j
    BY DEF IsInjective
  <2>2. i + c - 1 = j + c - 1
    BY <1>5, <1>7 DEF IsInjective
  <2>3. i \in Int /\ j \in Int /\ c \in Int
    BY <1>1
  <2> QED  BY <2>2, <2>3
<1> QED  BY <1>1, <1>2, <1>3, <1>4, <1>5, <1>6

\* The loop stops at a place of the array, or at its end.
LEMMA FirstRequestIsPlace ==
  ASSUME NEW s \in Seq(SyncAction)
  PROVE  FirstRequest(s) = 0 \/ FirstRequest(s) \in 1 .. Len(s)
<1> DEFINE places == {i \in 1 .. Len(s) : Kind[s[i].id] # "checklist"}
<1>1. FirstRequest(s) = IF places # {} THEN Min(places) ELSE 0
  BY DEF FirstRequest, SelectInSeq
<1>2. places \subseteq Nat /\ places \subseteq 1 .. Len(s)
  OBVIOUS
<1> HIDE DEF places
<1> QED  BY <1>1, <1>2, MinExists
-----------------------------------------------------------------------------
(* The loop over a copy of the array                                       *)

PassState == [at : {"idle", "call", "cleanup"}, kept : Seq(SyncAction), todo : Seq(SyncAction),
              reached : BOOLEAN, processed : SUBSET Actions]

\* What holds of a pass's state: no object twice, and it awaits a request as long as
\* its copy has objects left.
PassSound(state) ==
    /\ state \in PassState
    /\ IsInjective(state.kept) /\ IsInjective(state.todo)
    /\ ToSet(state.kept) \cap ToSet(state.todo) = {}
    /\ (state.at = "call") <=> (state.todo # <<>>)

\* The actions the loop logs before it stops or ends.
Logged(todo) ==
    Ids(IF FirstRequest(todo) = 0 THEN todo ELSE SubSeq(todo, 1, FirstRequest(todo) - 1))

\* The three ways a run of the loop ends: at a request, at the end of its copy, and at
\* the end without having anything to store.
StopsAt(next, kept, todo, processed, array) ==
    /\ next.array = array
    /\ next.pass = [at |-> "call", kept |-> kept, todo |-> next.pass.todo, reached |-> FALSE,
                    processed |-> processed \cup Logged(todo)]
    /\ next.pass.todo \in Seq(SyncAction) /\ next.pass.todo # <<>>
    /\ ToSet(next.pass.todo) \subseteq ToSet(todo)
    /\ \A object \in ToSet(todo) : object \in ToSet(next.pass.todo) \/ object.id \in Logged(todo)
    /\ IsInjective(todo) => IsInjective(next.pass.todo)

EndsAt(next, kept, todo, processed, array) ==
    /\ next.array = kept
    /\ next.pass = [at |-> "cleanup", kept |-> kept, todo |-> <<>>, reached |-> FALSE,
                    processed |-> processed \cup Logged(todo)]

IdlesAt(next, kept, todo, processed, array) ==
    /\ next.array = array
    /\ next.pass = IdlePass
    /\ todo = <<>> /\ processed = {}

\* The actions of some objects are actions.
LEMMA IdsAreActions ==
  ASSUME NEW s \in Seq(SyncAction)
  PROVE  /\ Ids(s) \subseteq Actions /\ \A object \in ToSet(s) : object \in SyncAction /\ object.id \in Ids(s)
         /\ Ids(s) = {} => s = <<>>
<1>1. ToSet(s) \subseteq SyncAction
  BY DEF ToSet
<1>2. \A object \in SyncAction : object.id \in Actions
  BY DEF SyncAction
<1>3. Ids(s) \subseteq Actions /\ \A object \in ToSet(s) : object.id \in Ids(s)
  BY <1>1, <1>2 DEF Ids
<1>4. ASSUME s # <<>> PROVE Ids(s) # {}
  <2>1. 1 \in DOMAIN s
    BY <1>4
  <2>2. s[1] \in ToSet(s)
    BY <2>1 DEF ToSet
  <2> QED  BY <1>3, <2>2
<1> QED  BY <1>1, <1>3, <1>4

\* The loop runs on to the next request, or to the end.
LEMMA LoopFacts ==
  ASSUME NEW kept \in Seq(SyncAction), NEW todo \in Seq(SyncAction), NEW processed \in SUBSET Actions, NEW array
  PROVE  LET next == RunLoop(kept, todo, processed, array)
         IN  /\ Logged(todo) \in SUBSET Actions
             /\ \/ StopsAt(next, kept, todo, processed, array)
                \/ EndsAt(next, kept, todo, processed, array)
                \/ IdlesAt(next, kept, todo, processed, array)
<1> DEFINE next == RunLoop(kept, todo, processed, array)
           calls == FirstRequest(todo)
<1> SUFFICES /\ Logged(todo) \in SUBSET Actions
             /\ \/ StopsAt(next, kept, todo, processed, array)
                \/ EndsAt(next, kept, todo, processed, array)
                \/ IdlesAt(next, kept, todo, processed, array)
  OBVIOUS
<1>1. CASE calls = 0
  <2>1. /\ Logged(todo) = Ids(todo)
        /\ next.pass = IF processed \cup Ids(todo) # {}
                       THEN [at |-> "cleanup", kept |-> kept, todo |-> <<>>, reached |-> FALSE,
                             processed |-> processed \cup Ids(todo)]
                       ELSE IdlePass
        /\ next.array = IF processed \cup Ids(todo) # {} THEN kept ELSE array
    BY <1>1 DEF RunLoop, Loop, Logged
  <2>2. Ids(todo) \subseteq Actions /\ (Ids(todo) = {} => todo = <<>>)
    BY IdsAreActions
  <2> HIDE DEF next
  <2> QED  BY <2>1, <2>2 DEF EndsAt, IdlesAt
<1>2. CASE calls # 0
  <2> DEFINE before == SubSeq(todo, 1, calls - 1)
             rest == SubSeq(todo, calls, Len(todo))
  <2>1. calls \in 1 .. Len(todo)
    BY <1>2, FirstRequestIsPlace
  <2>2. /\ before \in Seq(SyncAction) /\ rest \in Seq(SyncAction) /\ rest # <<>>
        /\ ToSet(todo) = ToSet(before) \cup ToSet(rest)
        /\ IsInjective(todo) => IsInjective(rest)
    BY <2>1, ToSetCut
  <2>3. /\ Ids(before) \subseteq Actions
        /\ \A object \in ToSet(before) : object.id \in Ids(before)
    BY <2>2, IdsAreActions
  <2>4. /\ Logged(todo) = Ids(before)
        /\ next.pass = [at |-> "call", kept |-> kept, todo |-> rest, reached |-> FALSE,
                        processed |-> processed \cup Ids(before)]
        /\ next.array = array
    BY <1>2, <2>2 DEF RunLoop, Loop, Logged
  <2> HIDE DEF next, before, rest
  <2>5. next.pass.todo = rest
    BY <2>4
  <2> QED  BY <2>2, <2>3, <2>4, <2>5 DEF StopsAt
<1> QED  BY <1>1, <1>2

\* What a resumed pass does: it awaits its next request, or it has stored its copy, or it
\* had nothing to store.
Resumed(p, kept, processed, state) ==
    /\ pass' = [pass EXCEPT ![p] = state]
    /\ PassSound(state) /\ ~state.reached
    /\ state.processed \subseteq processed \cup Logged(Tail(pass[p].todo))
    /\ \/ /\ queue' = queue
          /\ state.at = "call" /\ state.kept = kept
          /\ ToSet(state.todo) \subseteq ToSet(Tail(pass[p].todo))
          /\ processed \subseteq state.processed
          /\ \A object \in ToSet(Tail(pass[p].todo)) :
                object \in ToSet(state.todo) \/ object.id \in state.processed
       \/ /\ queue' = kept
          /\ state.at = "cleanup" /\ state.kept = kept /\ state.todo = <<>>
       \/ /\ queue' = queue
          /\ state = IdlePass /\ processed = {} /\ Tail(pass[p].todo) = <<>>

LEMMA ResumeFacts ==
  ASSUME NEW p \in Passes, DOMAIN pass = Passes, PassSound(pass[p]), pass[p].at = "call",
         NEW kept, NEW processed \in SUBSET Actions,
         \/ kept = pass[p].kept
         \/ kept = Append(pass[p].kept, Head(pass[p].todo)),
         Resume(p, kept, processed)
  PROVE  \E state : Resumed(p, kept, processed, state)
<1> DEFINE rest == Tail(pass[p].todo)
           h == Head(pass[p].todo)
           next == RunLoop(kept, rest, processed, queue)
<1>1. /\ pass[p].todo \in Seq(SyncAction) /\ pass[p].todo # <<>> /\ pass[p].kept \in Seq(SyncAction)
      /\ IsInjective(pass[p].kept) /\ IsInjective(pass[p].todo)
      /\ ToSet(pass[p].kept) \cap ToSet(pass[p].todo) = {}
  BY DEF PassSound, PassState
<1>2. /\ h \in SyncAction /\ rest \in Seq(SyncAction) /\ ToSet(pass[p].todo) = {h} \cup ToSet(rest)
      /\ IsInjective(rest) /\ h \notin ToSet(rest)
  BY <1>1, ToSetTail
<1> HIDE DEF rest, h
<1>3. /\ kept \in Seq(SyncAction) /\ IsInjective(kept) /\ ToSet(kept) \cap ToSet(rest) = {}
  <2>1. CASE kept = pass[p].kept
    BY <1>1, <1>2, <2>1
  <2>2. CASE kept = Append(pass[p].kept, h)
    <3>1. /\ kept \in Seq(SyncAction) /\ ToSet(kept) = ToSet(pass[p].kept) \cup {h}
          /\ (IsInjective(pass[p].kept) /\ h \notin ToSet(pass[p].kept) => IsInjective(kept))
      BY <1>1, <1>2, <2>2, ToSetAppend
    <3> QED  BY <1>1, <1>2, <3>1
  <2> QED  BY <2>1, <2>2 DEF h
<1>4. /\ Logged(rest) \in SUBSET Actions
      /\ \/ StopsAt(next, kept, rest, processed, queue)
         \/ EndsAt(next, kept, rest, processed, queue)
         \/ IdlesAt(next, kept, rest, processed, queue)
  BY <1>2, <1>3, LoopFacts
<1>5. pass' = [pass EXCEPT ![p] = next.pass] /\ queue' = next.array
  BY DEF Resume, rest
<1> HIDE DEF next
<1> WITNESS next.pass
<1>6. CASE StopsAt(next, kept, rest, processed, queue)
  <2>1. /\ next.pass.at = "call" /\ next.pass.kept = kept /\ ~next.pass.reached
        /\ next.pass.processed = processed \cup Logged(rest)
    BY <1>6 DEF StopsAt
  <2>2. /\ next.pass.todo \in Seq(SyncAction) /\ next.pass.todo # <<>> /\ IsInjective(next.pass.todo)
        /\ ToSet(kept) \cap ToSet(next.pass.todo) = {}
    BY <1>2, <1>3, <1>6 DEF StopsAt
  <2>3. next.pass \in PassState
    <3>1. processed \cup Logged(rest) \in SUBSET Actions
      BY <1>4
    <3>2. \A todo \in Seq(SyncAction), done \in SUBSET Actions :
             [at |-> "call", kept |-> kept, todo |-> todo, reached |-> FALSE, processed |-> done] \in PassState
      BY <1>3 DEF PassState
    <3>3. next.pass = [at |-> "call", kept |-> kept, todo |-> next.pass.todo, reached |-> FALSE,
                       processed |-> processed \cup Logged(rest)]
      BY <1>6 DEF StopsAt
    <3> QED  BY <2>2, <3>1, <3>2, <3>3, Zenon
  <2>4. PassSound(next.pass)
    BY <1>3, <2>1, <2>2, <2>3 DEF PassSound
  <2> QED  BY <1>5, <1>6, <2>1, <2>4 DEF StopsAt, rest, Resumed
<1>7. CASE EndsAt(next, kept, rest, processed, queue)
  <2>1. ToSet(<<>>) = {} /\ IsInjective(<<>>) /\ <<>> \in Seq(SyncAction)
    BY DEF ToSet, IsInjective
  <2>2. PassSound(next.pass)
    BY <1>3, <1>4, <1>7, <2>1 DEF EndsAt, PassSound, PassState
  <2> QED  BY <1>5, <1>7, <2>2 DEF EndsAt, Resumed, rest
<1>8. CASE IdlesAt(next, kept, rest, processed, queue)
  <2>1. ToSet(<<>>) = {} /\ IsInjective(<<>>) /\ <<>> \in Seq(SyncAction)
    BY DEF ToSet, IsInjective
  <2>2. PassSound(next.pass)
    BY <1>8, <2>1 DEF IdlesAt, PassSound, PassState, IdlePass
  <2> QED  BY <1>5, <1>8, <2>2 DEF IdlesAt, rest, Resumed, IdlePass
<1> QED  BY <1>4, <1>6, <1>7, <1>8
-----------------------------------------------------------------------------
(* What the array, the passes and the loads keep                           *)

Held(p) == ToSet(pass[p].kept) \cup ToSet(pass[p].todo)

\* The loads are numbered in their order, and no two of them fetch at once under one number.
LoadsSound ==
    /\ loads >= 1 /\ loads <= 1 + MaxLoads + kills
    /\ \A snapshot \in loading : snapshot.load >= 1 /\ snapshot.load <= loads
    /\ \A snapshot, another \in loading : snapshot.load = another.load => snapshot = another

\* An object nobody has made yet is nowhere, and was never tried.
Unborn(object) ==
    \/ object.load = 0 /\ stage[object.id] # "added"
    \/ object.load > loads
    \/ \E snapshot \in loading : snapshot.load = object.load

Untouched ==
    \A object \in SyncAction : Unborn(object) =>
        /\ tries[object] = 0
        /\ object \notin ToSet(queue)
        /\ \A p \in Passes : object \notin Held(p)

QueueSound ==
    /\ TypeOK
    /\ \A p \in Passes : PassSound(pass[p])
    /\ IsInjective(queue)
    /\ LoadsSound
    /\ Untouched

\* The empty array, and a pass that does nothing.
LEMMA NothingHeld ==
  /\ <<>> \in Seq(SyncAction) /\ ToSet(<<>>) = {} /\ IsInjective(<<>>)
  /\ PassSound(IdlePass)
  /\ IdlePass.kept = <<>> /\ IdlePass.todo = <<>> /\ IdlePass.at = "idle"
  /\ IdlePass.processed = {} /\ IdlePass.reached = FALSE
<1>1. <<>> \in Seq(SyncAction) /\ ToSet(<<>>) = {} /\ IsInjective(<<>>)
  BY DEF ToSet, IsInjective
<1>2. /\ IdlePass.kept = <<>> /\ IdlePass.todo = <<>> /\ IdlePass.at = "idle"
      /\ IdlePass.processed = {} /\ IdlePass.reached = FALSE
  BY DEF IdlePass
<1>3. IdlePass \in PassState
  BY <1>1 DEF IdlePass, PassState
<1> QED  BY <1>1, <1>2, <1>3 DEF PassSound

\* The bound on the counters is a number.
LEMMA BoundsAreNumbers ==
  /\ IsFiniteSet(Passes) /\ Cardinality(Passes) \in Nat /\ MaxLoads \in Nat /\ MaxKills \in Nat
  /\ MostCopies \in Nat /\ Len(Kind) \in Nat /\ Actions = 1 .. Len(Kind) /\ IsFiniteSet(Actions)
<1>1. IsFiniteSet(Passes) /\ MaxLoads \in Nat /\ MaxKills \in Nat /\ Kind \in Seq({"complete", "checklist"})
  BY QueueAssumption
<1>2. Cardinality(Passes) \in Nat
  BY <1>1, FS_CardinalityType
<1>3. MostCopies \in Nat
  BY <1>1, <1>2 DEF MostCopies
<1>4. Len(Kind) \in Nat /\ Actions = 1 .. Len(Kind)
  BY <1>1 DEF Actions
<1>5. IsFiniteSet(Actions)
  BY <1>4, FS_Interval
<1> QED  BY <1>1, <1>2, <1>3, <1>4, <1>5

\* More reasons make the count larger, up to its bound.
LEMMA ExcuseFacts ==
  ASSUME reasons \in [Actions -> Int], NEW more \in [Actions -> Nat], Excuse(more)
  PROVE  /\ reasons' \in [Actions -> Int]
         /\ \A a \in Actions : reasons'[a] = reasons[a] + more[a] \/ reasons'[a] = MostCopies
<1>1. ASSUME NEW a \in Actions
      PROVE  /\ Min({reasons[a] + more[a], MostCopies}) \in Int
             /\ \/ Min({reasons[a] + more[a], MostCopies}) = reasons[a] + more[a]
                \/ Min({reasons[a] + more[a], MostCopies}) = MostCopies
  <2>1. reasons[a] + more[a] \in Int /\ MostCopies \in Int
    BY BoundsAreNumbers
  <2> QED  BY <2>1, MinOfTwo
<1> QED  BY <1>1 DEF Excuse

\* One reason for each of some actions.
LEMMA OnceIsCount ==
  ASSUME NEW some
  PROVE  Once(some) \in [Actions -> Nat] /\ \A a \in Actions : Once(some)[a] = IF a \in some THEN 1 ELSE 0
BY DEF Once

\* The types, with the state of a pass by its name.
LEMMA Types ==
  TypeOK <=>
    /\ stage \in [Actions -> {"new", "creating", "adding", "added"}]
    /\ rows \subseteq Actions
    /\ queue \in Seq(SyncAction)
    /\ tries \in [SyncAction -> Nat]
    /\ pass \in [Passes -> PassState]
    /\ \A snapshot \in loading : snapshot \in [load : Nat, rows : SUBSET Actions]
    /\ loads \in 0 .. 1 + MaxLoads + MaxKills /\ kills \in 0 .. MaxKills
    /\ served \subseteq Actions /\ given \subseteq Actions
    /\ reasons \in [Actions -> Int]
BY DEF TypeOK, PassState

\* What the steps of addToQueue keep.
LEMMA AddKeeps ==
  ASSUME QueueSound, NEW a \in Actions,
         SubmitCompletion(a) \/ AnswerItem(a) \/ CreateRow(a)
  PROVE  QueueSound'
<1>1. /\ UNCHANGED <<queue, tries, pass, loading, loads, kills, given>>
      /\ \/ stage' = [stage EXCEPT ![a] = "creating"] /\ stage[a] = "new"
         \/ stage' = [stage EXCEPT ![a] = "adding"] /\ stage[a] = "creating"
      /\ rows' \in {rows, rows \cup {a}} /\ served' \in {served, served \cup {a}}
  BY DEF SubmitCompletion, AnswerItem, CreateRow, CallAddToQueue, memory, bounds, history
<1>2. reasons' \in [Actions -> Int]
  <2>1. CASE UNCHANGED reasons
    BY <2>1 DEF QueueSound, TypeOK
  <2>2. CASE Excuse(Once({a}))
    BY <2>2, ExcuseFacts, OnceIsCount DEF QueueSound, TypeOK
  <2> QED  BY <2>1, <2>2 DEF SubmitCompletion, AnswerItem, CreateRow, CallAddToQueue, history
<1>3. TypeOK'
  BY <1>1, <1>2 DEF QueueSound, TypeOK
<1>4. \A object \in SyncAction : Unborn(object)' => Unborn(object)
  BY <1>1 DEF Unborn, QueueSound, TypeOK, SyncAction
<1>5. Untouched'
  BY <1>1, <1>4 DEF QueueSound, Untouched, Held
<1> QED  BY <1>1, <1>3, <1>5 DEF QueueSound, LoadsSound

\* What the append of addToQueue keeps: the object is new in the array.
LEMMA AppendKeeps == ASSUME QueueSound, NEW a \in Actions, AppendAction(a) PROVE QueueSound'
<1> DEFINE new == [id |-> a, load |-> 0]
<1>1. /\ UNCHANGED <<rows, tries, pass, loading, loads, kills, served, given, reasons>>
      /\ stage' = [stage EXCEPT ![a] = "added"] /\ stage[a] = "adding"
      /\ queue' = Append(queue, new)
  BY DEF AppendAction, bounds, history
<1>2. new \in SyncAction /\ new.id = a /\ new.load = 0
  BY BoundsAreNumbers DEF SyncAction
<1> HIDE DEF new
<1>3. new \notin ToSet(queue)
  BY <1>1, <1>2 DEF QueueSound, Untouched, Unborn
<1>4. queue' \in Seq(SyncAction) /\ ToSet(queue') = ToSet(queue) \cup {new} /\ IsInjective(queue')
  BY <1>1, <1>2, <1>3, ToSetAppend DEF QueueSound, TypeOK
<1>5. TypeOK'
  BY <1>1, <1>4 DEF QueueSound, TypeOK
<1>6. \A object \in SyncAction : Unborn(object)' => Unborn(object) /\ object # new
  BY <1>1, <1>2 DEF Unborn, QueueSound, TypeOK, SyncAction, LoadsSound
<1>7. Untouched'
  BY <1>1, <1>4, <1>6 DEF QueueSound, Untouched, Held
<1> QED  BY <1>1, <1>4, <1>5, <1>7 DEF QueueSound, LoadsSound

\* What every step of a pass keeps that moves objects only between its copy and the array.
LEMMA PassStepKeeps ==
  ASSUME QueueSound, NEW p \in Passes, NEW state,
         UNCHANGED <<stage, rows, loading, loads, kills>>,
         pass' = [pass EXCEPT ![p] = state], PassSound(state),
         ToSet(state.kept) \cup ToSet(state.todo) \subseteq Held(p),
         queue' \in Seq(SyncAction), IsInjective(queue'), ToSet(queue') \subseteq ToSet(queue) \cup Held(p),
         tries' \in [SyncAction -> Nat],
         \A object \in SyncAction : object \notin Held(p) => tries'[object] = tries[object],
         served' \subseteq Actions, given' \subseteq Actions, reasons' \in [Actions -> Int]
  PROVE  QueueSound'
<1>1. pass \in [Passes -> PassState] /\ state \in PassState
  BY Types DEF QueueSound, PassSound
<1>2. pass' \in [Passes -> PassState] /\ \A another \in Passes : pass'[another] = IF another = p THEN state ELSE pass[another]
  BY <1>1
<1>3. TypeOK'
  BY <1>2 DEF QueueSound, TypeOK, PassState
<1>4. \A object \in SyncAction : Unborn(object)' => Unborn(object)
  BY DEF Unborn
<1>5. \A another \in Passes : Held(another)' \subseteq Held(another)
  BY <1>2 DEF Held
<1>6. Untouched'
  BY <1>4, <1>5 DEF QueueSound, Untouched
<1> QED  BY <1>2, <1>3, <1>6 DEF QueueSound, LoadsSound

\* What the return of the app to the foreground starts: two passes over the whole array,
\* or one that has already logged all of it.
LEMMA ForegroundFacts ==
  ASSUME QueueSound, NEW p \in Passes, NEW q \in Passes, Foreground(p, q)
  PROVE  /\ p # q /\ pass[p].at = "idle" /\ pass[q].at = "idle" /\ queue # <<>>
         /\ UNCHANGED <<stage, rows, tries, loading, loads, kills, served, given>>
         /\ \E state :
              /\ PassSound(state) /\ ~state.reached /\ state.processed \subseteq Logged(queue)
              /\ \/ /\ pass' = [pass EXCEPT ![p] = state, ![q] = state] /\ queue' = queue
                    /\ state.at = "call" /\ state.kept = <<>>
                    /\ ToSet(state.todo) \subseteq ToSet(queue)
                    /\ \A object \in ToSet(queue) :
                          object \in ToSet(state.todo) \/ object.id \in state.processed
                 \/ /\ pass' = [pass EXCEPT ![p] = state, ![q] = IdlePass] /\ queue' = <<>>
                    /\ state.at = "cleanup" /\ state.kept = <<>> /\ state.todo = <<>>
<1> DEFINE first == RunLoop(<<>>, queue, {}, queue)
<1>1. /\ p < q /\ pass[p].at = "idle" /\ pass[q].at = "idle" /\ queue # <<>>
      /\ UNCHANGED <<stage, rows, tries, loading, loads, kills, served, given>>
      /\ pass' = [pass EXCEPT ![p] = first.pass,
                              ![q] = IF first.pass.at = "call" THEN first.pass ELSE IdlePass]
      /\ queue' = first.array
  BY DEF Foreground, Active, bounds
<1>2. p # q
  <2>1. p \in Nat /\ q \in Nat
    BY QueueAssumption
  <2> QED  BY <1>1, <2>1
<1>3. queue \in Seq(SyncAction) /\ IsInjective(queue) /\ <<>> \in Seq(SyncAction)
  BY NothingHeld DEF QueueSound, TypeOK
<1>4. /\ Logged(queue) \in SUBSET Actions
      /\ \/ StopsAt(first, <<>>, queue, {}, queue)
         \/ EndsAt(first, <<>>, queue, {}, queue)
         \/ IdlesAt(first, <<>>, queue, {}, queue)
  <2>1. {} \in SUBSET Actions
    OBVIOUS
  <2> QED  BY <1>3, <2>1, LoopFacts
<1> HIDE DEF first
<1>5. CASE StopsAt(first, <<>>, queue, {}, queue)
  <2>1. /\ first.pass.at = "call" /\ first.pass.kept = <<>> /\ ~first.pass.reached
        /\ first.pass.processed = Logged(queue) /\ queue' = queue
    BY <1>1, <1>5 DEF StopsAt
  <2>2. /\ first.pass.todo \in Seq(SyncAction) /\ first.pass.todo # <<>> /\ IsInjective(first.pass.todo)
        /\ ToSet(first.pass.todo) \subseteq ToSet(queue)
        /\ \A object \in ToSet(queue) : object \in ToSet(first.pass.todo) \/ object.id \in first.pass.processed
    BY <1>3, <1>5, <2>1 DEF StopsAt
  <2>3. first.pass \in PassState
    <3>1. \A todo \in Seq(SyncAction), done \in SUBSET Actions :
             [at |-> "call", kept |-> <<>>, todo |-> todo, reached |-> FALSE, processed |-> done] \in PassState
      BY <1>3 DEF PassState
    <3>2. first.pass = [at |-> "call", kept |-> <<>>, todo |-> first.pass.todo, reached |-> FALSE,
                        processed |-> {} \cup Logged(queue)]
      BY <1>5 DEF StopsAt
    <3>3. {} \cup Logged(queue) \in SUBSET Actions
      BY <1>4
    <3> QED  BY <2>2, <3>1, <3>2, <3>3, Zenon
  <2>4. PassSound(first.pass)
    BY <2>1, <2>2, <2>3, NothingHeld DEF PassSound
  <2>6. pass' = [pass EXCEPT ![p] = first.pass, ![q] = first.pass]
    BY <1>1, <2>1
  <2> QED  BY <1>1, <1>2, <2>1, <2>2, <2>4, <2>6
<1>6. CASE EndsAt(first, <<>>, queue, {}, queue)
  <2>1. /\ first.pass.at = "cleanup" /\ first.pass.kept = <<>> /\ first.pass.todo = <<>>
        /\ ~first.pass.reached /\ queue' = <<>>
        /\ first.pass.processed = Logged(queue)
    BY <1>1, <1>6 DEF EndsAt
  <2>2. first.pass \in PassState
    BY <1>3, <1>4, <1>6 DEF EndsAt, PassState
  <2>3. PassSound(first.pass)
    BY <2>1, <2>2, NothingHeld DEF PassSound
  <2>5. pass' = [pass EXCEPT ![p] = first.pass, ![q] = IdlePass]
    BY <1>1, <2>1
  <2> QED  BY <1>1, <1>2, <2>1, <2>3, <2>5
<1>7. CASE IdlesAt(first, <<>>, queue, {}, queue)
  BY <1>1, <1>7 DEF IdlesAt
<1> QED  BY <1>4, <1>5, <1>6, <1>7

\* The entries of the array that a pass has to send, and who else holds the action.
Entries(a) == {i \in DOMAIN queue : queue[i].id = a}
Others(a, started) == {another \in Passes : another \in started \/ (Active(another) /\ a \in Holds(another))}

\* The reasons a return to the foreground gives.
LEMMA ForegroundReasons ==
  ASSUME QueueSound, NEW p \in Passes, NEW q \in Passes, Foreground(p, q)
  PROVE  /\ reasons' \in [Actions -> Int]
         /\ \A a \in Actions :
              /\ Cardinality(Entries(a)) \in Nat
              /\ \/ reasons'[a] >= reasons[a]
                 \/ reasons'[a] = MostCopies
              /\ pass'[q].at = "call" =>
                    \/ reasons'[a] = reasons[a] + Cardinality(Entries(a)) * Cardinality(Others(a, {q}))
                    \/ reasons'[a] = MostCopies
<1> DEFINE twice == RunLoop(<<>>, queue, {}, queue).pass.at = "call"
           more == [a \in Actions |->
                  Cardinality({i \in DOMAIN queue : queue[i].id = a}) *
                  Cardinality({another \in Passes : \/ another = q /\ twice
                                                    \/ Active(another) /\ a \in Holds(another)})]
<1>1. Excuse(more)
  BY DEF Foreground
<1>2. pass'[q].at = "call" => twice
  <2>1. pass' = [pass EXCEPT ![p] = RunLoop(<<>>, queue, {}, queue).pass,
                             ![q] = IF twice THEN RunLoop(<<>>, queue, {}, queue).pass ELSE IdlePass]
    BY DEF Foreground
  <2>2. q \in DOMAIN pass
    BY DEF QueueSound, TypeOK
  <2> QED  BY <2>1, <2>2, NothingHeld
<1> HIDE DEF twice
<1>3. ASSUME NEW a \in Actions
      PROVE  /\ Cardinality(Entries(a)) \in Nat /\ more[a] \in Nat
             /\ twice => more[a] = Cardinality(Entries(a)) * Cardinality(Others(a, {q}))
  <2> DEFINE here == {another \in Passes : (another = q /\ twice) \/ (Active(another) /\ a \in Holds(another))}
  <2>1. DOMAIN queue = 1 .. Len(queue) /\ Len(queue) \in Nat
    BY DEF QueueSound, TypeOK
  <2>2. IsFiniteSet(DOMAIN queue) /\ IsFiniteSet(Passes)
    BY <2>1, FS_Interval, BoundsAreNumbers
  <2>3. Cardinality(Entries(a)) \in Nat /\ Cardinality(here) \in Nat
    <3>1. Entries(a) \subseteq DOMAIN queue /\ here \subseteq Passes
      BY DEF Entries
    <3> QED  BY <2>2, <3>1, FS_Subset, FS_CardinalityType
  <2>4. more[a] = Cardinality(Entries(a)) * Cardinality(here)
    BY DEF Entries
  <2>5. twice => here = Others(a, {q})
    BY DEF Others
  <2> HIDE DEF here, more
  <2> QED  BY <2>3, <2>4, <2>5
<1>4. more \in [Actions -> Nat]
  BY <1>3
<1> HIDE DEF more
<1>5. /\ reasons' \in [Actions -> Int]
      /\ \A a \in Actions : reasons'[a] = reasons[a] + more[a] \/ reasons'[a] = MostCopies
  BY <1>1, <1>4, ExcuseFacts DEF QueueSound, TypeOK
<1>6. \A a \in Actions : reasons[a] \in Int /\ more[a] \in Nat
  BY <1>4 DEF QueueSound, TypeOK
<1>7. \A a \in Actions : reasons'[a] >= reasons[a] \/ reasons'[a] = MostCopies
  BY <1>5, <1>6
<1>8. ASSUME NEW a \in Actions, pass'[q].at = "call"
      PROVE  \/ reasons'[a] = reasons[a] + Cardinality(Entries(a)) * Cardinality(Others(a, {q}))
             \/ reasons'[a] = MostCopies
  <2>1. more[a] = Cardinality(Entries(a)) * Cardinality(Others(a, {q}))
    BY <1>2, <1>3, <1>8
  <2>2. reasons'[a] = reasons[a] + more[a] \/ reasons'[a] = MostCopies
    BY <1>5
  <2> QED  BY <2>1, <2>2, Zenon
<1> QED  BY <1>3, <1>5, <1>7, <1>8

\* What the return to the foreground keeps.
LEMMA ForegroundKeepsQueue ==
  ASSUME QueueSound, NEW p \in Passes, NEW q \in Passes, Foreground(p, q) PROVE QueueSound'
<1>1. /\ p # q /\ UNCHANGED <<stage, rows, tries, loading, loads, kills, served, given>>
      /\ reasons' \in [Actions -> Int]
  BY ForegroundFacts, ForegroundReasons
<1>2. PICK one, two :
        /\ PassSound(one) /\ PassSound(two) /\ pass' = [pass EXCEPT ![p] = one, ![q] = two]
        /\ ToSet(one.kept) \cup ToSet(one.todo) \subseteq ToSet(queue)
        /\ ToSet(two.kept) \cup ToSet(two.todo) \subseteq ToSet(queue)
        /\ queue' \in {queue, <<>>}
  BY ForegroundFacts, NothingHeld
<1>3. pass \in [Passes -> PassState] /\ one \in PassState /\ two \in PassState
  BY <1>2, Types DEF QueueSound, PassSound
<1>4. /\ pass' \in [Passes -> PassState]
      /\ \A another \in Passes : pass'[another] = IF another = q THEN two ELSE IF another = p THEN one ELSE pass[another]
  BY <1>2, <1>3
<1>5. queue' \in Seq(SyncAction) /\ IsInjective(queue') /\ ToSet(queue') \subseteq ToSet(queue)
  BY <1>2, NothingHeld DEF QueueSound, TypeOK
<1>6. TypeOK'
  BY <1>1, <1>4, <1>5 DEF QueueSound, TypeOK, PassState
<1>7. \A object \in SyncAction : Unborn(object)' => Unborn(object)
  BY <1>1 DEF Unborn
<1>8. \A another \in Passes : Held(another)' \subseteq Held(another) \cup ToSet(queue)
  BY <1>2, <1>4 DEF Held
<1>9. Untouched'
  BY <1>1, <1>5, <1>7, <1>8 DEF QueueSound, Untouched
<1> QED  BY <1>1, <1>2, <1>4, <1>5, <1>6, <1>9 DEF QueueSound, LoadsSound

\* What a pass is about to send.
LEMMA AtCall ==
  ASSUME QueueSound, NEW p \in Passes, pass[p].at = "call"
  PROVE  /\ DOMAIN pass = Passes /\ PassSound(pass[p])
         /\ Head(pass[p].todo) \in SyncAction /\ Head(pass[p].todo).id \in Actions
         /\ pass[p].kept \in Seq(SyncAction) /\ pass[p].processed \subseteq Actions
         /\ pass[p].todo \in Seq(SyncAction) /\ Tail(pass[p].todo) \in Seq(SyncAction)
         /\ ToSet(pass[p].todo) = {Head(pass[p].todo)} \cup ToSet(Tail(pass[p].todo))
         /\ Head(pass[p].todo) \notin ToSet(Tail(pass[p].todo))
         /\ Head(pass[p].todo) \notin ToSet(pass[p].kept)
         /\ ToSet(pass[p].kept) \cap ToSet(Tail(pass[p].todo)) = {}
<1>1. /\ pass \in [Passes -> PassState] /\ PassSound(pass[p])
  BY Types DEF QueueSound
<1>2. /\ pass[p].todo \in Seq(SyncAction) /\ pass[p].todo # <<>> /\ IsInjective(pass[p].todo)
      /\ pass[p].kept \in Seq(SyncAction) /\ pass[p].processed \subseteq Actions
      /\ ToSet(pass[p].kept) \cap ToSet(pass[p].todo) = {}
  BY <1>1 DEF PassSound, PassState
<1>3. /\ Head(pass[p].todo) \in SyncAction /\ Tail(pass[p].todo) \in Seq(SyncAction)
      /\ ToSet(pass[p].todo) = {Head(pass[p].todo)} \cup ToSet(Tail(pass[p].todo))
      /\ Head(pass[p].todo) \notin ToSet(Tail(pass[p].todo))
  BY <1>2, ToSetTail
<1>4. Head(pass[p].todo).id \in Actions
  BY <1>3 DEF SyncAction
<1> QED  BY <1>1, <1>2, <1>3, <1>4

\* The state of a pass after its request, and what the array can hold then.
LEMMA ResumeKeepsQueue ==
  ASSUME QueueSound, NEW p \in Passes, pass[p].at = "call",
         NEW kept, NEW processed \in SUBSET Actions,
         \/ kept = pass[p].kept
         \/ kept = Append(pass[p].kept, Head(pass[p].todo)),
         Resume(p, kept, processed),
         UNCHANGED <<stage, rows, loading, loads, kills>>,
         tries' \in [SyncAction -> Nat],
         \A object \in SyncAction : object \notin Held(p) => tries'[object] = tries[object],
         served' \subseteq Actions, given' \subseteq Actions, reasons' \in [Actions -> Int]
  PROVE  QueueSound'
<1> DEFINE h == Head(pass[p].todo)
           rest == Tail(pass[p].todo)
<1>1. /\ DOMAIN pass = Passes /\ PassSound(pass[p])
      /\ h \in SyncAction /\ pass[p].kept \in Seq(SyncAction)
      /\ ToSet(pass[p].todo) = {h} \cup ToSet(rest)
      /\ h \notin ToSet(pass[p].kept) /\ IsInjective(pass[p].kept)
  BY AtCall DEF PassSound
<1>2. kept \in Seq(SyncAction) /\ IsInjective(kept) /\ ToSet(kept) \subseteq Held(p)
  <2>1. CASE kept = pass[p].kept
    BY <1>1, <2>1 DEF Held
  <2>2. CASE kept = Append(pass[p].kept, h)
    <3>1. /\ kept \in Seq(SyncAction) /\ ToSet(kept) = ToSet(pass[p].kept) \cup {h}
          /\ (IsInjective(pass[p].kept) /\ h \notin ToSet(pass[p].kept) => IsInjective(kept))
      BY <1>1, <2>2, ToSetAppend
    <3> QED  BY <1>1, <3>1 DEF Held
  <2> QED  BY <2>1, <2>2
<1>3. PICK state :
        /\ pass' = [pass EXCEPT ![p] = state] /\ PassSound(state)
        /\ \/ /\ queue' = queue /\ state.kept = kept /\ ToSet(state.todo) \subseteq ToSet(rest)
           \/ queue' = kept /\ state.kept = kept /\ state.todo = <<>>
           \/ queue' = queue /\ state = IdlePass
  <2>1. PICK state : Resumed(p, kept, processed, state)
    BY <1>1, ResumeFacts
  <2> QED  BY <2>1 DEF Resumed
<1>4. /\ ToSet(state.kept) \cup ToSet(state.todo) \subseteq Held(p)
      /\ queue' \in Seq(SyncAction) /\ IsInjective(queue') /\ ToSet(queue') \subseteq ToSet(queue) \cup Held(p)
  BY <1>1, <1>2, <1>3, NothingHeld DEF QueueSound, TypeOK, Held
<1> QED  BY <1>3, <1>4, PassStepKeeps

\* A request that succeeded: the action leaves the pass's copy.
LEMMA SucceedsFacts ==
  ASSUME QueueSound, NEW p \in Passes, RequestSucceeds(p)
  PROVE  /\ pass[p].at = "call" /\ pass[p].reached
         /\ Resume(p, pass[p].kept, pass[p].processed \cup {Head(pass[p].todo).id})
         /\ pass[p].processed \cup {Head(pass[p].todo).id} \in SUBSET Actions
         /\ UNCHANGED <<stage, rows, tries, loading, loads, kills, served, given, reasons>>
<1>1. /\ pass[p].at = "call" /\ pass[p].reached
      /\ Resume(p, pass[p].kept, pass[p].processed \cup {Head(pass[p].todo).id})
      /\ UNCHANGED <<stage, rows, tries, loading, loads, kills, served, given, reasons>>
  BY DEF RequestSucceeds, SucceedsKeeping, bounds
<1> QED  BY <1>1, AtCall

\* A request that failed: the action is given up at the limit, and else stays in the copy.
LEMMA FailsFacts ==
  ASSUME QueueSound, NEW p \in Passes, RequestFails(p)
  PROVE  /\ pass[p].at = "call"
         /\ tries' = [tries EXCEPT ![Head(pass[p].todo)] = tries[Head(pass[p].todo)] + 1]
         /\ tries' \in [SyncAction -> Nat]
         /\ \/ /\ tries[Head(pass[p].todo)] + 1 >= MaxTries
               /\ Resume(p, pass[p].kept, pass[p].processed \cup {Head(pass[p].todo).id})
               /\ pass[p].processed \cup {Head(pass[p].todo).id} \in SUBSET Actions
               /\ given' = given \cup {Head(pass[p].todo).id}
            \/ /\ tries[Head(pass[p].todo)] + 1 < MaxTries
               /\ Resume(p, Append(pass[p].kept, Head(pass[p].todo)), pass[p].processed)
               /\ pass[p].processed \in SUBSET Actions
               /\ given' = given
         /\ given' \subseteq Actions
         /\ UNCHANGED <<stage, rows, loading, loads, kills, served>>
         /\ reasons' \in [Actions -> Int]
         /\ \A a \in Actions :
               \/ reasons'[a] = reasons[a] + (IF pass[p].reached /\ a = Head(pass[p].todo).id THEN 1 ELSE 0)
               \/ reasons'[a] = MostCopies
<1> DEFINE h == Head(pass[p].todo)
           lost == IF pass[p].reached THEN {h.id} ELSE {}
<1>1. /\ pass[p].at = "call"
      /\ tries' = [tries EXCEPT ![h] = tries[h] + 1]
      /\ \/ /\ tries[h] + 1 >= MaxTries
            /\ Resume(p, pass[p].kept, pass[p].processed \cup {h.id})
            /\ given' = given \cup {h.id}
         \/ /\ ~(tries[h] + 1 >= MaxTries)
            /\ Resume(p, Append(pass[p].kept, h), pass[p].processed)
            /\ given' = given
      /\ Excuse(Once(lost))
      /\ UNCHANGED <<stage, rows, loading, loads, kills, served>>
  BY DEF RequestFails, FailsWithLimit, bounds
<1>2. h \in SyncAction /\ h.id \in Actions /\ pass[p].processed \subseteq Actions
  BY <1>1, AtCall
<1>3. tries \in [SyncAction -> Nat] /\ reasons \in [Actions -> Int]
  BY DEF QueueSound, TypeOK
<1>4. /\ reasons' \in [Actions -> Int]
      /\ \A a \in Actions : reasons'[a] = reasons[a] + Once(lost)[a] \/ reasons'[a] = MostCopies
  BY <1>1, <1>3, OnceIsCount, ExcuseFacts
<1>5. \A a \in Actions : Once(lost)[a] = IF pass[p].reached /\ a = h.id THEN 1 ELSE 0
  BY OnceIsCount
<1> HIDE DEF h, lost
<1>6. tries' \in [SyncAction -> Nat]
  BY <1>1, <1>2, <1>3
<1>7. /\ pass[p].processed \cup {h.id} \in SUBSET Actions /\ pass[p].processed \in SUBSET Actions
      /\ tries[h] \in Nat /\ MaxTries \in Nat
  BY <1>2, <1>3 DEF MaxTries
<1>8. \/ /\ tries[h] + 1 >= MaxTries
         /\ Resume(p, pass[p].kept, pass[p].processed \cup {h.id})
         /\ given' = given \cup {h.id}
      \/ /\ tries[h] + 1 < MaxTries
         /\ Resume(p, Append(pass[p].kept, h), pass[p].processed)
         /\ given' = given
  BY <1>1, <1>7
<1>9. given' \subseteq Actions
  BY <1>2, <1>8 DEF QueueSound, TypeOK
<1> QED  BY <1>1, <1>4, <1>5, <1>6, <1>7, <1>8, <1>9 DEF h

\* What the steps of a pass keep.
LEMMA PassKeeps == ASSUME QueueSound, NEW p \in Passes, PassStep(p) PROVE QueueSound'
<1> USE DEF QueueSound
<1>1. /\ pass \in [Passes -> PassState] /\ PassSound(pass[p]) /\ queue \in Seq(SyncAction) /\ IsInjective(queue)
      /\ tries \in [SyncAction -> Nat] /\ served \subseteq Actions /\ given \subseteq Actions
      /\ reasons \in [Actions -> Int]
  BY Types
<1>2. CASE ServerExecutes(p)
  <2> DEFINE state == [pass[p] EXCEPT !.reached = TRUE]
             a == Head(pass[p].todo).id
  <2>1. /\ pass[p].at = "call" /\ pass' = [pass EXCEPT ![p] = state]
        /\ UNCHANGED <<stage, rows, queue, tries, loading, loads, kills, given>>
        /\ served' = served \cup {a}
        /\ reasons' = [reasons EXCEPT ![a] = IF a \in served THEN @ - 1 ELSE @]
    BY <1>1, <1>2 DEF ServerExecutes, bounds
  <2>2. a \in Actions
    BY <2>1, AtCall
  <2>3. served' \subseteq Actions /\ reasons' \in [Actions -> Int]
    BY <1>1, <2>1, <2>2
  <2>4. /\ state.at = pass[p].at /\ state.kept = pass[p].kept /\ state.todo = pass[p].todo /\ state \in PassState
    BY <1>1 DEF PassState
  <2> HIDE DEF state
  <2>5. PassSound(state) /\ ToSet(state.kept) \cup ToSet(state.todo) \subseteq Held(p)
    BY <1>1, <2>4 DEF PassSound, Held
  <2> QED  BY <1>1, <2>1, <2>3, <2>5, PassStepKeeps
<1>3. CASE RequestSucceeds(p)
  BY <1>1, <1>3, SucceedsFacts, ResumeKeepsQueue
<1>4. CASE RequestFails(p)
  <2>1. \A object \in SyncAction : object \notin Held(p) => tries'[object] = tries[object]
    BY <1>1, <1>4, FailsFacts, AtCall DEF Held
  <2> QED  BY <1>1, <1>4, <2>1, FailsFacts, ResumeKeepsQueue
<1>5. CASE Cleanup(p)
  <2>1. /\ pass' = [pass EXCEPT ![p] = IdlePass] /\ rows' \subseteq rows
        /\ UNCHANGED <<stage, queue, tries, loading, loads, kills, served, given, reasons>>
    BY <1>5 DEF Cleanup, CleanupRows, bounds, history
  <2>2. /\ IdlePass \in PassState /\ pass' \in [Passes -> PassState]
        /\ \A another \in Passes : pass'[another] = IF another = p THEN IdlePass ELSE pass[another]
    BY <1>1, <2>1, NothingHeld DEF PassSound
  <2>3. TypeOK'
    BY <2>1, <2>2 DEF TypeOK, PassState
  <2>4. Untouched'
    BY <2>1, <2>2, NothingHeld DEF Untouched, Unborn, Held
  <2> QED  BY <2>1, <2>2, <2>3, <2>4, NothingHeld DEF LoadsSound
<1> QED  BY <1>2, <1>3, <1>4, <1>5 DEF PassStep

\* A set of actions in their order, as an array without duplicates.
LEMMA InOrderFacts ==
  ASSUME NEW some, some \subseteq Actions, NEW order \in InOrder(some)
  PROVE  /\ Cardinality(some) \in Nat /\ order \in [1 .. Cardinality(some) -> some]
         /\ \A i, j \in 1 .. Cardinality(some) : order[i] = order[j] => i = j
<1>1. Cardinality(some) \in Nat
  BY BoundsAreNumbers, FS_Subset, FS_CardinalityType
<1>2. /\ order \in [1 .. Cardinality(some) -> some]
      /\ \A i, j \in 1 .. Cardinality(some) : i < j => order[i] < order[j]
  BY DEF InOrder
<1>3. some \subseteq Int
  BY BoundsAreNumbers
<1>4. ASSUME NEW i \in 1 .. Cardinality(some), NEW j \in 1 .. Cardinality(some), order[i] = order[j] PROVE i = j
  <2>1. order[i] \in Int /\ order[j] \in Int
    BY <1>2, <1>3
  <2>2. ~(order[i] < order[j]) /\ ~(order[j] < order[i])
    BY <1>4, <2>1
  <2>3. ~(i < j) /\ ~(j < i)
    BY <1>2, <2>2
  <2> QED  BY <1>1, <2>3
<1> QED  BY <1>1, <1>2, <1>4

\* The array after a load: new objects, one for each row.
LEMMA StoreFacts ==
  ASSUME QueueSound, NEW snapshot \in loading, StoreQueue(snapshot)
  PROVE  /\ queue' \in Seq(SyncAction) /\ IsInjective(queue')
         /\ \A object \in ToSet(queue') : object.load = snapshot.load /\ object.id \in snapshot.rows
         /\ \A object \in ToSet(queue') : object = [id |-> object.id, load |-> snapshot.load]
         /\ snapshot.load \in Nat /\ snapshot.load >= 1 /\ snapshot.load <= loads /\ snapshot.rows \subseteq Actions
<1>1. /\ snapshot.load \in Nat /\ snapshot.load >= 1 /\ snapshot.load <= loads /\ snapshot.rows \subseteq Actions
      /\ loads \in Nat /\ loads <= 1 + MaxLoads + MaxKills
  BY BoundsAreNumbers DEF QueueSound, TypeOK, LoadsSound
<1>2. PICK order \in InOrder(snapshot.rows) :
         queue' = [i \in DOMAIN order |-> [id |-> order[i], load |-> snapshot.load]]
  BY DEF StoreQueue
<1> DEFINE n == Cardinality(snapshot.rows)
<1>3. /\ n \in Nat /\ order \in [1 .. n -> snapshot.rows]
      /\ \A i, j \in 1 .. n : order[i] = order[j] => i = j
  BY <1>1, InOrderFacts
<1> HIDE DEF n
<1>4. snapshot.load \in 0 .. 1 + MaxLoads + MaxKills
  BY <1>1, BoundsAreNumbers
<1>5. \A i \in 1 .. n : [id |-> order[i], load |-> snapshot.load] \in SyncAction
  BY <1>1, <1>3, <1>4 DEF SyncAction
<1>6. queue' = [i \in 1 .. n |-> [id |-> order[i], load |-> snapshot.load]]
  BY <1>2, <1>3
<1>7. queue' \in Seq(SyncAction)
  BY <1>3, <1>5, <1>6
<1>8. DOMAIN queue' = 1 .. n /\ \A i \in 1 .. n : queue'[i] = [id |-> order[i], load |-> snapshot.load]
  BY <1>6
<1>9. IsInjective(queue')
  BY <1>3, <1>8 DEF IsInjective
<1>10. ASSUME NEW object \in ToSet(queue')
       PROVE  /\ object.load = snapshot.load /\ object.id \in snapshot.rows
              /\ object = [id |-> object.id, load |-> snapshot.load]
  <2>1. PICK i \in 1 .. n : object = queue'[i]
    BY <1>8 DEF ToSet
  <2> QED  BY <1>3, <1>8, <2>1
<1> QED  BY <1>1, <1>7, <1>9, <1>10

\* What the end of a load keeps.
LEMMA StoreKeeps == ASSUME QueueSound, NEW snapshot \in loading, StoreQueue(snapshot) PROVE QueueSound'
<1>1. /\ queue' \in Seq(SyncAction) /\ IsInjective(queue')
      /\ \A object \in ToSet(queue') : object.load = snapshot.load
      /\ snapshot.load \in Nat /\ snapshot.load >= 1 /\ snapshot.load <= loads
  BY StoreFacts
<1>2. /\ loading' = loading \ {snapshot}
      /\ UNCHANGED <<stage, rows, tries, pass, loads, kills, served, given>>
  BY DEF StoreQueue, bounds
<1>3. reasons' \in [Actions -> Int]
  BY ExcuseFacts, OnceIsCount DEF StoreQueue, QueueSound, TypeOK
<1>4. TypeOK'
  BY <1>1, <1>2, <1>3 DEF QueueSound, TypeOK
<1>5. loads \in Nat
  BY BoundsAreNumbers DEF QueueSound, TypeOK
<1>6. \A object \in SyncAction : Unborn(object)' => Unborn(object) /\ object.load # snapshot.load
  BY <1>1, <1>2, <1>5 DEF Unborn, QueueSound, LoadsSound
<1>7. Untouched'
  BY <1>1, <1>2, <1>6 DEF QueueSound, Untouched, Held
<1> QED  BY <1>1, <1>2, <1>4, <1>7 DEF QueueSound, LoadsSound

\* What the start of a load keeps.
LEMMA FetchKeeps == ASSUME QueueSound, FetchRows PROVE QueueSound'
<1>1. /\ loads < 1 + MaxLoads + kills /\ loads' = loads + 1
      /\ loading' = loading \cup {[load |-> loads + 1, rows |-> rows]}
      /\ UNCHANGED <<stage, rows, queue, tries, pass, kills, served, given, reasons>>
  BY DEF FetchRows, memory, history
<1>2. loads \in Nat /\ kills \in Nat /\ kills <= MaxKills /\ MaxLoads \in Nat /\ MaxKills \in Nat
  BY BoundsAreNumbers DEF QueueSound, TypeOK
<1>3. loads' \in 0 .. 1 + MaxLoads + MaxKills
  BY <1>1, <1>2
<1>4. \A another \in loading' : another \in loading \/ (another.load = loads + 1 /\ another.rows = rows /\ another = [load |-> loads + 1, rows |-> rows])
  BY <1>1
<1>5. TypeOK'
  BY <1>1, <1>2, <1>3, <1>4 DEF QueueSound, TypeOK
<1>6. \A another \in loading : another.load \in Nat /\ another.load <= loads /\ another.load >= 1
  BY DEF QueueSound, TypeOK, LoadsSound
<1>7. LoadsSound'
  BY <1>1, <1>2, <1>4, <1>6 DEF QueueSound, LoadsSound
<1>8. \A object \in SyncAction : object.load \in Int
  BY BoundsAreNumbers DEF SyncAction
<1>9. \A object \in SyncAction : Unborn(object)' => Unborn(object)
  BY <1>1, <1>2, <1>4, <1>8 DEF Unborn
<1>10. Untouched'
  BY <1>1, <1>9 DEF QueueSound, Untouched, Held
<1> QED  BY <1>1, <1>5, <1>7, <1>10 DEF QueueSound

\* What a death of the app keeps.
LEMMA RestartKeeps == ASSUME QueueSound, Restart PROVE QueueSound'
<1>1. /\ kills < MaxKills /\ kills' = kills + 1 /\ loads' = loads + 1
      /\ stage' = [a \in Actions |-> IF stage[a] = "new" THEN "new" ELSE "added"]
      /\ queue' = <<>> /\ tries' = [object \in SyncAction |-> 0]
      /\ pass' = [p \in Passes |-> IdlePass]
      /\ loading' = {[load |-> loads + 1, rows |-> rows]}
      /\ UNCHANGED <<rows, served, given, reasons>>
  BY DEF Restart, history
<1>2. /\ loads \in Nat /\ kills \in Nat /\ kills <= MaxKills /\ MaxLoads \in Nat /\ MaxKills \in Nat
      /\ loads >= 1 /\ loads <= 1 + MaxLoads + kills
  BY BoundsAreNumbers DEF QueueSound, TypeOK, LoadsSound
<1>3. /\ loads' \in 0 .. 1 + MaxLoads + MaxKills /\ kills' \in 0 .. MaxKills
      /\ loads' >= 1 /\ loads' <= 1 + MaxLoads + kills' /\ loads + 1 \in Nat
  BY <1>1, <1>2
<1>4. /\ pass' \in [Passes -> PassState] /\ \A p \in Passes : pass'[p] = IdlePass
  BY <1>1, NothingHeld DEF PassSound
<1>5. TypeOK'
  <2>1. \A snapshot \in loading' : snapshot \in [load : Nat, rows : SUBSET Actions]
    BY <1>1, <1>3 DEF QueueSound, TypeOK
  <2>2. stage' \in [Actions -> {"new", "creating", "adding", "added"}] /\ tries' \in [SyncAction -> Nat]
    BY <1>1
  <2> QED  BY <1>1, <1>3, <1>4, <2>1, <2>2, NothingHeld DEF QueueSound, TypeOK, PassState
<1>6. LoadsSound'
  BY <1>1, <1>3 DEF LoadsSound
<1>7. Untouched'
  BY <1>1, <1>4, NothingHeld DEF Untouched, Held
<1> QED  BY <1>1, <1>4, <1>5, <1>6, <1>7, NothingHeld DEF QueueSound

\* Every step keeps the arrays, the passes and the loads sound.
LEMMA QueueKeeps == ASSUME QueueSound, [Next]_vars PROVE QueueSound'
<1>1. ASSUME NEW a \in Actions, SubmitCompletion(a) \/ AnswerItem(a) \/ CreateRow(a) \/ AppendAction(a)
      PROVE  QueueSound'
  BY <1>1, AddKeeps, AppendKeeps
<1>2. CASE UNCHANGED vars
  BY <1>2 DEF vars, QueueSound, TypeOK, LoadsSound, Untouched, Unborn, Held
<1> QED
  BY <1>1, <1>2, ForegroundKeepsQueue, PassKeeps, FetchKeeps, StoreKeeps, RestartKeeps DEF Next

\* The arrays, the passes and the loads are sound at the start.
LEMMA QueueInit == Init => QueueSound
<1> SUFFICES ASSUME Init PROVE QueueSound
  OBVIOUS
<1>1. /\ MaxLoads \in Nat /\ MaxKills \in Nat
  BY BoundsAreNumbers
<1>2. pass \in [Passes -> PassState] /\ \A p \in Passes : pass[p] = IdlePass
  BY NothingHeld DEF Init, PassSound
<1>3. TypeOK
  BY <1>1, <1>2, NothingHeld DEF Init, TypeOK, PassState
<1>4. LoadsSound
  BY <1>1 DEF Init, LoadsSound
<1>5. Untouched
  BY <1>2, NothingHeld DEF Init, Untouched, Held
<1> QED  BY <1>2, <1>3, <1>4, <1>5, NothingHeld DEF Init, QueueSound

\* The array and the copies of the passes hold no object twice, a pass waits for an answer
\* exactly while its copy has actions left, and an object nobody has made yet is nowhere.
THEOREM QueueIsSound == Spec => []QueueSound
<1>1. QueueSound /\ [Next]_vars => QueueSound'
  BY QueueKeeps
<1> QED  BY QueueInit, <1>1, PTL DEF Spec

\* Every variable of the action queue keeps its type, for any number of actions, passes,
\* loads and kills.
THEOREM QueueTypeCorrect == Spec => []TypeOK
<1>1. QueueSound => TypeOK
  BY DEF QueueSound
<1> QED  BY QueueIsSound, <1>1, PTL

-----------------------------------------------------------------------------
(* The rows of the completions                                             *)

\* What a pass has in processedIds of the completions was sent or given up, and a request
\* that reached the server was executed.
ProcessedSettled ==
    \A p \in Passes :
        /\ pass[p].reached => Head(pass[p].todo).id \in served
        /\ \A a \in pass[p].processed : Kind[a] = "complete" => a \in served \cup given

\* The loop logs checklist actions only.
LEMMA LoggedAreChecklists ==
  ASSUME NEW s \in Seq(SyncAction), NEW a \in Logged(s) PROVE Kind[a] = "checklist"
<1> DEFINE places == {i \in 1 .. Len(s) : Kind[s[i].id] # "checklist"}
           calls == FirstRequest(s)
<1>1. calls = IF places # {} THEN Min(places) ELSE 0
  BY DEF FirstRequest, SelectInSeq
<1>2. places \subseteq Nat /\ places \subseteq 1 .. Len(s)
  OBVIOUS
<1>3. \A i \in 1 .. Len(s) : Kind[s[i].id] = "checklist" \/ i \in places
  OBVIOUS
<1>4. DOMAIN s = 1 .. Len(s) /\ Len(s) \in Nat
  OBVIOUS
<1>5. CASE calls = 0
  <2>1. places = {}
    <3>1. places # {} => calls \in places
      BY <1>1, <1>2, MinExists
    <3>2. 0 \notin places
      BY <1>2
    <3> QED  BY <1>5, <3>1, <3>2
  <2>2. PICK i \in 1 .. Len(s) : a = s[i].id
    BY <1>4, <1>5 DEF Logged, Ids, ToSet
  <2> QED  BY <1>3, <2>1, <2>2
<1>6. CASE calls # 0
  <2>1. calls \in places /\ \A i \in places : calls <= i
    BY <1>1, <1>2, <1>6, MinExists
  <2>2. calls \in 1 .. Len(s)
    BY <1>2, <2>1
  <2>3. /\ DOMAIN SubSeq(s, 1, calls - 1) = 1 .. calls - 1
        /\ \A i \in 1 .. calls - 1 : SubSeq(s, 1, calls - 1)[i] = s[i]
    BY <2>2
  <2>4. PICK i \in 1 .. calls - 1 : a = s[i].id
    BY <1>6, <2>3 DEF Logged, Ids, ToSet
  <2>5. i \in 1 .. Len(s) /\ i \notin places
    <3>1. ~(calls <= i) /\ i \in 1 .. Len(s)
      BY <2>2, <2>4
    <3> QED  BY <2>1, <3>1
  <2> QED  BY <1>3, <2>4, <2>5
<1> QED  BY <1>5, <1>6

\* A pass that resumes after its request settles what it takes out of its copy.
LEMMA ResumeSettles ==
  ASSUME QueueSound, ProcessedSettled, NEW p \in Passes, pass[p].at = "call",
         NEW kept, NEW processed \in SUBSET Actions,
         \/ kept = pass[p].kept
         \/ kept = Append(pass[p].kept, Head(pass[p].todo)),
         Resume(p, kept, processed),
         served \subseteq served', given \subseteq given',
         \A a \in processed : a \in pass[p].processed \/ a \in served' \cup given'
  PROVE  ProcessedSettled'
<1>1. DOMAIN pass = Passes /\ PassSound(pass[p]) /\ Tail(pass[p].todo) \in Seq(SyncAction)
  BY AtCall
<1>2. PICK state : Resumed(p, kept, processed, state)
  BY <1>1, ResumeFacts
<1>3. /\ pass' = [pass EXCEPT ![p] = state] /\ ~state.reached
      /\ \A a \in state.processed : a \in processed \/ a \in Logged(Tail(pass[p].todo))
  BY <1>2 DEF Resumed
<1>4. \A another \in Passes : pass'[another] = IF another = p THEN state ELSE pass[another]
  BY <1>1, <1>3
<1>5. ASSUME NEW a \in state.processed, Kind[a] = "complete" PROVE a \in served' \cup given'
  <2>1. a \notin Logged(Tail(pass[p].todo))
    BY <1>1, <1>5, LoggedAreChecklists
  <2>2. a \in processed
    BY <1>3, <2>1
  <2> QED  BY <1>5, <2>2 DEF ProcessedSettled
<1>6. ASSUME NEW another \in Passes, another # p
      PROVE  /\ pass'[another].reached => Head(pass'[another].todo).id \in served'
             /\ \A a \in pass'[another].processed : Kind[a] = "complete" => a \in served' \cup given'
  <2>1. pass'[another] = pass[another]
    BY <1>4, <1>6
  <2> QED  BY <2>1 DEF ProcessedSettled
<1> QED  BY <1>3, <1>4, <1>5, <1>6 DEF ProcessedSettled

\* Every step keeps processedIds settled.
LEMMA SettledKeeps == ASSUME QueueSound, ProcessedSettled, [Next]_vars PROVE ProcessedSettled'
<1>1. ASSUME UNCHANGED pass, served \subseteq served', given \subseteq given' PROVE ProcessedSettled'
  BY <1>1 DEF ProcessedSettled
<1>2. DOMAIN pass = Passes /\ pass \in [Passes -> PassState]
  BY Types DEF QueueSound
<1>3. ~IdlePass.reached /\ IdlePass.processed = {}
  BY DEF IdlePass
<1>4. ASSUME NEW a \in Actions, SubmitCompletion(a) \/ AnswerItem(a) \/ CreateRow(a) \/ AppendAction(a)
      PROVE  ProcessedSettled'
  BY <1>1, <1>4 DEF SubmitCompletion, AnswerItem, CallAddToQueue, CreateRow, AppendAction, memory, history
<1>5. ASSUME NEW p \in Passes, NEW q \in Passes, Foreground(p, q) PROVE ProcessedSettled'
  <2>1. PICK one, two :
          /\ pass' = [pass EXCEPT ![p] = one, ![q] = two] /\ ~one.reached /\ ~two.reached
          /\ one.processed \subseteq Logged(queue) /\ two.processed \subseteq Logged(queue)
    BY <1>3, <1>5, ForegroundFacts
  <2>2. UNCHANGED <<served, given>> /\ queue \in Seq(SyncAction)
    BY <1>5, ForegroundFacts DEF QueueSound, TypeOK
  <2>3. \A a \in Logged(queue) : Kind[a] # "complete"
    BY <2>2, LoggedAreChecklists
  <2>4. ASSUME NEW r \in Passes
        PROVE  /\ pass'[r].reached => Head(pass'[r].todo).id \in served'
               /\ \A a \in pass'[r].processed : Kind[a] = "complete" => a \in served' \cup given'
    <3>1. CASE r \notin {p, q}
      <4>1. pass'[r] = pass[r]
        BY <1>2, <2>1, <3>1
      <4> QED  BY <2>2, <4>1 DEF ProcessedSettled
    <3>2. CASE r \in {p, q}
      <4>1. pass'[r] = one \/ pass'[r] = two
        BY <1>2, <2>1, <3>2
      <4>2. ~pass'[r].reached /\ \A a \in pass'[r].processed : a \in Logged(queue)
        BY <2>1, <4>1
      <4> QED  BY <2>3, <4>2
    <3> QED  BY <3>1, <3>2
  <2> QED  BY <2>4 DEF ProcessedSettled
<1>6. ASSUME NEW p \in Passes, PassStep(p) PROVE ProcessedSettled'
  <2>1. CASE ServerExecutes(p)
    <3>1. /\ pass' = [pass EXCEPT ![p].reached = TRUE] /\ given' = given
          /\ served' = served \cup {Head(pass[p].todo).id}
      BY <2>1 DEF ServerExecutes
    <3>2. ASSUME NEW q \in Passes
          PROVE  /\ pass'[q].todo = pass[q].todo /\ pass'[q].processed = pass[q].processed
                 /\ pass'[q].reached => pass[q].reached \/ q = p
      BY <1>2, <3>1 DEF PassState
    <3> QED  BY <3>1, <3>2 DEF ProcessedSettled
  <2>2. CASE RequestSucceeds(p)
    <3> DEFINE processed == pass[p].processed \cup {Head(pass[p].todo).id}
    <3>1. /\ pass[p].at = "call" /\ pass[p].reached /\ Resume(p, pass[p].kept, processed)
          /\ processed \in SUBSET Actions /\ UNCHANGED <<served, given>>
      BY <2>2, SucceedsFacts
    <3>2. Head(pass[p].todo).id \in served'
      BY <3>1 DEF ProcessedSettled
    <3>3. \A a \in processed : a \in pass[p].processed \/ a \in served' \cup given'
      BY <3>2
    <3> HIDE DEF processed
    <3> QED  BY <3>1, <3>3, ResumeSettles
  <2>3. CASE RequestFails(p)
    <3>1. CASE /\ Resume(p, pass[p].kept, pass[p].processed \cup {Head(pass[p].todo).id})
               /\ pass[p].processed \cup {Head(pass[p].todo).id} \in SUBSET Actions
               /\ given' = given \cup {Head(pass[p].todo).id}
      <4> DEFINE processed == pass[p].processed \cup {Head(pass[p].todo).id}
      <4>1. pass[p].at = "call" /\ served' = served
        BY <2>3, FailsFacts
      <4>2. \A a \in processed : a \in pass[p].processed \/ a \in served' \cup given'
        BY <3>1
      <4>3. Resume(p, pass[p].kept, processed) /\ processed \in SUBSET Actions /\ given \subseteq given'
        BY <3>1
      <4> HIDE DEF processed
      <4> QED  BY <4>1, <4>2, <4>3, ResumeSettles
    <3>2. CASE /\ Resume(p, Append(pass[p].kept, Head(pass[p].todo)), pass[p].processed)
               /\ pass[p].processed \in SUBSET Actions
               /\ given' = given
      BY <2>3, <3>2, FailsFacts, ResumeSettles
    <3> QED  BY <2>3, <3>1, <3>2, FailsFacts
  <2>4. CASE Cleanup(p)
    <3>1. pass' = [pass EXCEPT ![p] = IdlePass] /\ UNCHANGED <<served, given>>
      BY <2>4 DEF Cleanup, CleanupRows, history
    <3>2. \A q \in Passes : pass'[q] = IdlePass \/ pass'[q] = pass[q]
      BY <1>2, <3>1
    <3> QED  BY <1>3, <3>1, <3>2 DEF ProcessedSettled
  <2> QED  BY <1>6, <2>1, <2>2, <2>3, <2>4 DEF PassStep
<1>7. CASE FetchRows
  BY <1>1, <1>7 DEF FetchRows, memory, history
<1>8. ASSUME NEW snapshot \in loading, StoreQueue(snapshot) PROVE ProcessedSettled'
  BY <1>1, <1>8 DEF StoreQueue
<1>9. CASE Restart
  <2>1. pass' = [p \in Passes |-> IdlePass]
    BY <1>9 DEF Restart
  <2> QED  BY <1>3, <2>1 DEF ProcessedSettled
<1>10. CASE UNCHANGED vars
  BY <1>1, <1>10 DEF vars
<1> QED  BY <1>4, <1>5, <1>6, <1>7, <1>8, <1>9, <1>10 DEF Next

\* A step that takes the row of a completion away takes that of one sent or given up.
LEMMA RowsKeep ==
  ASSUME ProcessedSettled, [Next]_vars, NEW a \in Actions, Left(a), Kind[a] = "complete"
  PROVE  a \in served \cup given
<1>1. PICK p \in Passes : Cleanup(p)
  BY DEF Left, Next, vars, SubmitCompletion, AnswerItem, CallAddToQueue, CreateRow, AppendAction, Foreground,
         PassStep, ServerExecutes, RequestSucceeds, SucceedsKeeping, RequestFails, FailsWithLimit,
         FetchRows, StoreQueue, Restart
<1>2. rows' = rows \/ rows' = rows \ pass[p].processed
  BY <1>1 DEF Cleanup, CleanupRows
<1> QED  BY <1>2 DEF ProcessedSettled, Left

\* Of the completions, processedIds holds only those sent or given up, and a request that
\* reached the server is among those it executed, in every reachable state.
THEOREM ProcessedIsSettled == Spec => []ProcessedSettled
<1>1. Init => ProcessedSettled
  BY DEF Init, ProcessedSettled, IdlePass
<1>2. QueueSound /\ ProcessedSettled /\ [Next]_vars => ProcessedSettled'
  BY SettledKeeps
<1> QED  BY QueueIsSound, <1>1, <1>2, PTL DEF Spec

\* The row of a completion stays in pending_mutations until the completion was sent or
\* given up: no pass, load, failed deletion or death of the app takes it earlier.
THEOREM RowsAreKept == Spec => CompletionsKept
<1>1. ProcessedSettled /\ [Next]_vars
        => [\A a \in Actions : Left(a) /\ Kind[a] = "complete" => a \in served \cup given]_vars
  BY RowsKeep
<1> QED  BY ProcessedIsSettled, <1>1, PTL DEF Spec, CompletionsKept

-----------------------------------------------------------------------------
(* How often an object is tried, whatever number of passes is under way    *)

\* The passes that have still to try the object, those that have kept it and will store it
\* again, and those that will store an array without it.
Trying(object) == {p \in Passes : object \in ToSet(pass[p].todo)}
Keeping(object) == {p \in Passes : pass[p].at = "call" /\ object \in ToSet(pass[p].kept)}
Dropping(object) ==
    {p \in Passes : pass[p].at = "call" /\ object \notin Held(p) /\ pass[p].processed # {}}

\* The passes that may try it before a pass that has kept it stores it again.
Eager(object) ==
    IF object \in ToSet(queue) THEN Passes \ (Keeping(object) \cup Dropping(object)) ELSE Trying(object)

\* The tries that may follow once the passes that have kept it store it again.
Later(keepers) ==
    IF keepers = 0 THEN 0 ELSE IF keepers = 1 THEN Cardinality(Passes) ELSE 2 * Cardinality(Passes) - 1

\* Below the limit as many passes have kept the object as have failed with it.  Beyond it
\* nobody keeps it any more, and every try uses up one that was still to come.
Within(count, eager, keeping) ==
    IF count < MaxTries THEN Cardinality(keeping) <= count
    ELSE /\ Cardinality(keeping) <= 2
         /\ count + Cardinality(eager) + Later(Cardinality(keeping)) <= MaxTries * Cardinality(Passes) - 1

TriesWithin(object) == Within(tries[object], Eager(object), Keeping(object))

\* Sets of passes are finite, and counted in numbers.
LEMMA PassesCounted ==
  /\ Cardinality(Passes) \in Nat /\ Cardinality(Passes) >= 2
  /\ \A some \in SUBSET Passes : /\ IsFiniteSet(some) /\ Cardinality(some) \in Nat
                                 /\ Cardinality(some) <= Cardinality(Passes)
                                 /\ Cardinality(Passes \ some) = Cardinality(Passes) - Cardinality(some)
<1>1. IsFiniteSet(Passes) /\ Cardinality(Passes) >= 2
  BY QueueAssumption
<1>2. Cardinality(Passes) \in Nat
  BY <1>1, FS_CardinalityType
<1>3. ASSUME NEW some \in SUBSET Passes
      PROVE  /\ IsFiniteSet(some) /\ Cardinality(some) \in Nat
             /\ Cardinality(some) <= Cardinality(Passes)
             /\ Cardinality(Passes \ some) = Cardinality(Passes) - Cardinality(some)
  <2>1. IsFiniteSet(some) /\ Cardinality(some) <= Cardinality(Passes)
    BY <1>1, FS_Subset
  <2>2. Cardinality(some) \in Nat
    BY <2>1, FS_CardinalityType
  <2>3. Cardinality(Passes \ some) = Cardinality(Passes) - Cardinality(Passes \cap some)
    BY <1>1, FS_Difference
  <2>4. Passes \cap some = some
    OBVIOUS
  <2> QED  BY <2>1, <2>2, <2>3, <2>4
<1> QED  BY <1>1, <1>2, <1>3

\* One set of passes within another, and without one of its passes.
LEMMA PassesLess ==
  ASSUME NEW some \in SUBSET Passes, NEW fewer \in SUBSET some
  PROVE  /\ Cardinality(fewer) <= Cardinality(some)
         /\ \A p \in some : Cardinality(some \ {p}) = Cardinality(some) - 1
         /\ \A p : p \notin fewer /\ p \in some => Cardinality(fewer) <= Cardinality(some) - 1
<1>1. IsFiniteSet(some) /\ Cardinality(some) \in Nat
  BY PassesCounted
<1>2. Cardinality(fewer) <= Cardinality(some)
  BY <1>1, FS_Subset
<1>3. \A p \in some : Cardinality(some \ {p}) = Cardinality(some) - 1
  BY <1>1, FS_RemoveElement
<1>4. ASSUME NEW p, p \notin fewer, p \in some PROVE Cardinality(fewer) <= Cardinality(some) - 1
  <2>1. fewer \subseteq some \ {p} /\ IsFiniteSet(some \ {p})
    BY <1>1, <1>4, FS_RemoveElement
  <2>2. Cardinality(fewer) <= Cardinality(some \ {p})
    BY <2>1, FS_Subset
  <2> QED  BY <1>3, <1>4, <2>2
<1> QED  BY <1>2, <1>3, <1>4

\* Without a new try: fewer passes are eager, or one that had kept the object stores it.
LEMMA WithinStays ==
  ASSUME NEW count \in Nat, NEW keeping \in SUBSET Passes, NEW eager \in SUBSET (Passes \ keeping),
         NEW keeping1, NEW eager1, Within(count, eager, keeping),
         \/ keeping1 = keeping /\ eager1 \subseteq eager
         \/ \E p \in keeping : keeping1 = keeping \ {p} /\ eager1 \subseteq Passes \ keeping1
  PROVE  Within(count, eager1, keeping1)
<1>1. /\ Cardinality(Passes) \in Nat /\ Cardinality(keeping) \in Nat /\ Cardinality(eager) \in Nat
  BY PassesCounted
<1>2. CASE keeping1 = keeping /\ eager1 \subseteq eager
  <2>1. Cardinality(eager1) \in Nat /\ Cardinality(eager1) <= Cardinality(eager)
    BY <1>2, PassesCounted, PassesLess
  <2>2. Later(Cardinality(keeping)) \in Int
    BY <1>1 DEF Later
  <2> QED  BY <1>1, <1>2, <2>1, <2>2 DEF Within, MaxTries
<1>3. ASSUME NEW p \in keeping, keeping1 = keeping \ {p}, eager1 \subseteq Passes \ keeping1
      PROVE  Within(count, eager1, keeping1)
  <2> DEFINE n == Cardinality(Passes)
             k == Cardinality(keeping)
             k1 == Cardinality(keeping1)
             e == Cardinality(eager)
             e1 == Cardinality(eager1)
  <2>1. keeping1 \in SUBSET Passes /\ (Passes \ keeping1) \in SUBSET Passes /\ eager1 \in SUBSET Passes
    BY <1>3
  <2>2. k1 = k - 1
    BY <1>3, PassesLess
  <2>3. e1 <= Cardinality(Passes \ keeping1) /\ Cardinality(Passes \ keeping1) = n - k1
    BY <1>3, <2>1, PassesCounted, PassesLess
  <2>4. n \in Nat /\ k \in Nat /\ e \in Nat /\ e1 \in Nat /\ k1 \in Nat
    BY <1>1, <2>1, PassesCounted
  <2> HIDE DEF n, k, k1, e, e1
  <2>5. e1 <= n - k1
    BY <2>3
  <2>6. CASE count < MaxTries
    <3>1. k <= count
      BY <2>6 DEF Within, k
    <3>2. k1 <= count
      BY <2>2, <2>4, <3>1
    <3> QED  BY <2>6, <3>2 DEF Within, k1
  <2>7. CASE ~(count < MaxTries)
    <3>1. k <= 2 /\ count + e + (IF k = 0 THEN 0 ELSE IF k = 1 THEN n ELSE 2 * n - 1) <= MaxTries * n - 1
      BY <2>7 DEF Within, Later, k, e, n
    <3>2. k1 <= 2 /\ count + e1 + (IF k1 = 0 THEN 0 ELSE IF k1 = 1 THEN n ELSE 2 * n - 1) <= MaxTries * n - 1
      BY <2>2, <2>4, <2>5, <3>1 DEF MaxTries
    <3> QED  BY <2>7, <3>2 DEF Within, Later, k1, e1, n
  <2> QED  BY <2>6, <2>7
<1> QED  BY <1>2, <1>3

\* A try that makes a pass leave the object out: it was eager, and is no more.
LEMMA WithinDrops ==
  ASSUME NEW count \in Nat, NEW keeping \in SUBSET Passes, NEW eager \in SUBSET (Passes \ keeping),
         NEW eager1 \in SUBSET eager, NEW p \in eager, p \notin eager1,
         Within(count, eager, keeping), count + 1 >= MaxTries
  PROVE  Within(count + 1, eager1, keeping)
<1> DEFINE n == Cardinality(Passes)
           k == Cardinality(keeping)
           e == Cardinality(eager)
           e1 == Cardinality(eager1)
<1>1. n \in Nat /\ n >= 2 /\ k \in Nat /\ e \in Nat /\ e1 \in Nat
  BY PassesCounted
<1>2. e1 <= e - 1
  BY PassesLess
<1>3. e <= n - k
  <2>1. e <= Cardinality(Passes \ keeping) /\ Cardinality(Passes \ keeping) = n - k
    BY PassesCounted, PassesLess
  <2> QED  BY <2>1
<1> HIDE DEF n, k, e, e1
<1>4. CASE count < MaxTries
  <2>1. k <= count /\ count = 2
    BY <1>4 DEF Within, k, MaxTries
  <2>2. k <= 2 /\ (count + 1) + e1 + (IF k = 0 THEN 0 ELSE IF k = 1 THEN n ELSE 2 * n - 1) <= MaxTries * n - 1
    BY <1>1, <1>2, <1>3, <2>1 DEF MaxTries
  <2> QED  BY <2>1, <2>2 DEF Within, Later, k, e1, n, MaxTries
<1>5. CASE ~(count < MaxTries)
  <2>1. k <= 2 /\ count + e + (IF k = 0 THEN 0 ELSE IF k = 1 THEN n ELSE 2 * n - 1) <= MaxTries * n - 1
    BY <1>5 DEF Within, Later, k, e, n
  <2>2. (count + 1) + e1 + (IF k = 0 THEN 0 ELSE IF k = 1 THEN n ELSE 2 * n - 1) <= MaxTries * n - 1
    BY <1>1, <1>2, <2>1 DEF MaxTries
  <2>3. ~(count + 1 < MaxTries)
    BY <1>5 DEF MaxTries
  <2> QED  BY <2>1, <2>2, <2>3 DEF Within, Later, k, e1, n
<1> QED  BY <1>4, <1>5

\* A try below the limit: one pass more has kept the object.
LEMMA WithinKeeps ==
  ASSUME NEW count \in Nat, NEW keeping \in SUBSET Passes, NEW eager, NEW p \in Passes,
         NEW keeping1, keeping1 \subseteq keeping \cup {p}, NEW eager1,
         Within(count, eager, keeping), count + 1 < MaxTries
  PROVE  Within(count + 1, eager1, keeping1)
<1>1. IsFiniteSet(keeping) /\ Cardinality(keeping) \in Nat
  BY PassesCounted
<1>2. Cardinality(keeping \cup {p}) <= Cardinality(keeping) + 1 /\ Cardinality(keeping \cup {p}) \in Nat
  <2>1. Cardinality(keeping \cup {p}) = IF p \in keeping THEN Cardinality(keeping) ELSE Cardinality(keeping) + 1
    BY <1>1, FS_AddElement
  <2> QED  BY <1>1, <2>1
<1>3. Cardinality(keeping1) <= Cardinality(keeping \cup {p}) /\ Cardinality(keeping1) \in Nat
  <2>1. keeping \cup {p} \in SUBSET Passes /\ keeping1 \in SUBSET Passes
    OBVIOUS
  <2> QED  BY <2>1, PassesCounted, PassesLess
<1>4. Cardinality(keeping) <= count
  BY DEF Within, MaxTries
<1> QED  BY <1>1, <1>2, <1>3, <1>4 DEF Within

\* A pass that has still to try the object is eager, and one that has kept it is not.
LEMMA EagerApart ==
  ASSUME QueueSound, NEW object
  PROVE  /\ Keeping(object) \in SUBSET Passes /\ Eager(object) \in SUBSET (Passes \ Keeping(object))
         /\ Trying(object) \subseteq Eager(object)
<1>1. \A p \in Passes : object \in ToSet(pass[p].todo) => object \notin ToSet(pass[p].kept) /\ object \in Held(p)
  BY DEF QueueSound, PassSound, Held
<1>2. Trying(object) \subseteq Passes \ (Keeping(object) \cup Dropping(object))
  BY <1>1 DEF Trying, Keeping, Dropping
<1> QED  BY <1>2 DEF Eager, Trying, Keeping

\* What one pass changes: where the others stand stays.
LEMMA OthersStand ==
  ASSUME DOMAIN pass = Passes, NEW p \in Passes, NEW state, pass' = [pass EXCEPT ![p] = state], NEW object
  PROVE  /\ \A another \in Passes : another # p =>
              /\ another \in Trying(object)' <=> another \in Trying(object)
              /\ another \in Keeping(object)' <=> another \in Keeping(object)
              /\ another \in Dropping(object)' <=> another \in Dropping(object)
         /\ p \in Trying(object)' <=> object \in ToSet(state.todo)
         /\ p \in Keeping(object)' <=> state.at = "call" /\ object \in ToSet(state.kept)
         /\ p \in Dropping(object)' <=>
              /\ state.at = "call" /\ state.processed # {}
              /\ object \notin ToSet(state.kept) \cup ToSet(state.todo)
         /\ Trying(object)' \subseteq Passes /\ Keeping(object)' \subseteq Passes
<1>1. pass'[p] = state /\ \A another \in Passes : another # p => pass'[another] = pass[another]
  OBVIOUS
<1> QED  BY <1>1 DEF Trying, Keeping, Dropping, Held

\* An object that a pass does not try now keeps its bound.
LEMMA WithinResume ==
  ASSUME QueueSound, NEW p \in Passes, NEW object \in SyncAction,
         TriesWithin(object), pass[p].at = "call",
         NEW kept, NEW processed, NEW state, Resumed(p, kept, processed, state),
         object # Head(pass[p].todo), tries'[object] = tries[object],
         \/ kept = pass[p].kept
         \/ kept = Append(pass[p].kept, Head(pass[p].todo)),
         pass[p].processed \subseteq processed
  PROVE  TriesWithin(object)'
<1> DEFINE h == Head(pass[p].todo)
<1>1. /\ DOMAIN pass = Passes /\ pass[p].kept \in Seq(SyncAction) /\ h \in SyncAction
      /\ ToSet(pass[p].todo) = {h} \cup ToSet(Tail(pass[p].todo))
  BY AtCall
<1>2. object \in ToSet(kept) <=> object \in ToSet(pass[p].kept)
  <2>1. CASE kept = Append(pass[p].kept, h)
    <3>1. ToSet(kept) = ToSet(pass[p].kept) \cup {h}
      BY <1>1, <2>1, ToSetAppend
    <3> QED  BY <3>1
  <2> QED  BY <2>1
<1>3. /\ pass' = [pass EXCEPT ![p] = state]
      /\ ToSet(state.todo) \subseteq ToSet(pass[p].todo)
      /\ \/ /\ queue' = queue /\ state.at = "call" /\ state.kept = kept /\ processed \subseteq state.processed
         \/ queue' = kept /\ state.at = "cleanup"
         \/ queue' = queue /\ state.at = "idle" /\ processed = {}
  BY <1>1, NothingHeld DEF Resumed, IdlePass
<1>4. Trying(object)' \subseteq Trying(object)
  BY <1>1, <1>3, OthersStand DEF Trying
<1>5. p \in Keeping(object) <=> object \in ToSet(kept)
  BY <1>2 DEF Keeping
<1>6. tries[object] \in Nat
  BY DEF QueueSound, TypeOK
<1>7. CASE Keeping(object)' = Keeping(object) /\ Eager(object)' \subseteq Eager(object)
  BY <1>6, <1>7, EagerApart, WithinStays DEF TriesWithin
<1>8. CASE p \in Keeping(object) /\ Keeping(object)' = Keeping(object) \ {p}
  <2>1. Trying(object)' \subseteq Trying(object) /\ Trying(object) \subseteq Passes \ Keeping(object)
    BY <1>4, EagerApart
  <2>2. Eager(object)' \subseteq Passes \ Keeping(object)'
    BY <1>8, <2>1 DEF Eager
  <2> QED  BY <1>6, <1>8, <2>2, EagerApart, WithinStays DEF TriesWithin
<1>9. CASE p \notin Keeping(object) /\ Keeping(object)' = Keeping(object) /\ ~(Eager(object)' \subseteq Eager(object))
  <2>1. object \in ToSet(queue') /\ queue' = queue
    <3>1. object \in ToSet(queue')
      BY <1>4, <1>9, EagerApart DEF Eager
    <3> QED  BY <1>3, <1>5, <1>9, <3>1
  <2>2. Dropping(object) \subseteq Dropping(object)'
    <3>1. p \in Dropping(object) => p \in Dropping(object)'
      <4> SUFFICES ASSUME p \in Dropping(object) PROVE p \in Dropping(object)'
        OBVIOUS
      <4>1. pass[p].processed # {} /\ object \notin ToSet(pass[p].todo)
        BY DEF Dropping, Held
      <4>2. processed # {}
        BY <4>1
      <4>3. \/ /\ state.at = "call" /\ state.kept = kept /\ state.processed # {}
            \/ queue' = kept
        BY <1>3, <4>2
      <4>4. object \notin ToSet(kept)
        BY <1>5, <1>9
      <4> QED  BY <1>1, <1>3, <2>1, <4>1, <4>3, <4>4, OthersStand
    <3> QED  BY <1>1, <1>3, <3>1, OthersStand DEF Dropping
  <2>3. Eager(object)' \subseteq Eager(object)
    BY <1>9, <2>1, <2>2 DEF Eager
  <2> QED  BY <1>9, <2>3
<1>10. \/ Keeping(object)' = Keeping(object)
       \/ p \in Keeping(object) /\ Keeping(object)' = Keeping(object) \ {p}
  <2>1. p \in Keeping(object)' => p \in Keeping(object)
    BY <1>1, <1>3, <1>5, OthersStand
  <2>2. \A another \in Passes : another # p => (another \in Keeping(object)' <=> another \in Keeping(object))
    BY <1>1, <1>3, OthersStand
  <2>3. Keeping(object) \subseteq Passes /\ Keeping(object)' \subseteq Passes
    BY DEF Keeping
  <2>4. CASE p \in Keeping(object)' \/ p \notin Keeping(object)
    <3>1. \A another \in Passes : another \in Keeping(object)' <=> another \in Keeping(object)
      BY <2>1, <2>2, <2>4
    <3> QED  BY <2>3, <3>1
  <2>5. CASE p \notin Keeping(object)' /\ p \in Keeping(object)
    <3>1. \A another \in Passes : another \in Keeping(object)' <=> another \in Keeping(object) \ {p}
      BY <2>2, <2>5
    <3> QED  BY <2>3, <2>5, <3>1
  <2> QED  BY <2>4, <2>5
<1>11. CASE p \in Keeping(object) /\ Keeping(object)' = Keeping(object) /\ ~(Eager(object)' \subseteq Eager(object))
  <2>1. queue' = queue /\ state.at = "call"
    <3>1. p \in Keeping(object)'
      BY <1>11
    <3>2. state.at = "call"
      BY <1>1, <1>3, <3>1, OthersStand
    <3> QED  BY <1>3, <3>2
  <2>2. object \in ToSet(queue)
    BY <1>4, <1>11, <2>1, EagerApart DEF Eager
  <2>3. p \notin Dropping(object)
    BY <1>11 DEF Dropping, Keeping, Held
  <2>4. Dropping(object) \subseteq Dropping(object)'
    BY <1>1, <1>3, <2>3, OthersStand DEF Dropping
  <2>5. Eager(object)' \subseteq Eager(object)
    BY <1>11, <2>1, <2>2, <2>4 DEF Eager
  <2> QED  BY <1>11, <2>5
<1> QED  BY <1>7, <1>8, <1>9, <1>10, <1>11

\* The object just tried, when the pass takes it out of its copy.
LEMMA WithinDrop ==
  ASSUME QueueSound, NEW p \in Passes, pass[p].at = "call",
         NEW object \in SyncAction, object = Head(pass[p].todo), TriesWithin(object),
         NEW processed, processed # {}, NEW state, Resumed(p, pass[p].kept, processed, state),
         \/ tries'[object] = tries[object]
         \/ tries'[object] = tries[object] + 1 /\ tries[object] + 1 >= MaxTries
  PROVE  TriesWithin(object)'
<1>1. /\ DOMAIN pass = Passes
      /\ ToSet(pass[p].todo) = {object} \cup ToSet(Tail(pass[p].todo))
      /\ object \notin ToSet(Tail(pass[p].todo)) /\ object \notin ToSet(pass[p].kept)
  BY AtCall
<1>2. /\ pass' = [pass EXCEPT ![p] = state]
      /\ object \notin ToSet(state.todo) /\ object \notin ToSet(state.kept)
      /\ \/ queue' = queue /\ state.at = "call" /\ state.processed # {}
         \/ queue' = pass[p].kept /\ state.at = "cleanup"
  BY <1>1, NothingHeld DEF Resumed
<1>10. /\ \A another \in Passes : another # p =>
             /\ another \in Trying(object)' <=> another \in Trying(object)
             /\ another \in Keeping(object)' <=> another \in Keeping(object)
             /\ another \in Dropping(object)' <=> another \in Dropping(object)
       /\ p \in Keeping(object)' <=> state.at = "call" /\ object \in ToSet(state.kept)
       /\ p \in Trying(object)' <=> object \in ToSet(state.todo)
       /\ p \in Dropping(object)' <=>
              /\ state.at = "call" /\ state.processed # {}
              /\ object \notin ToSet(state.kept) \cup ToSet(state.todo)
       /\ Trying(object)' \subseteq Passes /\ Keeping(object)' \subseteq Passes
  <2>1. pass' = [pass EXCEPT ![p] = state] /\ DOMAIN pass = Passes
    BY <1>1, <1>2
  <2>2. pass'[p] = state /\ \A another \in Passes : another # p => pass'[another] = pass[another]
    BY <2>1
  <2> QED  BY <2>2 DEF Trying, Keeping, Dropping, Held
<1>3. Keeping(object)' = Keeping(object)
  <2>1. p \notin Keeping(object) /\ p \notin Keeping(object)'
    BY <1>1, <1>2, <1>10 DEF Keeping
  <2>2. Keeping(object) \subseteq Passes
    BY DEF Keeping
  <2> QED  BY <1>10, <2>1, <2>2
<1>4. p \in Trying(object) /\ p \in Eager(object)
  <2>1. p \in Trying(object)
    BY <1>1 DEF Trying
  <2> QED  BY <2>1, EagerApart
<1>5. p \notin Trying(object)' /\ Trying(object)' \subseteq Trying(object)
  BY <1>2, <1>10 DEF Trying
<1>6. Eager(object)' \subseteq Eager(object) \ {p}
  <2>1. CASE object \in ToSet(queue')
    <3>1. queue' = queue /\ state.at = "call" /\ state.processed # {}
      BY <1>1, <1>2, <2>1
    <3>2. p \in Dropping(object)'
      BY <1>2, <1>10, <3>1
    <3>3. \A another \in Passes : another # p => (another \in Dropping(object)' <=> another \in Dropping(object))
      BY <1>10
    <3> QED  BY <1>3, <1>4, <2>1, <3>1, <3>2, <3>3 DEF Eager
  <2>2. CASE object \notin ToSet(queue')
    BY <1>5, <2>2, EagerApart DEF Eager
  <2> QED  BY <2>1, <2>2
<1>7. tries[object] \in Nat /\ Eager(object)' \in SUBSET Eager(object) /\ p \notin Eager(object)'
  BY <1>6 DEF QueueSound, TypeOK
<1>8. CASE tries'[object] = tries[object]
  BY <1>3, <1>7, <1>8, EagerApart, WithinStays DEF TriesWithin
<1>9. CASE tries'[object] = tries[object] + 1 /\ tries[object] + 1 >= MaxTries
  <2>1. Within(tries[object] + 1, Eager(object)', Keeping(object))
    BY <1>4, <1>7, <1>9, EagerApart, WithinDrops DEF TriesWithin
  <2> QED  BY <1>3, <1>9, <2>1 DEF TriesWithin
<1> QED  BY <1>8, <1>9

\* A step of one pass keeps the bound.
LEMMA WithinPass ==
  ASSUME QueueSound, NEW p \in Passes, NEW object \in SyncAction, TriesWithin(object), PassStep(p)
  PROVE  TriesWithin(object)'
<1>1. DOMAIN pass = Passes /\ tries \in [SyncAction -> Nat]
  BY DEF QueueSound, TypeOK
<1>2. CASE ServerExecutes(p)
  <2>1. pass' = [pass EXCEPT ![p].reached = TRUE] /\ UNCHANGED <<queue, tries>>
    BY <1>2 DEF ServerExecutes
  <2>2. \A q \in Passes : /\ pass'[q].at = pass[q].at /\ pass'[q].kept = pass[q].kept
                          /\ pass'[q].todo = pass[q].todo /\ pass'[q].processed = pass[q].processed
    <3>1. pass \in [Passes -> PassState]
      BY Types DEF QueueSound
    <3> QED  BY <1>1, <2>1, <3>1 DEF PassState
  <2>3. /\ Trying(object)' = Trying(object) /\ Keeping(object)' = Keeping(object)
        /\ Dropping(object)' = Dropping(object)
    BY <2>2 DEF Trying, Keeping, Dropping, Held
  <2> QED  BY <2>1, <2>3 DEF TriesWithin, Eager
<1>3. CASE RequestSucceeds(p)
  <2> DEFINE processed == pass[p].processed \cup {Head(pass[p].todo).id}
  <2>1. pass[p].at = "call" /\ Resume(p, pass[p].kept, processed) /\ processed \in SUBSET Actions /\ tries' = tries
    BY <1>3, SucceedsFacts
  <2>2. PICK state : Resumed(p, pass[p].kept, processed, state)
    BY <1>1, <2>1, ResumeFacts DEF QueueSound
  <2>3. processed # {} /\ pass[p].processed \subseteq processed
    OBVIOUS
  <2> HIDE DEF processed
  <2>4. CASE object = Head(pass[p].todo)
    BY <2>1, <2>2, <2>3, <2>4, WithinDrop
  <2>5. CASE object # Head(pass[p].todo)
    BY <2>1, <2>2, <2>3, <2>5, WithinResume
  <2> QED  BY <2>4, <2>5
<1>4. CASE RequestFails(p)
  <2> DEFINE h == Head(pass[p].todo)
  <2>1. /\ pass[p].at = "call" /\ tries' = [tries EXCEPT ![h] = tries[h] + 1]
        /\ h \in SyncAction /\ tries[h] \in Nat /\ tries[object] \in Nat
    BY <1>1, <1>4, FailsFacts, AtCall
  <2>2. tries'[object] = IF object = h THEN tries[object] + 1 ELSE tries[object]
    BY <1>1, <2>1
  <2>3. CASE /\ tries[h] + 1 >= MaxTries
             /\ Resume(p, pass[p].kept, pass[p].processed \cup {h.id})
             /\ pass[p].processed \cup {h.id} \in SUBSET Actions
    <3> DEFINE processed == pass[p].processed \cup {h.id}
    <3>1. PICK state : Resumed(p, pass[p].kept, processed, state)
      BY <1>1, <2>1, <2>3, ResumeFacts DEF QueueSound
    <3>2. processed # {} /\ pass[p].processed \subseteq processed
      OBVIOUS
    <3> HIDE DEF processed
    <3>3. CASE object = h
      BY <2>1, <2>2, <2>3, <3>1, <3>2, <3>3, WithinDrop
    <3>4. CASE object # h
      BY <2>1, <2>2, <3>1, <3>2, <3>4, WithinResume
    <3> QED  BY <3>3, <3>4
  <2>4. CASE /\ tries[h] + 1 < MaxTries
             /\ Resume(p, Append(pass[p].kept, h), pass[p].processed)
             /\ pass[p].processed \in SUBSET Actions
    <3>1. PICK state : Resumed(p, Append(pass[p].kept, h), pass[p].processed, state)
      BY <1>1, <2>1, <2>4, ResumeFacts DEF QueueSound
    <3>2. CASE object = h
      <4>1. Keeping(object)' \subseteq Keeping(object) \cup {p}
        <5>1. pass' = [pass EXCEPT ![p] = state]
          BY <3>1 DEF Resumed
        <5> QED  BY <1>1, <5>1, OthersStand
      <4>2. tries[object] + 1 < MaxTries /\ Keeping(object) \in SUBSET Passes
        BY <2>4, <3>2, EagerApart
      <4>3. Within(tries[object] + 1, Eager(object)', Keeping(object)')
        BY <2>1, <4>1, <4>2, WithinKeeps DEF TriesWithin
      <4> QED  BY <2>2, <3>2, <4>3 DEF TriesWithin
    <3>3. CASE object # h
      BY <2>1, <2>2, <3>1, <3>3, WithinResume
    <3> QED  BY <3>2, <3>3
  <2> QED  BY <1>4, <2>3, <2>4, FailsFacts
<1>5. CASE Cleanup(p)
  <2>1. /\ pass[p].at = "cleanup" /\ pass' = [pass EXCEPT ![p] = IdlePass] /\ UNCHANGED <<queue, tries>>
    BY <1>5 DEF Cleanup, CleanupRows
  <2>2. p \notin Keeping(object) /\ p \notin Dropping(object) /\ p \notin Trying(object)
    <3>1. pass[p].todo = <<>>
      BY <2>1 DEF QueueSound, PassSound
    <3> QED  BY <2>1, <3>1, NothingHeld DEF Trying, Keeping, Dropping
  <2>3. p \notin Keeping(object)' /\ p \notin Dropping(object)' /\ p \notin Trying(object)'
    <3>1. IdlePass.todo = <<>> /\ IdlePass.at # "call"
      BY DEF IdlePass
    <3> QED  BY <1>1, <2>1, <3>1, NothingHeld, OthersStand
  <2>4. /\ Trying(object)' = Trying(object) /\ Keeping(object)' = Keeping(object)
        /\ Dropping(object)' = Dropping(object)
    <3>1. \A q \in Passes : q # p =>
             /\ q \in Trying(object)' <=> q \in Trying(object)
             /\ q \in Keeping(object)' <=> q \in Keeping(object)
             /\ q \in Dropping(object)' <=> q \in Dropping(object)
      BY <1>1, <2>1, OthersStand
    <3> QED  BY <2>2, <2>3, <3>1 DEF Trying, Keeping, Dropping
  <2> QED  BY <2>1, <2>4 DEF TriesWithin, Eager
<1> QED  BY <1>2, <1>3, <1>4, <1>5 DEF PassStep

\* A return to the foreground starts passes that were idle.
LEMMA WithinForeground ==
  ASSUME QueueSound, NEW p \in Passes, NEW q \in Passes, NEW object \in SyncAction,
         TriesWithin(object), Foreground(p, q)
  PROVE  TriesWithin(object)'
<1>1. /\ pass[p].at = "idle" /\ pass[q].at = "idle" /\ UNCHANGED tries
      /\ DOMAIN pass = Passes /\ tries[object] \in Nat
  BY ForegroundFacts DEF QueueSound, TypeOK
<1>2. PICK one, two :
        /\ pass' = [pass EXCEPT ![p] = one, ![q] = two]
        /\ ToSet(one.kept) = {} /\ ToSet(two.kept) = {}
        /\ \/ /\ queue' = queue /\ ToSet(one.todo) \subseteq ToSet(queue) /\ ToSet(two.todo) \subseteq ToSet(queue)
           \/ queue' = <<>> /\ ToSet(one.todo) = {} /\ ToSet(two.todo) = {}
  BY ForegroundFacts, NothingHeld
<1>3. /\ \A r \in Passes \ {p, q} : pass'[r] = pass[r]
      /\ \A r \in {p, q} : pass'[r] = one \/ pass'[r] = two
  BY <1>1, <1>2
<1>4. p \notin Keeping(object) /\ q \notin Keeping(object) /\ p \notin Dropping(object) /\ q \notin Dropping(object)
  BY <1>1 DEF Keeping, Dropping
<1>5. Keeping(object)' = Keeping(object)
  BY <1>2, <1>3, <1>4 DEF Keeping
<1>6. Dropping(object) \subseteq Dropping(object)'
  BY <1>3, <1>4 DEF Dropping, Held
<1>7. object \notin ToSet(queue) => Trying(object)' \subseteq Trying(object)
  BY <1>2, <1>3 DEF Trying
<1>8. queue' = <<>> => Trying(object)' \subseteq Trying(object)
  <2> SUFFICES ASSUME queue' = <<>>, object \in ToSet(queue) PROVE Trying(object)' \subseteq Trying(object)
    BY <1>7
  <2>1. queue # <<>>
    BY NothingHeld
  <2>2. ToSet(one.todo) = {} /\ ToSet(two.todo) = {}
    BY <1>2, <2>1
  <2> QED  BY <1>3, <2>2 DEF Trying
<1>9. Eager(object)' \subseteq Eager(object)
  <2>1. CASE queue' = queue
    BY <1>5, <1>6, <1>7, <2>1 DEF Eager
  <2>2. CASE queue' = <<>>
    <3>1. object \notin ToSet(queue')
      BY <2>2, NothingHeld
    <3> QED  BY <1>8, <2>2, <3>1, EagerApart DEF Eager
  <2> QED  BY <1>2, <2>1, <2>2
<1> QED  BY <1>1, <1>5, <1>9, EagerApart, WithinStays DEF TriesWithin

\* A step that leaves the counts and the passes as they are keeps the bound, if what is new in
\* the array was never tried.
LEMMA WithinStay ==
  ASSUME QueueSound, NEW object \in SyncAction,
         TriesWithin(object), UNCHANGED <<tries, pass>>,
         object \in ToSet(queue)' => object \in ToSet(queue) \/ Unborn(object)
  PROVE  TriesWithin(object)'
<1>1. tries[object] \in Nat
  BY DEF QueueSound, TypeOK
<1>2. /\ Trying(object)' = Trying(object) /\ Keeping(object)' = Keeping(object)
      /\ Dropping(object)' = Dropping(object)
  BY DEF Trying, Keeping, Dropping, Held
<1>3. CASE Unborn(object)
  <2>1. tries[object] = 0
    BY <1>3 DEF QueueSound, Untouched
  <2> QED  BY <1>2, <2>1 DEF TriesWithin, Within, MaxTries
<1>4. CASE object \in ToSet(queue)' => object \in ToSet(queue)
  <2>1. Eager(object)' \subseteq Eager(object)
    BY <1>2, <1>4, EagerApart DEF Eager
  <2> QED  BY <1>1, <1>2, <2>1, EagerApart, WithinStays DEF TriesWithin
<1> QED  BY <1>3, <1>4

\* At the start of the app no object was tried.
LEMMA WithinFresh ==
  ASSUME NEW object, tries[object] = 0, \A p \in Passes : pass[p] = IdlePass PROVE TriesWithin(object)
<1>1. Keeping(object) = {}
  BY DEF Keeping, IdlePass
<1> QED  BY <1>1, FS_EmptySet DEF TriesWithin, Within, MaxTries

\* Every step keeps the bound.
LEMMA WithinNext ==
  ASSUME QueueSound, NEW object \in SyncAction, TriesWithin(object), [Next]_vars
  PROVE  TriesWithin(object)'
<1>1. ASSUME UNCHANGED <<tries, pass, queue>> PROVE TriesWithin(object)'
  BY <1>1, WithinStay
<1>2. ASSUME NEW a \in Actions, SubmitCompletion(a) \/ AnswerItem(a) \/ CreateRow(a) PROVE TriesWithin(object)'
  BY <1>1, <1>2 DEF SubmitCompletion, AnswerItem, CreateRow, CallAddToQueue, memory
<1>3. ASSUME NEW a \in Actions, AppendAction(a) PROVE TriesWithin(object)'
  <2> DEFINE new == [id |-> a, load |-> 0]
  <2>1. UNCHANGED <<tries, pass>> /\ queue' = Append(queue, new) /\ stage[a] = "adding"
    BY <1>3 DEF AppendAction
  <2>2. new \in SyncAction /\ Unborn(new)
    BY <2>1, BoundsAreNumbers DEF SyncAction, Unborn
  <2>3. ToSet(queue') = ToSet(queue) \cup {new}
    BY <2>1, <2>2, ToSetAppend DEF QueueSound, TypeOK
  <2> QED  BY <2>1, <2>2, <2>3, WithinStay
<1>4. ASSUME NEW snapshot \in loading, StoreQueue(snapshot) PROVE TriesWithin(object)'
  <2>1. UNCHANGED <<tries, pass>>
    BY <1>4 DEF StoreQueue
  <2>2. object \in ToSet(queue)' => Unborn(object)
    BY <1>4, StoreFacts DEF Unborn
  <2> QED  BY <2>1, <2>2, WithinStay
<1>5. ASSUME FetchRows PROVE TriesWithin(object)'
  BY <1>1, <1>5 DEF FetchRows, memory
<1>6. ASSUME Restart PROVE TriesWithin(object)'
  <2>1. tries'[object] = 0 /\ \A p \in Passes : pass'[p] = IdlePass
    BY <1>6 DEF Restart
  <2>2. Keeping(object)' = {}
    BY <2>1 DEF Keeping, IdlePass
  <2> QED  BY <2>1, <2>2, FS_EmptySet DEF TriesWithin, Within, MaxTries
<1>7. CASE UNCHANGED vars
  BY <1>1, <1>7 DEF vars
<1> QED  BY <1>2, <1>3, <1>4, <1>5, <1>6, <1>7, WithinForeground, WithinPass DEF Next

\* With n passes under way at once, an object is tried at most 3n - 1 times, whatever the
\* passes, the loads and the deaths of the app do.
THEOREM TriesAreBounded == Spec => []TriesBounded
<1> DEFINE Known == \A object \in SyncAction : TriesWithin(object)
<1>1. Init => Known
  BY WithinFresh DEF Init
<1>2. QueueSound /\ Known /\ [Next]_vars => Known'
  BY WithinNext
<1>3. QueueSound /\ Known => TriesBounded
  <2> SUFFICES ASSUME QueueSound, Known, NEW object \in SyncAction
               PROVE  tries[object] <= MaxTries * Cardinality(Passes) - 1
    BY DEF TriesBounded
  <2>1. tries[object] \in Nat
    BY DEF QueueSound, TypeOK
  <2>2. /\ Cardinality(Passes) \in Nat /\ Cardinality(Passes) >= 2
        /\ Cardinality(Keeping(object)) \in Nat /\ Cardinality(Eager(object)) \in Nat
    BY EagerApart, PassesCounted
  <2>3. Within(tries[object], Eager(object), Keeping(object))
    BY DEF TriesWithin
  <2> QED  BY <2>1, <2>2, <2>3 DEF Within, Later, MaxTries
<1> HIDE DEF Known
<1> QED  BY QueueIsSound, <1>1, <1>2, <1>3, PTL DEF Spec
-----------------------------------------------------------------------------
(* Executions, counted                                                     *)

One(condition) == IF condition THEN 1 ELSE 0

-----------------------------------------------------------------------------
(* Why an action is executed more than once                                *)

\* The requests that may still execute an action: those of the passes under way, and those of
\* the objects in the array that a next pass would try.
Copies(a) ==
    {copy \in Passes \X SyncAction :
        /\ copy[2].id = a
        /\ pass[copy[1]].at = "call" /\ copy[2] \in Held(copy[1])
        /\ ~(pass[copy[1]].reached /\ copy[2] = Head(pass[copy[1]].todo))}

Live(a) ==
    {object \in SyncAction :
        /\ object.id = a /\ object \in ToSet(queue)
        /\ \A p \in Passes : pass[p].at = "call" => object \notin Held(p) /\ a \notin pass[p].processed}

Sends(a) == Cardinality(Copies(a)) + Cardinality(Live(a)) + One(stage[a] # "added")

\* There is a reason for each of them, but for the first execution.
Explained(a) == reasons[a] >= 0 /\ reasons[a] + One(a \notin served) >= Sends(a)

\* The copies of one action, counted.
LEMMA CopiesCounted ==
  ASSUME NEW a \in Actions,
         NEW C, C \subseteq {copy \in Passes \X SyncAction : copy[2].id = a},
         NEW L, L \subseteq {object \in SyncAction : object.id = a}
  PROVE  /\ IsFiniteSet(C) /\ IsFiniteSet(L) /\ Cardinality(C) \in Nat /\ Cardinality(L) \in Nat
         /\ Cardinality(C) + Cardinality(L) + 1 <= MostCopies
<1> DEFINE n == 2 + MaxLoads + MaxKills
           objects == {object \in SyncAction : object.id = a}
           objectOf == [load \in 0 .. 1 + MaxLoads + MaxKills |-> [id |-> a, load |-> load]]
<1>1. n \in Nat /\ MaxLoads \in Nat /\ MaxKills \in Nat
  BY BoundsAreNumbers
<1>2. objectOf \in Surjection(0 .. 1 + MaxLoads + MaxKills, objects)
  <2>1. objectOf \in [0 .. 1 + MaxLoads + MaxKills -> objects]
    BY DEF SyncAction
  <2>2. \A object \in objects : \E load \in 0 .. 1 + MaxLoads + MaxKills : objectOf[load] = object
    BY DEF SyncAction
  <2> QED  BY <2>1, <2>2 DEF Surjection
<1>3. /\ IsFiniteSet(0 .. 1 + MaxLoads + MaxKills)
      /\ Cardinality(0 .. 1 + MaxLoads + MaxKills) = n
  BY <1>1, FS_Interval
<1>4. IsFiniteSet(objects) /\ Cardinality(objects) <= n
  BY <1>2, <1>3, FS_Surjection
<1> HIDE DEF n, objects, objectOf
<1>5. Cardinality(objects) \in Nat
  BY <1>4, FS_CardinalityType
<1>6. /\ IsFiniteSet(Passes \X objects)
      /\ Cardinality(Passes \X objects) = Cardinality(Passes) * Cardinality(objects)
  BY <1>4, BoundsAreNumbers, FS_Product
<1>7. C \in SUBSET (Passes \X objects) /\ L \in SUBSET objects
  BY DEF objects
<1>8. /\ IsFiniteSet(C) /\ Cardinality(C) <= Cardinality(Passes) * Cardinality(objects)
      /\ IsFiniteSet(L) /\ Cardinality(L) <= Cardinality(objects)
  BY <1>4, <1>6, <1>7, FS_Subset
<1>9. Cardinality(C) \in Nat /\ Cardinality(L) \in Nat
  BY <1>8, FS_CardinalityType
<1>10. Cardinality(Passes) * Cardinality(objects) + Cardinality(objects) <= (Cardinality(Passes) + 1) * n
  <2>1. \A x, y, z \in Nat : y <= z => x * y + y <= (x + 1) * z
    <3> SUFFICES ASSUME NEW x \in Nat, NEW y \in Nat, NEW z \in Nat, y <= z PROVE (x + 1) * y <= (x + 1) * z
      OBVIOUS
    <3> QED  OBVIOUS
  <2> QED  BY <1>1, <1>4, <1>5, <2>1, BoundsAreNumbers
<1>11. MostCopies = (Cardinality(Passes) + 1) * n + 1
  BY DEF MostCopies, n
<1>12. Cardinality(Passes) * Cardinality(objects) \in Nat /\ (Cardinality(Passes) + 1) * n \in Nat
  BY <1>1, <1>5, BoundsAreNumbers
<1> QED  BY <1>5, <1>8, <1>9, <1>10, <1>11, <1>12

\* The same, of a state and of the next.
LEMMA SendsCounted ==
  ASSUME NEW a \in Actions
  PROVE  /\ IsFiniteSet(Copies(a)) /\ IsFiniteSet(Live(a))
         /\ Cardinality(Copies(a)) \in Nat /\ Cardinality(Live(a)) \in Nat
         /\ Sends(a) \in Nat /\ Sends(a) <= MostCopies
         /\ IsFiniteSet(Copies(a)') /\ IsFiniteSet(Live(a)')
         /\ Cardinality(Copies(a)') \in Nat /\ Cardinality(Live(a)') \in Nat
         /\ Sends(a)' \in Nat /\ Sends(a)' <= MostCopies
<1>1. /\ Copies(a) \subseteq {copy \in Passes \X SyncAction : copy[2].id = a}
      /\ Live(a) \subseteq {object \in SyncAction : object.id = a}
      /\ Copies(a)' \subseteq {copy \in Passes \X SyncAction : copy[2].id = a}
      /\ Live(a)' \subseteq {object \in SyncAction : object.id = a}
  BY DEF Copies, Live
<1>2. /\ IsFiniteSet(Copies(a)) /\ IsFiniteSet(Live(a))
      /\ Cardinality(Copies(a)) \in Nat /\ Cardinality(Live(a)) \in Nat
      /\ Cardinality(Copies(a)) + Cardinality(Live(a)) + 1 <= MostCopies
  BY <1>1, CopiesCounted
<1>3. /\ IsFiniteSet(Copies(a)') /\ IsFiniteSet(Live(a)')
      /\ Cardinality(Copies(a)') \in Nat /\ Cardinality(Live(a)') \in Nat
      /\ Cardinality(Copies(a)') + Cardinality(Live(a)') + 1 <= MostCopies
  BY <1>1, CopiesCounted
<1>4. /\ One(stage[a] # "added") \in {0, 1} /\ One(stage'[a] # "added") \in {0, 1}
      /\ MostCopies \in Nat
  BY BoundsAreNumbers DEF One
<1>5. Sends(a) = Cardinality(Copies(a)) + Cardinality(Live(a)) + One(stage[a] # "added")
  BY DEF Sends
<1>6. Sends(a)' = Cardinality(Copies(a)') + Cardinality(Live(a)') + One(stage'[a] # "added")
  BY DEF Sends
<1> QED  BY <1>2, <1>3, <1>4, <1>5, <1>6

\* A step that adds as many reasons as it adds requests to come keeps the rest explained.
LEMMA ExplainedBy ==
  ASSUME NEW a \in Actions, Explained(a), NEW more \in Nat, reasons[a] \in Int, reasons'[a] \in Int,
         reasons'[a] >= reasons[a] + more \/ reasons'[a] = MostCopies,
         Sends(a)' + One(a \notin served) <= Sends(a) + more + One(a \notin served)'
  PROVE  Explained(a)'
<1>1. /\ Sends(a) \in Nat /\ Sends(a)' \in Nat /\ Sends(a)' <= MostCopies /\ MostCopies \in Nat
  BY SendsCounted, BoundsAreNumbers
<1>2. /\ One(a \notin served) \in {0, 1} /\ One(a \notin served)' \in {0, 1}
  BY DEF One
<1>3. reasons[a] >= 0 /\ reasons[a] + One(a \notin served) >= Sends(a)
  BY DEF Explained
<1>4. reasons'[a] >= 0 /\ reasons'[a] + One(a \notin served)' >= Sends(a)'
  BY <1>1, <1>2, <1>3
<1> QED  BY <1>4 DEF Explained

\* Sets of copies that move between a pass and the array, counted.
LEMMA CountMoves ==
  ASSUME NEW C, NEW L, NEW C1, NEW L1, NEW M, NEW E, NEW p,
         IsFiniteSet(C), IsFiniteSet(L), IsFiniteSet(C1), IsFiniteSet(M), IsFiniteSet(E),
         L1 \subseteq L \cup M, C1 \cup ({p} \X M) \subseteq C \cup E, C1 \cap ({p} \X M) = {}
  PROVE  Cardinality(C1) + Cardinality(L1) <= Cardinality(C) + Cardinality(L) + Cardinality(E)
<1> DEFINE moved == {p} \X M
<1>1. IsFiniteSet(moved) /\ Cardinality(moved) = Cardinality(M) /\ Cardinality(M) \in Nat
  <2>1. IsFiniteSet({p}) /\ Cardinality({p}) = 1
    BY FS_Singleton
  <2>2. Cardinality(M) \in Nat
    BY FS_CardinalityType
  <2>3. IsFiniteSet(moved) /\ Cardinality(moved) = Cardinality({p}) * Cardinality(M)
    BY <2>1, FS_Product
  <2> HIDE DEF moved
  <2> QED  BY <2>1, <2>2, <2>3
<1> HIDE DEF moved
<1>2. /\ Cardinality(C) \in Nat /\ Cardinality(L) \in Nat /\ Cardinality(C1) \in Nat /\ Cardinality(E) \in Nat
  BY FS_CardinalityType
<1>3. /\ IsFiniteSet(L \cup M) /\ IsFiniteSet(C \cup E) /\ IsFiniteSet(C1 \cup moved)
      /\ Cardinality(L \cup M) <= Cardinality(L) + Cardinality(M)
      /\ Cardinality(C \cup E) <= Cardinality(C) + Cardinality(E)
  <2>1. /\ IsFiniteSet(L \cup M) /\ IsFiniteSet(C \cup E) /\ IsFiniteSet(C1 \cup moved)
        /\ Cardinality(L \cup M) = Cardinality(L) + Cardinality(M) - Cardinality(L \cap M)
        /\ Cardinality(C \cup E) = Cardinality(C) + Cardinality(E) - Cardinality(C \cap E)
    BY <1>1, FS_Union
  <2>2. Cardinality(L \cap M) \in Nat /\ Cardinality(C \cap E) \in Nat
    BY FS_Intersection, FS_CardinalityType
  <2> QED  BY <1>1, <1>2, <2>1, <2>2
<1>4. Cardinality(C1 \cup moved) = Cardinality(C1) + Cardinality(M)
  <2>1. C1 \cap moved = {}
    BY DEF moved
  <2>2. Cardinality(C1 \cup moved) = Cardinality(C1) + Cardinality(moved) - Cardinality(C1 \cap moved)
    BY <1>1, FS_Union
  <2> QED  BY <1>1, <1>2, <2>1, <2>2, FS_EmptySet
<1>5. IsFiniteSet(L1) /\ Cardinality(L1) <= Cardinality(L \cup M) /\ Cardinality(C1 \cup moved) <= Cardinality(C \cup E)
  BY <1>3, FS_Subset DEF moved
<1>6. /\ Cardinality(L1) \in Nat /\ Cardinality(L \cup M) \in Nat /\ Cardinality(C \cup E) \in Nat
  BY <1>3, <1>5, FS_CardinalityType
<1> QED  BY <1>1, <1>2, <1>3, <1>4, <1>5, <1>6

\* A step that leaves the passes and the array as they are.
LEMMA SendsStay ==
  ASSUME NEW a \in Actions, UNCHANGED <<queue, pass>>
  PROVE  Copies(a)' = Copies(a) /\ Live(a)' = Live(a)
BY DEF Copies, Live, Held

\* The steps of addToQueue before the append: the wizard's own request, and the row.
LEMMA AddExplained ==
  ASSUME QueueSound, QueueSound', NEW b \in Actions, SubmitCompletion(b) \/ AnswerItem(b) \/ CreateRow(b),
         NEW a \in Actions, Explained(a)
  PROVE  Explained(a)'
<1>1. /\ UNCHANGED <<queue, pass>> /\ stage \in [Actions -> {"new", "creating", "adding", "added"}]
      /\ \/ stage' = [stage EXCEPT ![b] = "creating"] /\ stage[b] = "new"
         \/ stage' = [stage EXCEPT ![b] = "adding"] /\ stage[b] = "creating"
  BY DEF SubmitCompletion, AnswerItem, CreateRow, CallAddToQueue, memory, QueueSound, TypeOK
<1>2. (stage[a] # "added") <=> (stage'[a] # "added")
  BY <1>1
<1>3. Sends(a)' = Sends(a) /\ Sends(a) \in Nat
  BY <1>1, <1>2, SendsStay, SendsCounted DEF Sends, One
<1>4. reasons \in [Actions -> Int] /\ reasons'[a] \in Int
  BY DEF QueueSound, TypeOK
<1>5. CASE UNCHANGED <<served, reasons>>
  <2>1. reasons'[a] >= reasons[a] + 0 /\ One(a \notin served)' = One(a \notin served)
    BY <1>4, <1>5 DEF One
  <2>2. Sends(a)' + One(a \notin served) <= Sends(a) + 0 + One(a \notin served)'
    BY <1>3, <2>1 DEF One
  <2> QED  BY <1>4, <2>1, <2>2, ExplainedBy
<1>6. CASE served' = served \cup {b} /\ Excuse(Once({b}))
  <2>1. \A c \in Actions : reasons'[c] = reasons[c] + Once({b})[c] \/ reasons'[c] = MostCopies
    BY <1>4, <1>6, OnceIsCount, ExcuseFacts
  <2>2. Once({b})[a] = IF a = b THEN 1 ELSE 0
    BY OnceIsCount
  <2>3. CASE a = b
    <3>1. reasons'[a] >= reasons[a] + 1 \/ reasons'[a] = MostCopies
      BY <1>4, <2>1, <2>2, <2>3
    <3>2. Sends(a)' + One(a \notin served) <= Sends(a) + 1 + One(a \notin served)'
      BY <1>3 DEF One
    <3> QED  BY <1>4, <3>1, <3>2, ExplainedBy
  <2>4. CASE a # b
    <3>1. reasons'[a] >= reasons[a] + 0 \/ reasons'[a] = MostCopies
      BY <1>4, <2>1, <2>2, <2>4
    <3>2. One(a \notin served)' = One(a \notin served)
      BY <1>6, <2>4 DEF One
    <3>3. Sends(a)' + One(a \notin served) <= Sends(a) + 0 + One(a \notin served)'
      BY <1>3, <3>2 DEF One
    <3> QED  BY <1>4, <3>1, <3>3, ExplainedBy
  <2> QED  BY <2>3, <2>4
<1> QED  BY <1>5, <1>6 DEF SubmitCompletion, AnswerItem, CreateRow, CallAddToQueue, history

\* The append: the action it was about to add is in the array.
LEMMA AppendExplained ==
  ASSUME QueueSound, QueueSound', NEW b \in Actions, AppendAction(b), NEW a \in Actions, Explained(a)
  PROVE  Explained(a)'
<1> DEFINE new == [id |-> b, load |-> 0]
<1>1. /\ UNCHANGED <<pass, served, reasons>> /\ queue' = Append(queue, new)
      /\ stage[b] = "adding" /\ stage' = [stage EXCEPT ![b] = "added"]
      /\ stage \in [Actions -> {"new", "creating", "adding", "added"}] /\ reasons[a] \in Int
  BY DEF AppendAction, history, QueueSound, TypeOK
<1>2. new \in SyncAction /\ new.id = b
  BY BoundsAreNumbers DEF SyncAction
<1>3. ToSet(queue') = ToSet(queue) \cup {new}
  BY <1>1, <1>2, ToSetAppend DEF QueueSound, TypeOK
<1> HIDE DEF new
<1>4. Copies(a)' = Copies(a)
  BY <1>1 DEF Copies, Held
<1>5. Live(a)' \subseteq IF a = b THEN Live(a) \cup {new} ELSE Live(a)
  BY <1>1, <1>2, <1>3 DEF Live, Held
<1>6. Sends(a)' <= Sends(a)
  <2>1. CASE a = b
    <3>1. /\ IsFiniteSet(Live(a) \cup {new}) /\ Cardinality(Live(a) \cup {new}) <= Cardinality(Live(a)) + 1
          /\ Cardinality(Live(a) \cup {new}) \in Nat
      <4>1. IsFiniteSet(Live(a)) /\ Cardinality(Live(a)) \in Nat
        BY SendsCounted
      <4>2. /\ IsFiniteSet(Live(a) \cup {new})
            /\ Cardinality(Live(a) \cup {new}) = IF new \in Live(a) THEN Cardinality(Live(a)) ELSE Cardinality(Live(a)) + 1
        BY <4>1, FS_AddElement
      <4> QED  BY <4>1, <4>2
    <3>2. Live(a)' \in SUBSET (Live(a) \cup {new})
      BY <1>5, <2>1
    <3>3. Cardinality(Live(a)') <= Cardinality(Live(a) \cup {new})
      BY <3>1, <3>2, FS_Subset
    <3>4. One(stage[a] # "added") = 1 /\ One(stage'[a] # "added") = 0
      BY <1>1, <2>1 DEF One
    <3>5. Sends(a)' = Cardinality(Copies(a)') + Cardinality(Live(a)') + One(stage'[a] # "added")
      BY DEF Sends
    <3> QED  BY <1>4, <3>1, <3>3, <3>4, <3>5, SendsCounted DEF Sends
  <2>2. CASE a # b
    <3>1. Live(a)' \in SUBSET Live(a)
      BY <1>5, <2>2
    <3>2. Cardinality(Live(a)') <= Cardinality(Live(a))
      BY <3>1, FS_Subset, SendsCounted
    <3>3. One(stage'[a] # "added") = One(stage[a] # "added") /\ One(stage[a] # "added") \in Nat
      BY <1>1, <2>2 DEF One
    <3>4. Sends(a)' = Cardinality(Copies(a)') + Cardinality(Live(a)') + One(stage'[a] # "added")
      BY DEF Sends
    <3> QED  BY <1>4, <3>2, <3>3, <3>4, SendsCounted DEF Sends
  <2> QED  BY <2>1, <2>2
<1>7. Sends(a)' + One(a \notin served) <= Sends(a) + 0 + One(a \notin served)'
  <2>1. One(a \notin served)' = One(a \notin served) /\ One(a \notin served) \in Nat
    BY <1>1 DEF One
  <2> QED  BY <1>6, <2>1, SendsCounted
<1> QED  BY <1>1, <1>7, ExplainedBy

\* A pass that resumes: what it holds it may send again, or leave in the array; what it took
\* out of its copy is not sent any more.
LEMMA ResumeExplained ==
  ASSUME QueueSound, QueueSound', NEW p \in Passes, pass[p].at = "call",
         NEW kept, NEW processed, NEW state, Resumed(p, kept, processed, state),
         \/ kept = pass[p].kept /\ Head(pass[p].todo).id \in processed
         \/ kept = Append(pass[p].kept, Head(pass[p].todo)),
         pass[p].processed \subseteq processed, UNCHANGED <<stage, served>>,
         NEW a \in Actions, Explained(a), NEW more \in Nat,
         reasons'[a] >= reasons[a] + more \/ reasons'[a] = MostCopies,
         (kept = Append(pass[p].kept, Head(pass[p].todo)) /\ pass[p].reached /\ Head(pass[p].todo).id = a)
            => more >= 1
  PROVE  Explained(a)'
<1> DEFINE h == Head(pass[p].todo)
           rest == Tail(pass[p].todo)
           lost == kept = Append(pass[p].kept, h) /\ pass[p].reached /\ h.id = a
           M == IF state.at = "call" THEN {} ELSE {object \in ToSet(kept) : object.id = a}
           E == IF lost THEN {<<p, h>>} ELSE {}
<1>1. /\ DOMAIN pass = Passes /\ pass[p].kept \in Seq(SyncAction) /\ h \in SyncAction
      /\ ToSet(pass[p].todo) = {h} \cup ToSet(rest)
      /\ h \notin ToSet(rest) /\ h \notin ToSet(pass[p].kept)
      /\ IsFiniteSet(M) /\ IsFiniteSet(E) /\ Cardinality(E) <= more
  <2>1. /\ DOMAIN pass = Passes /\ pass[p].kept \in Seq(SyncAction) /\ h \in SyncAction
        /\ ToSet(pass[p].todo) = {h} \cup ToSet(rest)
        /\ h \notin ToSet(rest) /\ h \notin ToSet(pass[p].kept)
    BY AtCall
  <2>2. kept \in Seq(SyncAction)
    BY <2>1, ToSetAppend
  <2>3. M \subseteq {object \in SyncAction : object.id = a}
    BY <2>2 DEF ToSet
  <2>4. {} \subseteq {copy \in Passes \X SyncAction : copy[2].id = a}
    OBVIOUS
  <2> HIDE DEF M
  <2>5. IsFiniteSet(M)
    BY <2>3, <2>4, CopiesCounted
  <2>6. IsFiniteSet(E) /\ Cardinality(E) <= more
    <3>1. CASE lost
      <4>1. E = {<<p, h>>} /\ more >= 1
        BY <3>1
      <4>2. IsFiniteSet({<<p, h>>}) /\ Cardinality({<<p, h>>}) = 1
        BY FS_Singleton
      <4> HIDE DEF E
      <4> QED  BY <4>1, <4>2
    <3>2. CASE ~lost
      <4>1. E = {}
        BY <3>2
      <4> HIDE DEF E
      <4> QED  BY <4>1, FS_EmptySet
    <3> QED  BY <3>1, <3>2
  <2> QED  BY <2>1, <2>5, <2>6
<1>2. /\ ToSet(kept) \subseteq ToSet(pass[p].kept) \cup {h} /\ ToSet(pass[p].kept) \subseteq ToSet(kept)
      /\ h \in ToSet(kept) <=> kept = Append(pass[p].kept, h)
  <2>1. CASE kept = Append(pass[p].kept, h)
    <3>1. ToSet(kept) = ToSet(pass[p].kept) \cup {h}
      BY <1>1, <2>1, ToSetAppend
    <3> QED  BY <2>1, <3>1
  <2>2. CASE kept = pass[p].kept /\ kept # Append(pass[p].kept, h)
    BY <1>1, <2>2
  <2> QED  BY <2>1, <2>2
<1>3. pass'[p] = state /\ \A r \in Passes : r # p => pass'[r] = pass[r]
  BY <1>1 DEF Resumed
<1>4. Live(a)' \subseteq Live(a) \cup M
  <2> SUFFICES ASSUME NEW object \in Live(a)' PROVE object \in Live(a) \cup M
    OBVIOUS
  <2>1. /\ object \in SyncAction /\ object.id = a /\ object \in ToSet(queue')
        /\ \A r \in Passes : pass'[r].at = "call" =>
              /\ object \notin ToSet(pass'[r].kept) \cup ToSet(pass'[r].todo) /\ a \notin pass'[r].processed
    BY DEF Live, Held
  <2>2. \A r \in Passes : r # p /\ pass[r].at = "call" => object \notin Held(r) /\ a \notin pass[r].processed
    BY <1>3, <2>1 DEF Held
  <2>3. CASE /\ queue' = queue
             /\ state.at = "call" /\ state.kept = kept /\ ~state.reached
             /\ ToSet(state.todo) \subseteq ToSet(rest)
             /\ processed \subseteq state.processed
             /\ \A another \in ToSet(rest) : another \in ToSet(state.todo) \/ another.id \in state.processed
    <3>1. object \notin ToSet(kept) /\ object \notin ToSet(state.todo) /\ a \notin state.processed
      BY <1>3, <2>1, <2>3
    <3>2. object \notin ToSet(pass[p].kept) /\ a \notin pass[p].processed
      BY <1>2, <2>3, <3>1
    <3>3. object # h
      BY <1>2, <2>1, <2>3, <3>1
    <3>4. object \notin ToSet(rest)
      BY <2>1, <2>3, <3>1
    <3>5. object \notin Held(p)
      BY <1>1, <3>2, <3>3, <3>4 DEF Held
    <3> QED  BY <2>1, <2>2, <2>3, <3>2, <3>5 DEF Live
  <2>4. CASE queue' = kept /\ state.at = "cleanup"
    BY <2>1, <2>4
  <2>5. CASE queue' = queue /\ state = IdlePass /\ processed = {} /\ rest = <<>>
    <3>1. kept = Append(pass[p].kept, h) /\ pass[p].processed = {} /\ state.at # "call"
      BY <2>5, NothingHeld
    <3>2. object \in Held(p) => object \in ToSet(kept)
      BY <1>1, <1>2, <2>5, <3>1, NothingHeld DEF Held
    <3> QED  BY <2>1, <2>2, <2>5, <3>1, <3>2 DEF Live
  <2> QED  BY <2>3, <2>4, <2>5 DEF Resumed
<1>5. \A object \in SyncAction : object \in ToSet(kept) /\ object.id = a => <<p, object>> \in Copies(a) \cup E
  <2> SUFFICES ASSUME NEW object \in SyncAction, object \in ToSet(kept), object.id = a,
                      ~(object = h /\ pass[p].reached)
               PROVE  <<p, object>> \in Copies(a)
    BY <1>2
  <2>1. object \in Held(p)
    BY <1>1, <1>2 DEF Held
  <2> QED  BY <2>1 DEF Copies
<1>6. ToSet(kept) \subseteq SyncAction
  BY <1>1, <1>2 DEF ToSet
<1>7. Copies(a)' \subseteq Copies(a) \cup E
  <2> SUFFICES ASSUME NEW r \in Passes, NEW object \in SyncAction, <<r, object>> \in Copies(a)'
               PROVE  <<r, object>> \in Copies(a) \cup E
    BY DEF Copies
  <2>1. /\ object.id = a /\ pass'[r].at = "call" /\ object \in ToSet(pass'[r].kept) \cup ToSet(pass'[r].todo)
        /\ ~(pass'[r].reached /\ object = Head(pass'[r].todo))
    BY DEF Copies, Held
  <2>2. CASE r # p
    BY <1>3, <2>1, <2>2 DEF Copies, Held
  <2>3. CASE r = p
    <3>1. state.kept = kept /\ ToSet(state.todo) \subseteq ToSet(rest)
      BY <1>3, <2>1, <2>3, NothingHeld DEF Resumed
    <3>2. CASE object \in ToSet(kept)
      BY <1>5, <2>1, <2>3, <3>2
    <3>3. CASE object \in ToSet(rest)
      BY <1>1, <2>1, <2>3, <3>3 DEF Copies, Held
    <3> QED  BY <1>3, <2>1, <2>3, <3>1, <3>2, <3>3
  <2> QED  BY <2>2, <2>3
<1>8. {p} \X M \subseteq Copies(a) \cup E
  BY <1>5, <1>6
<1>9. Copies(a)' \cap ({p} \X M) = {}
  BY <1>3 DEF Copies
<1> HIDE DEF M, E
<1>10. Cardinality(Copies(a)') + Cardinality(Live(a)') <= Cardinality(Copies(a)) + Cardinality(Live(a)) + Cardinality(E)
  BY <1>1, <1>4, <1>7, <1>8, <1>9, SendsCounted, CountMoves
<1>11. /\ One(stage'[a] # "added") = One(stage[a] # "added") /\ One(stage[a] # "added") \in Nat
       /\ One(a \notin served)' = One(a \notin served) /\ One(a \notin served) \in Nat
  BY DEF One
<1>12. Cardinality(E) \in Nat
  BY <1>1, FS_CardinalityType
<1>13. Sends(a)' = Cardinality(Copies(a)') + Cardinality(Live(a)') + One(stage'[a] # "added")
  BY DEF Sends
<1>14. Sends(a)' + One(a \notin served) <= Sends(a) + more + One(a \notin served)'
  BY <1>1, <1>10, <1>11, <1>12, <1>13, SendsCounted DEF Sends
<1>15. reasons[a] \in Int /\ reasons'[a] \in Int
  BY DEF QueueSound, TypeOK
<1> QED  BY <1>14, <1>15, ExplainedBy

\* A request that takes effect is one of those that could.
LEMMA ExecuteExplained ==
  ASSUME QueueSound, QueueSound', NEW p \in Passes, ServerExecutes(p), NEW a \in Actions, Explained(a)
  PROVE  Explained(a)'
<1> DEFINE h == Head(pass[p].todo)
<1>1. /\ pass[p].at = "call" /\ ~pass[p].reached /\ pass' = [pass EXCEPT ![p].reached = TRUE]
      /\ served' = served \cup {h.id}
      /\ reasons' = [reasons EXCEPT ![h.id] = IF h.id \in served THEN @ - 1 ELSE @]
      /\ UNCHANGED <<stage, queue>>
  BY DEF ServerExecutes
<1>2. /\ pass \in [Passes -> PassState] /\ h \in SyncAction /\ h.id \in Actions /\ h \in Held(p)
      /\ reasons \in [Actions -> Int]
  BY <1>1, AtCall, Types DEF QueueSound, Held
<1>3. /\ \A r \in Passes : r # p => pass'[r] = pass[r]
      /\ pass'[p].at = "call" /\ pass'[p].kept = pass[p].kept /\ pass'[p].todo = pass[p].todo
      /\ pass'[p].reached = TRUE /\ pass'[p].processed = pass[p].processed
  <2>1. pass[p] \in PassState
    BY <1>2
  <2> QED  BY <1>1, <1>2, <2>1 DEF PassState
<1> HIDE DEF h
<1>4. ASSUME NEW r \in Passes
      PROVE  pass'[r].at = pass[r].at /\ Held(r)' = Held(r) /\ pass'[r].processed = pass[r].processed
  <2>1. CASE r = p
    BY <1>1, <1>3, <2>1 DEF Held
  <2>2. CASE r # p
    BY <1>3, <2>2 DEF Held
  <2> QED  BY <2>1, <2>2
<1>5. Live(a)' = Live(a)
  BY <1>1, <1>4 DEF Live
<1>6. ASSUME NEW r \in Passes, NEW object \in SyncAction
      PROVE  <<r, object>> \in Copies(a)' <=> <<r, object>> \in Copies(a) /\ <<r, object>> # <<p, h>>
  <2>1. CASE r = p
    BY <1>1, <1>3, <1>4, <2>1 DEF Copies, h
  <2>2. CASE r # p
    BY <1>3, <1>4, <2>2 DEF Copies
  <2> QED  BY <2>1, <2>2
<1>7. Copies(a)' = Copies(a) \ {<<p, h>>}
  BY <1>6 DEF Copies
<1>8. One(stage'[a] # "added") = One(stage[a] # "added") /\ One(stage[a] # "added") \in Nat
  BY <1>1 DEF One
<1>9. Sends(a)' = Cardinality(Copies(a)') + Cardinality(Live(a)') + One(stage'[a] # "added")
  BY DEF Sends
<1>10. CASE a = h.id
  <2>1. <<p, h>> \in Copies(a)
    BY <1>1, <1>2, <1>10 DEF Copies, h
  <2>2. Cardinality(Copies(a)') = Cardinality(Copies(a)) - 1
    BY <1>7, <2>1, SendsCounted, FS_RemoveElement
  <2>3. Sends(a)' = Sends(a) - 1
    BY <1>5, <1>8, <1>9, <2>2, SendsCounted DEF Sends
  <2>4. /\ One(a \notin served)' = 0 /\ One(a \notin served) = (IF a \in served THEN 0 ELSE 1)
        /\ reasons'[a] = IF a \in served THEN reasons[a] - 1 ELSE reasons[a]
    BY <1>1, <1>2, <1>10 DEF One
  <2>5. reasons'[a] >= 0 /\ reasons'[a] + One(a \notin served)' >= Sends(a)'
    BY <1>2, <2>3, <2>4, SendsCounted DEF Explained
  <2> QED  BY <2>5 DEF Explained
<1>11. CASE a # h.id
  <2>1. <<p, h>> \notin Copies(a)
    BY <1>11 DEF Copies
  <2>2. Copies(a)' = Copies(a)
    BY <1>7, <2>1
  <2>3. Sends(a)' = Sends(a)
    BY <1>5, <1>8, <1>9, <2>2 DEF Sends
  <2>4. One(a \notin served)' = One(a \notin served) /\ reasons'[a] = reasons[a]
    BY <1>1, <1>2, <1>11 DEF One
  <2> QED  BY <2>3, <2>4 DEF Explained
<1> QED  BY <1>10, <1>11

\* The steps of a pass keep every further request explained.
LEMMA PassExplained ==
  ASSUME QueueSound, QueueSound', NEW p \in Passes, PassStep(p), NEW a \in Actions, Explained(a)
  PROVE  Explained(a)'
<1> DEFINE h == Head(pass[p].todo)
<1>1. DOMAIN pass = Passes /\ PassSound(pass[p]) /\ reasons[a] \in Int /\ reasons'[a] \in Int
  BY DEF QueueSound, TypeOK
<1>2. CASE RequestSucceeds(p)
  <2> DEFINE processed == pass[p].processed \cup {h.id}
  <2>1. /\ pass[p].at = "call" /\ Resume(p, pass[p].kept, processed) /\ processed \in SUBSET Actions
        /\ UNCHANGED <<stage, served, reasons>>
    BY <1>2, SucceedsFacts
  <2>2. PICK state : Resumed(p, pass[p].kept, processed, state)
    BY <1>1, <2>1, ResumeFacts
  <2>3. h.id \in processed /\ pass[p].processed \subseteq processed
    OBVIOUS
  <2>4. reasons'[a] >= reasons[a] + 0
    BY <1>1, <2>1
  <2>5. pass[p].kept # Append(pass[p].kept, h)
    BY <2>1, AtCall
  <2> HIDE DEF processed
  <2> QED  BY <2>1, <2>2, <2>3, <2>4, <2>5, ResumeExplained
<1>3. CASE RequestFails(p)
  <2>1. /\ pass[p].at = "call" /\ UNCHANGED <<stage, served>>
        /\ \/ reasons'[a] = reasons[a] + (IF pass[p].reached /\ a = h.id THEN 1 ELSE 0)
           \/ reasons'[a] = MostCopies
    BY <1>3, FailsFacts
  <2>2. PICK more \in Nat : more = IF pass[p].reached /\ a = h.id THEN 1 ELSE 0
    OBVIOUS
  <2>3. reasons'[a] >= reasons[a] + more \/ reasons'[a] = MostCopies
    BY <1>1, <2>1, <2>2
  <2>4. CASE /\ Resume(p, pass[p].kept, pass[p].processed \cup {h.id})
             /\ pass[p].processed \cup {h.id} \in SUBSET Actions
    <3> DEFINE processed == pass[p].processed \cup {h.id}
    <3>1. PICK state : Resumed(p, pass[p].kept, processed, state)
      BY <1>1, <2>1, <2>4, ResumeFacts
    <3>2. h.id \in processed /\ pass[p].processed \subseteq processed
      OBVIOUS
    <3>3. pass[p].kept # Append(pass[p].kept, h)
      BY <2>1, AtCall
    <3> HIDE DEF processed
    <3> QED  BY <2>1, <2>3, <3>1, <3>2, <3>3, ResumeExplained
  <2>5. CASE /\ Resume(p, Append(pass[p].kept, h), pass[p].processed)
             /\ pass[p].processed \in SUBSET Actions
    <3>1. PICK state : Resumed(p, Append(pass[p].kept, h), pass[p].processed, state)
      BY <1>1, <2>1, <2>5, ResumeFacts
    <3>2. pass[p].reached /\ h.id = a => more >= 1
      BY <2>2
    <3>3. Append(pass[p].kept, h) = Append(pass[p].kept, Head(pass[p].todo))
      OBVIOUS
    <3> HIDE DEF h
    <3>4. pass[p].reached /\ Head(pass[p].todo).id = a => more >= 1
      BY <3>2 DEF h
    <3> DEFINE kept == Append(pass[p].kept, h)
    <3> HIDE DEF kept
    <3>5. kept = Append(pass[p].kept, Head(pass[p].todo)) /\ Resumed(p, kept, pass[p].processed, state)
      BY <3>1, <3>3 DEF kept
    <3> QED  BY <2>1, <2>3, <3>4, <3>5, ResumeExplained
  <2> QED  BY <1>3, <2>4, <2>5, FailsFacts
<1>4. CASE Cleanup(p)
  <2>1. /\ pass[p].at = "cleanup" /\ pass' = [pass EXCEPT ![p] = IdlePass]
        /\ UNCHANGED <<stage, queue, served, reasons>>
    BY <1>4 DEF Cleanup, CleanupRows, history
  <2>2. pass'[p] = IdlePass /\ \A r \in Passes : r # p => pass'[r] = pass[r]
    BY <1>1, <2>1
  <2>3. Copies(a)' = Copies(a) /\ Live(a)' = Live(a)
    BY <2>1, <2>2, NothingHeld DEF Copies, Live, Held
  <2>4. Sends(a)' = Sends(a)
    BY <2>1, <2>3 DEF Sends
  <2> QED  BY <2>1, <2>4 DEF Explained
<1> QED  BY <1>2, <1>3, <1>4, ExecuteExplained DEF PassStep

\* The action of an object that a pass holds is one the pass holds.
LEMMA HeldIsHolds ==
  ASSUME QueueSound, NEW r \in Passes, NEW object \in Held(r)
  PROVE  object.id \in Holds(r)
<1>1. pass[r].kept \in Seq(SyncAction) /\ pass[r].todo \in Seq(SyncAction)
  BY DEF QueueSound, TypeOK
<1>2. ToSet(pass[r].kept \o pass[r].todo) = ToSet(pass[r].kept) \cup ToSet(pass[r].todo)
  BY <1>1, ToSetConcat
<1> QED  BY <1>2 DEF Held, Holds, Ids

\* Both passes copy the array: its objects can be sent twice, and are not counted in it any more.
LEMMA CountTwice ==
  ASSUME NEW C, NEW T, NEW D, NEW p, NEW q, IsFiniteSet(C), IsFiniteSet(T),
         D \subseteq C \cup ({p} \X T) \cup ({q} \X T)
  PROVE  Cardinality(D) <= Cardinality(C) + 2 * Cardinality(T) /\ Cardinality(T) \in Nat
<1> DEFINE one == {p} \X T
           two == {q} \X T
<1>1. Cardinality(C) \in Nat /\ Cardinality(T) \in Nat
  BY FS_CardinalityType
<1>2. ASSUME NEW r PROVE IsFiniteSet({r} \X T) /\ Cardinality({r} \X T) = Cardinality(T)
  <2>1. IsFiniteSet({r}) /\ Cardinality({r}) = 1
    BY FS_Singleton
  <2>2. IsFiniteSet({r} \X T) /\ Cardinality({r} \X T) = Cardinality({r}) * Cardinality(T)
    BY <2>1, FS_Product
  <2> QED  BY <1>1, <2>1, <2>2
<1>3. IsFiniteSet(one) /\ Cardinality(one) = Cardinality(T) /\ IsFiniteSet(two) /\ Cardinality(two) = Cardinality(T)
  BY <1>2
<1> HIDE DEF one, two
<1>4. IsFiniteSet(C \cup one) /\ Cardinality(C \cup one) <= Cardinality(C) + Cardinality(T) /\ Cardinality(C \cup one) \in Nat
  <2>1. IsFiniteSet(C \cup one) /\ Cardinality(C \cup one) = Cardinality(C) + Cardinality(one) - Cardinality(C \cap one)
    BY <1>3, FS_Union
  <2>2. Cardinality(C \cap one) \in Nat /\ Cardinality(C \cup one) \in Nat
    BY <2>1, FS_Intersection, FS_CardinalityType
  <2> QED  BY <1>1, <1>3, <2>1, <2>2
<1>5. /\ IsFiniteSet((C \cup one) \cup two) /\ Cardinality((C \cup one) \cup two) \in Nat
      /\ Cardinality((C \cup one) \cup two) <= Cardinality(C \cup one) + Cardinality(T)
  <2>1. /\ IsFiniteSet((C \cup one) \cup two)
        /\ Cardinality((C \cup one) \cup two) = Cardinality(C \cup one) + Cardinality(two) - Cardinality((C \cup one) \cap two)
    BY <1>3, <1>4, FS_Union
  <2>2. Cardinality((C \cup one) \cap two) \in Nat /\ Cardinality((C \cup one) \cup two) \in Nat
    BY <1>4, <2>1, FS_Intersection, FS_CardinalityType
  <2> QED  BY <1>1, <1>3, <1>4, <2>1, <2>2
<1>6. D \in SUBSET ((C \cup one) \cup two)
  BY DEF one, two
<1>7. Cardinality(D) <= Cardinality((C \cup one) \cup two) /\ Cardinality(D) \in Nat
  BY <1>5, <1>6, FS_Subset, FS_CardinalityType
<1> QED  BY <1>1, <1>4, <1>5, <1>7

\* The objects of an action in the array are no more than the entries the passes count.
LEMMA EntriesCounted ==
  ASSUME QueueSound, NEW a \in Actions
  PROVE  LET here == {object \in ToSet(queue) : object.id = a}
         IN  /\ IsFiniteSet(here) /\ Cardinality(here) \in Nat /\ Cardinality(Entries(a)) \in Nat
             /\ Cardinality(here) <= Cardinality(Entries(a))
<1> DEFINE here == {object \in ToSet(queue) : object.id = a}
           entry == [i \in Entries(a) |-> queue[i]]
<1>1. DOMAIN queue = 1 .. Len(queue) /\ Len(queue) \in Nat
  BY DEF QueueSound, TypeOK
<1>2. IsFiniteSet(DOMAIN queue)
  BY <1>1, FS_Interval
<1>3. IsFiniteSet(Entries(a)) /\ Cardinality(Entries(a)) \in Nat
  <2>1. Entries(a) \subseteq DOMAIN queue
    BY DEF Entries
  <2> QED  BY <1>2, <2>1, FS_Subset, FS_CardinalityType
<1>4. entry \in Surjection(Entries(a), here)
  <2>1. entry \in [Entries(a) -> here]
    BY DEF Entries, ToSet
  <2>2. \A object \in here : \E i \in Entries(a) : entry[i] = object
    BY DEF Entries, ToSet
  <2> QED  BY <2>1, <2>2 DEF Surjection
<1> HIDE DEF here, entry
<1>5. IsFiniteSet(here) /\ Cardinality(here) <= Cardinality(Entries(a))
  BY <1>3, <1>4, FS_Surjection
<1>6. Cardinality(here) \in Nat
  BY <1>5, FS_CardinalityType
<1> QED  BY <1>3, <1>5, <1>6 DEF here

\* A return of the app to the foreground gives as many reasons as it starts requests: two passes
\* start with every object of the array, one of which the array stood for unless a pass that is
\* under way holds the action.
LEMMA ForegroundExplained ==
  ASSUME QueueSound, QueueSound', NEW p \in Passes, NEW q \in Passes, Foreground(p, q),
         NEW a \in Actions, Explained(a)
  PROVE  Explained(a)'
<1> DEFINE here == {object \in ToSet(queue) : object.id = a}
           m == Cardinality(Entries(a))
           k == Cardinality(Others(a, {q}))
<1>1. /\ p # q /\ pass[p].at = "idle" /\ pass[q].at = "idle" /\ UNCHANGED <<stage, served>>
      /\ DOMAIN pass = Passes /\ reasons[a] \in Int /\ reasons'[a] \in Int /\ queue \in Seq(SyncAction)
  BY ForegroundFacts DEF QueueSound, TypeOK
<1>2. PICK state :
        \/ /\ pass' = [pass EXCEPT ![p] = state, ![q] = state] /\ queue' = queue
           /\ state.at = "call" /\ state.kept = <<>> /\ ~state.reached
           /\ ToSet(state.todo) \subseteq ToSet(queue)
           /\ \A object \in ToSet(queue) : object \in ToSet(state.todo) \/ object.id \in state.processed
        \/ /\ pass' = [pass EXCEPT ![p] = state, ![q] = IdlePass] /\ queue' = <<>>
           /\ state.at = "cleanup" /\ state.kept = <<>> /\ state.todo = <<>>
  BY ForegroundFacts
<1>3. /\ IsFiniteSet(here) /\ Cardinality(here) \in Nat /\ m \in Nat /\ Cardinality(here) <= m
  BY EntriesCounted
<1>4. /\ One(stage'[a] # "added") = One(stage[a] # "added") /\ One(stage[a] # "added") \in Nat
      /\ One(a \notin served)' = One(a \notin served) /\ One(a \notin served) \in Nat
      /\ Sends(a)' = Cardinality(Copies(a)') + Cardinality(Live(a)') + One(stage'[a] # "added")
  BY <1>1 DEF One, Sends
<1> HIDE DEF here, m, k
<1>5. CASE /\ pass' = [pass EXCEPT ![p] = state, ![q] = state] /\ queue' = queue
           /\ state.at = "call" /\ state.kept = <<>> /\ ~state.reached
           /\ ToSet(state.todo) \subseteq ToSet(queue)
           /\ \A object \in ToSet(queue) : object \in ToSet(state.todo) \/ object.id \in state.processed
  <2>1. pass'[p] = state /\ pass'[q] = state /\ \A r \in Passes : r # p /\ r # q => pass'[r] = pass[r]
    BY <1>1, <1>5
  <2>2. Live(a)' = {}
    <3> SUFFICES ASSUME NEW object \in Live(a)' PROVE FALSE
      OBVIOUS
    <3>1. object.id = a /\ object \in ToSet(queue) /\ object \notin ToSet(state.todo) /\ a \notin state.processed
      BY <1>5, <2>1 DEF Live, Held
    <3> QED  BY <1>5, <3>1
  <2>3. Copies(a)' \subseteq Copies(a) \cup ({p} \X here) \cup ({q} \X here)
    <3> SUFFICES ASSUME NEW r \in Passes, NEW object \in SyncAction, <<r, object>> \in Copies(a)'
                 PROVE  <<r, object>> \in Copies(a) \cup ({p} \X here) \cup ({q} \X here)
      BY DEF Copies
    <3>1. CASE r # p /\ r # q
      BY <2>1, <3>1 DEF Copies, Held
    <3>2. CASE r = p \/ r = q
      <4>1. object.id = a /\ object \in ToSet(state.kept) \cup ToSet(state.todo)
        BY <2>1, <3>2 DEF Copies, Held
      <4>2. object \in here
        BY <1>5, <4>1, NothingHeld DEF here
      <4> QED  BY <3>2, <4>2
    <3> QED  BY <3>1, <3>2
  <2>4. Cardinality(Copies(a)') <= Cardinality(Copies(a)) + 2 * Cardinality(here)
    BY <1>3, <2>3, CountTwice, SendsCounted
  <2>5. reasons'[a] = reasons[a] + m * k \/ reasons'[a] = MostCopies
    BY <1>5, <2>1, ForegroundReasons DEF m, k
  <2>6. IsFiniteSet(Others(a, {q})) /\ k \in Nat /\ q \in Others(a, {q})
    <3>1. Others(a, {q}) \subseteq Passes
      BY DEF Others
    <3>2. IsFiniteSet(Others(a, {q}))
      BY <3>1, FS_Subset, BoundsAreNumbers
    <3> QED  BY <3>2, FS_CardinalityType DEF Others, k
  <2>7. 2 * Cardinality(here) <= Cardinality(Live(a)) + m * k
    <3>1. CASE \E r \in Passes : r # q /\ r \in Others(a, {q})
      <4>1. PICK r \in Passes : r # q /\ r \in Others(a, {q})
        BY <3>1
      <4>2. Cardinality({r, q}) = 2
        <5>1. IsFiniteSet({r}) /\ Cardinality({r}) = 1
          BY FS_Singleton
        <5>2. Cardinality({r} \cup {q}) = Cardinality({r}) + 1
          BY <4>1, <5>1, FS_AddElement
        <5>3. {r} \cup {q} = {r, q}
          OBVIOUS
        <5> QED  BY <5>1, <5>2, <5>3
      <4>3. {r, q} \in SUBSET Others(a, {q})
        BY <2>6, <4>1
      <4>4. k >= 2
        BY <2>6, <4>2, <4>3, FS_Subset DEF k
      <4>5. m * k >= m * 2
        BY <1>3, <2>6, <4>4
      <4> QED  BY <1>3, <2>6, <4>5, SendsCounted
    <3>2. CASE \A r \in Passes : r # q => r \notin Others(a, {q})
      <4>1. here \subseteq Live(a)
        <5> SUFFICES ASSUME NEW object \in here PROVE object \in Live(a)
          OBVIOUS
        <5>1. object \in SyncAction /\ object.id = a /\ object \in ToSet(queue)
          BY <1>1 DEF here, ToSet
        <5>2. ASSUME NEW r \in Passes, pass[r].at = "call" PROVE object \notin Held(r) /\ a \notin pass[r].processed
          <6>1. a \notin Holds(r)
            BY <1>1, <3>2, <5>2 DEF Others, Active
          <6> QED  BY <5>1, <6>1, HeldIsHolds DEF Holds
        <5> QED  BY <5>1, <5>2 DEF Live
      <4>2. Cardinality(here) <= Cardinality(Live(a))
        BY <4>1, FS_Subset, SendsCounted
      <4>3. k >= 1
        <5>1. {q} \in SUBSET Others(a, {q})
          BY <2>6
        <5>2. Cardinality({q}) = 1 /\ Cardinality({q}) <= Cardinality(Others(a, {q}))
          BY <2>6, <5>1, FS_Subset, FS_Singleton
        <5> QED  BY <5>2 DEF k
      <4>4. m * k >= m
        BY <1>3, <2>6, <4>3
      <4>5. m * k \in Nat
        BY <1>3, <2>6
      <4> QED  BY <1>3, <4>2, <4>4, <4>5, SendsCounted
    <3> QED  BY <3>1, <3>2
  <2>8. Cardinality(Live(a)') = 0
    BY <2>2, FS_EmptySet
  <2>9. PICK more \in Nat : more = m * k
    BY <1>3, <2>6
  <2>10. Sends(a)' + One(a \notin served) <= Sends(a) + more + One(a \notin served)'
    BY <1>3, <1>4, <2>4, <2>7, <2>8, <2>9, SendsCounted DEF Sends
  <2>11. reasons'[a] >= reasons[a] + more \/ reasons'[a] = MostCopies
    BY <1>1, <2>5, <2>9
  <2> QED  BY <1>1, <2>10, <2>11, ExplainedBy
<1>6. CASE /\ pass' = [pass EXCEPT ![p] = state, ![q] = IdlePass] /\ queue' = <<>>
           /\ state.at = "cleanup" /\ state.kept = <<>> /\ state.todo = <<>>
  <2>1. pass'[p] = state /\ pass'[q] = IdlePass /\ \A r \in Passes : r # p /\ r # q => pass'[r] = pass[r]
    BY <1>1, <1>6
  <2>2. Copies(a)' = Copies(a)
    BY <1>1, <1>6, <2>1, NothingHeld DEF Copies, Held
  <2>3. Live(a)' = {} /\ Cardinality(Live(a)') = 0
    BY <1>6, NothingHeld, FS_EmptySet DEF Live
  <2>4. reasons'[a] >= reasons[a] + 0 \/ reasons'[a] = MostCopies
    <3>1. reasons'[a] >= reasons[a] \/ reasons'[a] = MostCopies
      BY ForegroundReasons
    <3> QED  BY <1>1, <3>1
  <2>5. Sends(a)' + One(a \notin served) <= Sends(a) + 0 + One(a \notin served)'
    BY <1>4, <2>2, <2>3, SendsCounted DEF Sends
  <2> QED  BY <1>1, <2>4, <2>5, ExplainedBy
<1> QED  BY <1>2, <1>5, <1>6

\* A load brings an action into the array again only with a reason.
LEMMA StoreExplained ==
  ASSUME QueueSound, QueueSound', NEW snapshot \in loading, StoreQueue(snapshot), NEW a \in Actions, Explained(a)
  PROVE  Explained(a)'
<1> DEFINE repeated == {b \in snapshot.rows : \/ stage[b] # "added" \/ b \in served
                                           \/ \E p \in Passes : b \in Holds(p)}
           new == [id |-> a, load |-> snapshot.load]
<1>1. UNCHANGED <<stage, pass, served>> /\ Excuse(Once(repeated))
  BY DEF StoreQueue
<1>2. reasons \in [Actions -> Int] /\ reasons'[a] \in Int /\ reasons[a] \in Int
  BY DEF QueueSound, TypeOK
<1>3. reasons'[a] = reasons[a] + Once(repeated)[a] \/ reasons'[a] = MostCopies
  BY <1>1, <1>2, OnceIsCount, ExcuseFacts
<1>4. Once(repeated)[a] = IF a \in repeated THEN 1 ELSE 0
  BY OnceIsCount
<1>5. \A object \in ToSet(queue') : object.id \in snapshot.rows /\ object = [id |-> object.id, load |-> snapshot.load]
  BY StoreFacts
<1>6. Live(a)' \subseteq IF a \in snapshot.rows THEN {new} ELSE {}
  BY <1>5 DEF Live
<1>7. Copies(a)' = Copies(a)
  BY <1>1 DEF Copies, Held
<1>8. /\ One(stage'[a] # "added") = One(stage[a] # "added") /\ One(stage[a] # "added") \in Nat
      /\ One(a \notin served)' = One(a \notin served) /\ One(a \notin served) \in Nat
      /\ Sends(a)' = Cardinality(Copies(a)') + Cardinality(Live(a)') + One(stage'[a] # "added")
  BY <1>1 DEF One, Sends
<1> HIDE DEF new
<1>9. Cardinality(Live(a)') <= 1
  <2>1. Live(a)' \in SUBSET {new}
    BY <1>6
  <2>2. IsFiniteSet({new}) /\ Cardinality({new}) = 1
    BY FS_Singleton
  <2> QED  BY <2>1, <2>2, FS_Subset
<1>10. CASE a \in repeated
  <2>1. reasons'[a] >= reasons[a] + 1 \/ reasons'[a] = MostCopies
    BY <1>2, <1>3, <1>4, <1>10
  <2>2. Sends(a)' + One(a \notin served) <= Sends(a) + 1 + One(a \notin served)'
    BY <1>7, <1>8, <1>9, SendsCounted DEF Sends
  <2> QED  BY <1>2, <2>1, <2>2, ExplainedBy
<1>11. CASE a \notin snapshot.rows
  <2>1. a \notin repeated /\ Cardinality(Live(a)') = 0
    BY <1>6, <1>11, FS_EmptySet
  <2>2. reasons'[a] >= reasons[a] + 0 \/ reasons'[a] = MostCopies
    BY <1>2, <1>3, <1>4, <2>1
  <2>3. Sends(a)' + One(a \notin served) <= Sends(a) + 0 + One(a \notin served)'
    BY <1>7, <1>8, <2>1, SendsCounted DEF Sends
  <2> QED  BY <1>2, <2>2, <2>3, ExplainedBy
<1>12. CASE a \in snapshot.rows /\ a \notin repeated
  <2>1. stage[a] = "added" /\ a \notin served /\ \A p \in Passes : a \notin Holds(p)
    BY <1>12
  <2>2. Copies(a) = {} /\ Cardinality(Copies(a)) = 0
    BY <2>1, HeldIsHolds, FS_EmptySet DEF Copies
  <2>3. Sends(a)' <= 1
    BY <1>7, <1>8, <1>9, <2>1, <2>2, SendsCounted DEF One
  <2>4. reasons'[a] = reasons[a] \/ reasons'[a] = MostCopies
    BY <1>2, <1>3, <1>4, <1>12
  <2>5. reasons'[a] >= 0
    BY <1>2, <2>4, BoundsAreNumbers DEF Explained
  <2>6. One(a \notin served)' = 1
    BY <1>1, <2>1 DEF One
  <2>7. reasons'[a] + One(a \notin served)' >= Sends(a)'
    BY <1>2, <2>3, <2>5, <2>6, SendsCounted
  <2> QED  BY <2>5, <2>7 DEF Explained
<1> QED  BY <1>10, <1>11, <1>12

\* Every step keeps each further request explained.
LEMMA ExplainedKeeps ==
  ASSUME QueueSound, [Next]_vars, NEW a \in Actions, Explained(a) PROVE Explained(a)'
<1>1. QueueSound'
  BY QueueKeeps
<1>2. ASSUME UNCHANGED <<stage, queue, pass, served, reasons>> PROVE Explained(a)'
  BY <1>2, SendsStay DEF Explained, Sends
<1>3. ASSUME NEW b \in Actions, SubmitCompletion(b) \/ AnswerItem(b) \/ CreateRow(b) \/ AppendAction(b)
      PROVE  Explained(a)'
  BY <1>1, <1>3, AddExplained, AppendExplained
<1>4. ASSUME NEW p \in Passes, NEW q \in Passes, Foreground(p, q) PROVE Explained(a)'
  BY <1>1, <1>4, ForegroundExplained
<1>5. ASSUME NEW p \in Passes, PassStep(p) PROVE Explained(a)'
  BY <1>1, <1>5, PassExplained
<1>6. ASSUME FetchRows PROVE Explained(a)'
  BY <1>2, <1>6 DEF FetchRows, memory, history
<1>7. ASSUME NEW snapshot \in loading, StoreQueue(snapshot) PROVE Explained(a)'
  BY <1>1, <1>7, StoreExplained
<1>8. ASSUME Restart PROVE Explained(a)'
  <2>1. /\ queue' = <<>> /\ pass' = [p \in Passes |-> IdlePass] /\ UNCHANGED <<served, reasons>>
        /\ stage' = [b \in Actions |-> IF stage[b] = "new" THEN "new" ELSE "added"]
        /\ reasons[a] \in Int
    BY <1>8 DEF Restart, history, QueueSound, TypeOK
  <2>2. Copies(a)' = {} /\ Live(a)' = {}
    BY <2>1, NothingHeld DEF Copies, Live
  <2>3. One(stage'[a] # "added") <= One(stage[a] # "added")
    BY <2>1 DEF One
  <2>4. /\ One(stage'[a] # "added") \in Nat /\ One(stage[a] # "added") \in Nat
        /\ One(a \notin served)' = One(a \notin served) /\ One(a \notin served) \in Nat
        /\ Sends(a)' = Cardinality(Copies(a)') + Cardinality(Live(a)') + One(stage'[a] # "added")
    BY <2>1 DEF One, Sends
  <2>5. Sends(a)' + One(a \notin served) <= Sends(a) + 0 + One(a \notin served)'
    BY <2>2, <2>3, <2>4, SendsCounted, FS_EmptySet DEF Sends
  <2>6. reasons'[a] >= reasons[a] + 0 /\ reasons'[a] \in Int
    BY <2>1
  <2> QED  BY <2>1, <2>5, <2>6, ExplainedBy
<1>9. CASE UNCHANGED vars
  BY <1>2, <1>9 DEF vars
<1> QED
  BY <1>3, <1>4, <1>5, <1>6, <1>7, <1>8, <1>9 DEF Next

AllExplained == \A a \in Actions : Explained(a)

\* There are always reasons enough for all the requests that passes, array and addToQueue may
\* still send.
THEOREM SendsAreExplained == Spec => []AllExplained
<1>1. Init => AllExplained
  <2> SUFFICES ASSUME Init, NEW a \in Actions PROVE Explained(a)
    BY DEF AllExplained
  <2>1. Copies(a) = {} /\ Live(a) = {} /\ a \notin served /\ stage[a] = "new" /\ reasons[a] = 0
    BY NothingHeld DEF Init, Copies, Live
  <2>2. Sends(a) = 1
    BY <2>1, FS_EmptySet DEF Sends, One
  <2> QED  BY <2>1, <2>2 DEF Explained, One
<1>2. AllExplained /\ QueueSound /\ [Next]_vars => AllExplained'
  BY ExplainedKeeps DEF AllExplained
<1> QED  BY <1>1, <1>2, QueueIsSound, PTL DEF Spec

\* Each execution of an action beyond the first has a reason of its own: an answer that was lost,
\* two passes with the action at once, or a load that brought it back.
THEOREM ActionDuplicatesAreExplained == Spec => []DuplicatesExplained
<1>1. AllExplained => DuplicatesExplained
  BY DEF AllExplained, Explained, DuplicatesExplained
<1> QED  BY <1>1, SendsAreExplained, PTL
-----------------------------------------------------------------------------
(* The differential sync *)

SyncFields == {"at", "todo", "failed", "batch", "attempt", "owed"}

\* The entities are pulled in their order, work orders first, and while they are still
\* to be pulled they count as changed.
PullOrdered ==
    /\ DOMAIN sync = SyncFields
    /\ Syncing => status = "syncing"
    /\ sync.at = "pull" => sync.todo \in {Entities, Tail(Entities)}
    /\ sync.at = "pull" /\ sync.todo = Entities => "work_orders" \in changed

BeforeOrders == sync.at = "pull" /\ sync.todo = Entities

\* Once they were pulled, their changes were sent, or an error counts.
OrdersPulled == Syncing /\ ~BeforeOrders => sync.failed \/ "work_orders" \notin sync.owed

PullSound == PullOrdered /\ OrdersPulled

\* The two entities and what is left of them after one.
LEMMA TwoEntities ==
  /\ Head(Entities) = "work_orders"
  /\ Head(Tail(Entities)) = "devices"
  /\ Tail(Entities) # <<>> /\ Tail(Entities) # Entities /\ Tail(Tail(Entities)) = <<>>
  /\ "work_orders" \in ToSet(Entities)
BY DEF Entities, ToSet

\* Nothing is owed by a sync that has ended.
LEMMA EndKeeps == ASSUME EndSync PROVE PullSound'
BY DEF EndSync, NoSync, PullSound, PullOrdered, OrdersPulled, BeforeOrders, Syncing, SyncFields

\* A sync that goes on after the pull phase keeps what it has pulled.
LEMMA GotoKeeps ==
  ASSUME PullSound, NEW next, Goto(next), Syncing, sync.at # "pull",
         DOMAIN next = SyncFields, next.at # "pull",
         next.failed = sync.failed, next.owed = sync.owed
  PROVE  PullSound'
BY DEF Goto, PullSound, PullOrdered, OrdersPulled, BeforeOrders, Syncing

\* One entity was pulled: work orders leave owed, unless that failed.
LEMMA PulledKeeps ==
  ASSUME PullSound, sync.at = "pull", NEW failed, NEW owed, Pulled(failed, owed),
         status' = status, failed => failed = TRUE,
         BeforeOrders => failed \/ "work_orders" \notin owed,
         owed \subseteq sync.owed
  PROVE  PullSound'
<1>1. /\ DOMAIN sync' = SyncFields /\ sync'.owed = owed
      /\ sync'.todo = Tail(sync.todo)
      /\ sync'.failed = (sync.failed \/ failed)
      /\ sync'.at = IF Tail(sync.todo) = <<>> THEN "collect" ELSE "pull"
  BY DEF Pulled, PullSound, PullOrdered, SyncFields
<1>2. status' = "syncing"
  BY DEF PullSound, PullOrdered, Syncing
<1>3. CASE sync.todo = Entities
  BY <1>1, <1>2, <1>3, TwoEntities DEF PullSound, PullOrdered, OrdersPulled, BeforeOrders, Syncing
<1>4. CASE sync.todo = Tail(Entities)
  BY <1>1, <1>2, <1>4, TwoEntities DEF PullSound, PullOrdered, OrdersPulled, BeforeOrders, Syncing
<1> QED  BY <1>3, <1>4 DEF PullSound, PullOrdered

\* Every step keeps the order of the pulls and what they achieved.
LEMMA PullKeeps == ASSUME PullSound, [DeltaNext]_deltaVars PROVE PullSound'
<1>1. ASSUME UNCHANGED <<sync, status>>, changed \subseteq changed' PROVE PullSound'
  BY <1>1 DEF PullSound, PullOrdered, OrdersPulled, BeforeOrders, Syncing
<1>2. ASSUME NEW e, ServerChange(e) PROVE PullSound'
  <2>1. UNCHANGED <<sync, status>> /\ changed \subseteq changed'
    BY <1>2 DEF ServerChange, Change
  <2> QED  BY <1>1, <2>1
<1>3. ASSUME NEW m, Edit(m) PROVE PullSound'
  BY <1>1, <1>3 DEF Edit, server
<1>4. CASE PushStep
  <2>1. UNCHANGED <<sync, status>>
    BY <1>4 DEF PushStep, PushFetches, PushSucceeds, PushFails, PushRemoves, PushCounts, PushThrows
  <2>2. changed \subseteq changed'
    BY <1>4 DEF PushStep, PushFetches, PushSucceeds, PushFails, PushRemoves, PushCounts, PushThrows, Change, server
  <2> QED  BY <1>1, <2>1, <2>2
<1>5. CASE StartSync
  BY <1>5, TwoEntities
     DEF StartSync, NoSync, SyncFields, PullSound, PullOrdered, OrdersPulled, BeforeOrders, Syncing
<1>6. CASE PullEntity
  <2>1. sync.at = "pull" /\ status' = status
    BY <1>6 DEF PullEntity
  <2> DEFINE e == Head(sync.todo)
  <2>2. BeforeOrders => e = "work_orders" /\ e \in changed
    BY TwoEntities DEF PullSound, PullOrdered, BeforeOrders
  <2> DEFINE owed == IF e \in changed THEN sync.owed \ {e} ELSE sync.owed
  <2>3. Pulled(FALSE, owed) /\ owed \subseteq sync.owed /\ (BeforeOrders => "work_orders" \notin owed)
    BY <1>6, <2>2 DEF PullEntity
  <2> HIDE DEF owed
  <2> QED  BY <2>1, <2>3, PulledKeeps
<1>7. CASE PullFails
  <2>1. sync.at = "pull" /\ status' = status /\ Pulled(TRUE, sync.owed)
    BY <1>7 DEF PullFails, PullFailsCounting
  <2> QED  BY <2>1, PulledKeeps
<1>8. CASE Collect
  <2>1. CASE EndSync
    BY <2>1, EndKeeps
  <2>2. CASE Goto([sync EXCEPT !.at = "diff", !.batch = pending])
    <3> DEFINE next == [sync EXCEPT !.at = "diff", !.batch = pending]
    <3>1. /\ DOMAIN next = SyncFields /\ next.at = "diff"
          /\ next.failed = sync.failed /\ next.owed = sync.owed
      BY DEF PullSound, PullOrdered, SyncFields
    <3>2. Goto(next) /\ sync.at = "collect" /\ Syncing
      BY <1>8, <2>2 DEF Collect, Syncing
    <3> HIDE DEF next
    <3> QED  BY <3>1, <3>2, GotoKeeps
  <2> QED  BY <1>8, <2>1, <2>2 DEF Collect
<1>9. CASE Resolve
  <2>1. CASE EndSync
    BY <2>1, EndKeeps
  <2>2. ASSUME NEW resolved, Goto([sync EXCEPT !.at = "apply", !.batch = resolved]) PROVE PullSound'
    <3> DEFINE next == [sync EXCEPT !.at = "apply", !.batch = resolved]
    <3>1. /\ DOMAIN next = SyncFields /\ next.at = "apply"
          /\ next.failed = sync.failed /\ next.owed = sync.owed
      BY DEF PullSound, PullOrdered, SyncFields
    <3>2. Goto(next) /\ sync.at = "diff" /\ Syncing
      BY <1>9, <2>2 DEF Resolve, Syncing
    <3> HIDE DEF next
    <3> QED  BY <3>1, <3>2, GotoKeeps
  <2> QED  BY <1>9, <2>1, <2>2 DEF Resolve
<1>10. CASE DiffFails
  BY <1>10, EndKeeps DEF DiffFails
<1>11. CASE ApplySucceeds
  <2> DEFINE next == [sync EXCEPT !.at = "remove"]
  <2>1. /\ DOMAIN next = SyncFields /\ next.at = "remove"
        /\ next.failed = sync.failed /\ next.owed = sync.owed
    BY DEF PullSound, PullOrdered, SyncFields
  <2>2. Goto(next) /\ sync.at = "apply" /\ Syncing
    BY <1>11 DEF ApplySucceeds, Syncing
  <2> HIDE DEF next
  <2> QED  BY <2>1, <2>2, GotoKeeps
<1>12. CASE ApplyFails
  <2>1. CASE EndSync
    BY <2>1, EndKeeps
  <2>2. CASE Goto([sync EXCEPT !.attempt = sync.attempt + 1])
    <3> DEFINE next == [sync EXCEPT !.attempt = sync.attempt + 1]
    <3>1. /\ DOMAIN next = SyncFields /\ next.at = "apply"
          /\ next.failed = sync.failed /\ next.owed = sync.owed
      BY <1>12 DEF ApplyFails, FailsThen, PullSound, PullOrdered, SyncFields
    <3>2. Goto(next) /\ sync.at = "apply" /\ Syncing
      BY <1>12, <2>2 DEF ApplyFails, FailsThen, Syncing
    <3> HIDE DEF next
    <3> QED  BY <3>1, <3>2, GotoKeeps
  <2> QED  BY <1>12, <2>1, <2>2 DEF ApplyFails, FailsThen
<1>13. CASE RemoveRow \/ RemoveFails
  <2>1. sync.at = "remove" /\ Confirmed
    BY <1>13 DEF RemoveRow, RemovingTo, RemoveFails
  <2>2. CASE EndSync
    BY <2>2, EndKeeps
  <2>3. CASE Goto([sync EXCEPT !.batch = Tail(sync.batch)])
    <3> DEFINE next == [sync EXCEPT !.batch = Tail(sync.batch)]
    <3>1. /\ DOMAIN next = SyncFields /\ next.at = "remove"
          /\ next.failed = sync.failed /\ next.owed = sync.owed
      BY <2>1 DEF PullSound, PullOrdered, SyncFields
    <3>2. Goto(next) /\ sync.at = "remove" /\ Syncing
      BY <2>1, <2>3 DEF Syncing
    <3> HIDE DEF next
    <3> QED  BY <3>1, <3>2, GotoKeeps
  <2> QED  BY <2>1, <2>2, <2>3 DEF Confirmed
<1>14. CASE TurnIdle
  <2>1. UNCHANGED <<sync, changed>> /\ status = "success"
    BY <1>14 DEF TurnIdle, server
  <2>2. ~Syncing
    BY <2>1 DEF PullSound, PullOrdered
  <2> QED  BY <2>1, <2>2 DEF PullSound, PullOrdered, OrdersPulled, BeforeOrders, Syncing
<1>15. CASE Kill
  BY <1>15 DEF Kill, NoSync, SyncFields, PullSound, PullOrdered, OrdersPulled, BeforeOrders, Syncing
<1>16. CASE UNCHANGED deltaVars
  BY <1>1, <1>16 DEF deltaVars
<1> QED  BY <1>2, <1>3, <1>4, <1>5, <1>6, <1>7, <1>8, <1>9, <1>10, <1>11, <1>12, <1>13, <1>14, <1>15, <1>16
            DEF DeltaNext, SyncStep

\* A sync ends with "success" only in EndSync, where no error was counted.
LEMMA SuccessIsEarned ==
  ASSUME PullSound, [DeltaNext]_deltaVars, Ends, status' = "success"
  PROVE  "work_orders" \notin sync.owed
<1>1. status = "syncing" /\ Syncing
  BY DEF Ends, PullSound, PullOrdered
<1>2. CASE UNCHANGED status
  BY <1>1, <1>2
<1>3. CASE EndSync /\ sync.at # "pull"
  <2>1. ~sync.failed
    BY <1>1, <1>3 DEF EndSync
  <2> QED  BY <1>1, <1>3, <2>1 DEF PullSound, OrdersPulled, BeforeOrders
<1>4. UNCHANGED status \/ (EndSync /\ sync.at # "pull")
  <2>1. ~StartSync /\ ~TurnIdle /\ ~Kill
    BY <1>1 DEF StartSync, TurnIdle, Kill
  <2>2. ASSUME NEW e, ServerChange(e) PROVE UNCHANGED status
    BY <2>2 DEF ServerChange
  <2>3. ASSUME NEW m, Edit(m) PROVE UNCHANGED status
    BY <2>3 DEF Edit
  <2>4. CASE PushStep \/ PullEntity \/ PullFails \/ UNCHANGED deltaVars
    BY <2>4 DEF PushStep, PushFetches, PushSucceeds, PushFails, PushRemoves, PushCounts, PushThrows,
                PullEntity, PullFails, PullFailsCounting, deltaVars
  <2>5. CASE Collect \/ Resolve \/ DiffFails
    BY <2>5 DEF Collect, Resolve, DiffFails, Goto
  <2>6. CASE ApplySucceeds \/ ApplyFails
    BY <2>6 DEF ApplySucceeds, ApplyFails, FailsThen, Goto
  <2>7. CASE RemoveRow \/ RemoveFails
    BY <2>7 DEF RemoveRow, RemovingTo, RemoveFails, Confirmed, Goto
  <2> QED  BY <2>1, <2>2, <2>3, <2>4, <2>5, <2>6, <2>7 DEF DeltaNext, SyncStep
<1> QED  BY <1>2, <1>3, <1>4

\* What a sync has pulled, in every reachable state.
THEOREM PullIsSound == DeltaSpec => []PullSound
<1>1. DeltaInit => PullSound
  BY DEF DeltaInit, NoSync, SyncFields, PullSound, PullOrdered, OrdersPulled, BeforeOrders, Syncing
<1>2. PullSound /\ [DeltaNext]_deltaVars => PullSound'
  BY PullKeeps
<1> QED  BY <1>1, <1>2, PTL DEF DeltaSpec

\* A sync that reports success was sent whatever had changed of the work orders before it
\* started, whatever failed, changed or was killed meanwhile.
THEOREM OrdersAreCurrent == DeltaSpec => WorkOrdersCurrent
<1>1. PullSound /\ [DeltaNext]_deltaVars =>
          [(Ends /\ status' = "success") => "work_orders" \notin sync.owed]_deltaVars
  BY SuccessIsEarned
<1> QED  BY PullIsSound, <1>1, PTL DEF DeltaSpec, WorkOrdersCurrent


-----------------------------------------------------------------------------
(* The table the differential sync and SyncService empty together.  As long *)
(* as no row went out of its order (shifted), the batch is what the table   *)
(* begins with.                                                             *)

\* The rows are mutations that were made, each once, and their failures are counted.
RowsOnce ==
    /\ made \subseteq Mutations
    /\ pending \in Seq(made)
    /\ \A i, j \in DOMAIN pending : pending[i] = pending[j] => i = j
    /\ retries \in [Mutations -> 0 .. MaxRetries]

\* The server executed only what was made.
ExecutedMade ==
    /\ applied \in [Mutations -> 0 .. 2]
    /\ \A m \in Mutations : applied[m] > 0 => m \in made

\* The table begins with the batch, of which nothing is removed before it was sent.
BatchFirst ==
    /\ Batched => /\ sync.batch \in Seq(made)
                  /\ Len(sync.batch) \in 1 .. Len(pending)
                  /\ \A i \in DOMAIN sync.batch : sync.batch[i] = pending[i]
    /\ sync.at = "remove" => \A m \in ToSet(sync.batch) : applied[m] > 0 \/ m \in refused

\* What SyncService fetched and has not handled: mutations that were made, each once.
Fetched == ToSet(other.todo)

FetchedSound ==
    /\ DOMAIN other = {"at", "todo"}
    /\ other.todo \in Seq(made)
    /\ \A i, j \in DOMAIN other.todo : other.todo[i] = other.todo[j] => i = j
    /\ other.at = "none" <=> other.todo = <<>>

\* A row is removed for a reason; what SyncService has yet to send was not executed, or
\* something gave a reason to send it again, as both services having fetched its row does.
PushSound ==
    /\ other.at = "remove" => applied[Mutation] > 0 \/ Mutation \in skipped
    /\ other.at = "drop" => ~Stored \/ retries[Mutation] = MaxRetries
    /\ \A m \in Fetched : applied[m] > 0 => m \in again \/ (other.at = "remove" /\ m = Mutation)
    /\ Batched => \A m \in ToSet(sync.batch) : m \in Fetched => m \in again

\* Why a mutation that was executed may still be in the table.
MaySend(m) ==
    \/ m \in again
    \/ other.at = "remove" /\ m = Mutation
    \/ sync.at = "remove" /\ m \in ToSet(sync.batch)

\* Why a mutation that was made may be gone from it.
MayBeGone(m) == applied[m] > 0 \/ m \in refused \cup skipped \/ retries[m] = MaxRetries

TableSound ==
    /\ RowsOnce /\ ExecutedMade /\ BatchFirst /\ FetchedSound /\ PushSound
    /\ \A m \in made \ ToSet(pending) : MayBeGone(m)
    /\ \A m \in ToSet(pending) : applied[m] > 0 => MaySend(m)
    /\ \A m \in Mutations : applied[m] > 1 => m \in again

TableInv == shifted \/ TableSound

\* Taking one element out of a sequence moves those after it forward.
LEMMA RemoveAtFacts ==
  ASSUME NEW S, NEW s \in Seq(S), NEW i \in DOMAIN s
  PROVE  LET r == RemoveAt(s, i)
         IN  /\ r \in Seq(S) /\ Len(r) = Len(s) - 1
             /\ \A j \in 1 .. Len(r) : r[j] = IF j < i THEN s[j] ELSE s[j + 1]
<1> DEFINE a == SubSeq(s, 1, i - 1)
           b == SubSeq(s, i + 1, Len(s))
<1>1. Len(s) \in Nat /\ i \in 1 .. Len(s)
  OBVIOUS
<1>2. a \in Seq(S) /\ Len(a) = i - 1 /\ \A j \in 1 .. i - 1 : a[j] = s[j]
  BY <1>1
<1>3. b \in Seq(S) /\ Len(b) = Len(s) - i /\ \A j \in 1 .. Len(s) - i : b[j] = s[i + j]
  BY <1>1
<1> HIDE DEF a, b
<1>4. a \o b \in Seq(S) /\ Len(a \o b) = Len(a) + Len(b)
  <2>1. a \in Seq(S) /\ b \in Seq(S)
    BY <1>2, <1>3
  <2> QED  BY <2>1
<1>5. ASSUME NEW j \in 1 .. Len(s) - 1 PROVE (a \o b)[j] = IF j <= Len(a) THEN a[j] ELSE b[j - Len(a)]
  BY <1>1, <1>2, <1>3
<1>6. ASSUME NEW j \in 1 .. Len(s) - 1 PROVE (a \o b)[j] = IF j < i THEN s[j] ELSE s[j + 1]
  <2>1. CASE j < i
    BY <1>1, <1>2, <1>5, <2>1
  <2>2. CASE ~(j < i)
    <3> DEFINE k == j - (i - 1)
    <3>1. k \in 1 .. Len(s) - i /\ i + k = j + 1 /\ ~(j <= Len(a)) /\ j - Len(a) = k
      BY <1>1, <1>2, <2>2
    <3> HIDE DEF k
    <3>2. (a \o b)[j] = b[k]
      BY <1>5, <3>1
    <3>3. b[k] = s[j + 1]
      BY <1>3, <3>1
    <3> QED  BY <2>2, <3>2, <3>3
  <2> QED  BY <2>1, <2>2
<1>7. RemoveAt(s, i) = a \o b
  BY DEF RemoveAt, a, b
<1>8. Len(a) + Len(b) = Len(s) - 1
  BY <1>1, <1>2, <1>3
<1> QED  BY <1>4, <1>6, <1>7, <1>8

\* The first of what SyncService has fetched, and what follows it.
LEMMA FetchedFacts ==
  ASSUME TableSound, other.at # "none"
  PROVE  /\ other.todo # <<>> /\ Mutation \in Fetched /\ Mutation \in made /\ Mutation \in Mutations
         /\ Tail(other.todo) \in Seq(made)
         /\ ToSet(Tail(other.todo)) \subseteq Fetched \ {Mutation}
         /\ \A i, j \in DOMAIN Tail(other.todo) : Tail(other.todo)[i] = Tail(other.todo)[j] => i = j
<1> DEFINE todo == other.todo
           rest == Tail(todo)
<1>1. /\ todo \in Seq(made) /\ todo # <<>>
      /\ \A i, j \in DOMAIN todo : todo[i] = todo[j] => i = j
  BY DEF TableSound, FetchedSound
<1>2. Mutation = todo[1] /\ 1 \in DOMAIN todo
  BY <1>1 DEF Mutation
<1>3. /\ rest \in Seq(made) /\ Len(rest) = Len(todo) - 1 /\ Len(todo) \in Nat
      /\ \A i \in DOMAIN rest : i + 1 \in DOMAIN todo /\ rest[i] = todo[i + 1] /\ i \in Nat /\ i # 0
  BY <1>1
<1> HIDE DEF rest
<1>4. \A i \in DOMAIN rest : rest[i] \in ToSet(todo) /\ rest[i] # todo[1]
  <2>1. ASSUME NEW i \in DOMAIN rest PROVE rest[i] \in ToSet(todo) /\ rest[i] # todo[1]
    <3>1. i + 1 \in DOMAIN todo /\ rest[i] = todo[i + 1] /\ i + 1 # 1
      BY <1>3
    <3> QED  BY <1>1, <1>2, <3>1 DEF ToSet
  <2> QED  BY <2>1
<1>5. \A i, j \in DOMAIN rest : rest[i] = rest[j] => i = j
  <2>1. ASSUME NEW i \in DOMAIN rest, NEW j \in DOMAIN rest, rest[i] = rest[j] PROVE i = j
    <3>1. i + 1 = j + 1
      BY <1>1, <1>3, <2>1
    <3> QED  BY <1>3, <3>1
  <2> QED  BY <2>1
<1>6. todo[1] \in made /\ todo[1] \in ToSet(todo) /\ made \subseteq Mutations
  BY <1>1, <1>2 DEF ToSet, TableSound, RowsOnce
<1> QED  BY <1>1, <1>2, <1>3, <1>4, <1>5, <1>6 DEF Fetched, ToSet, rest

\* The run goes on with the next mutation, or ends.
LEMMA HandledKeeps ==
  ASSUME TableSound, other.at # "none", NextMutation, made' = made
  PROVE  /\ FetchedSound' /\ other'.todo = Tail(other.todo) /\ other'.at \in {"call", "none"}
         /\ Fetched' \subseteq Fetched \ {Mutation}
<1>1. other'.todo = Tail(other.todo) /\ DOMAIN other' = {"at", "todo"}
  BY DEF NextMutation, NoPush
<1>2. other'.at = IF Tail(other.todo) = <<>> THEN "none" ELSE "call"
  BY DEF NextMutation, NoPush
<1> QED  BY <1>1, <1>2, FetchedFacts DEF FetchedSound, Fetched

\* A step of the sync leaves what SyncService holds alone.
LEMMA FetchedStays ==
  ASSUME TableSound, UNCHANGED <<other, retries, skipped>>, made \subseteq made', again \subseteq again',
         \A m \in made : m \in ToSet(pending') => m \in ToSet(pending),
         \A m \in Fetched : applied[m] > 0 => applied'[m] > 0,
         \A m \in Fetched : applied'[m] > 0 => applied[m] > 0 \/ m \in again',
         Batched' => \A m \in ToSet(sync'.batch) : m \in Fetched =>
                         m \in again' \/ (Batched /\ m \in ToSet(sync.batch))
  PROVE  FetchedSound' /\ PushSound'
<1>1. FetchedSound'
  <2>1. other.todo \in Seq(made')
    BY DEF TableSound, FetchedSound
  <2> QED  BY <2>1 DEF TableSound, FetchedSound
<1>2. Fetched' = Fetched /\ Mutation' = Mutation
  BY DEF Fetched, Mutation
<1>3. other.at # "none" => Mutation \in Fetched /\ Mutation \in made
  BY FetchedFacts
<1>4. other'.at = "remove" => applied'[Mutation] > 0 \/ Mutation \in skipped'
  BY <1>3 DEF TableSound, PushSound
<1>5. other'.at = "drop" => ~Stored' \/ retries'[Mutation] = MaxRetries
  BY <1>2, <1>3 DEF TableSound, PushSound, Stored
<1>6. \A m \in Fetched : applied'[m] > 0 => m \in again' \/ (other'.at = "remove" /\ m = Mutation)
  BY DEF TableSound, PushSound
<1>7. Batched' => \A m \in ToSet(sync'.batch) : m \in Fetched => m \in again'
  BY DEF TableSound, PushSound
<1> QED  BY <1>1, <1>2, <1>4, <1>5, <1>6, <1>7 DEF PushSound

\* A step that leaves the table, the server and what it refused alone, and takes no
\* batch but the whole table or the one it had.
LEMMA TableStays ==
  ASSUME TableSound, UNCHANGED <<applied, pending, made, retries, refused, skipped>>,
         FetchedSound', PushSound', again \subseteq again',
         Batched' => \/ Batched /\ sync'.batch = sync.batch
                     \/ pending # <<>> /\ sync'.batch = pending,
         sync'.at = "remove" => sync.at = "remove" /\ sync'.batch = sync.batch,
         \A m \in ToSet(pending) : applied[m] > 0 /\ MaySend(m) => MaySend(m)'
  PROVE  TableSound'
<1>1. RowsOnce' /\ ExecutedMade'
  BY DEF TableSound, RowsOnce, ExecutedMade
<1>2. BatchFirst'
  <2>1. CASE Batched' /\ Batched /\ sync'.batch = sync.batch
    BY <2>1 DEF TableSound, BatchFirst
  <2>2. CASE Batched' /\ pending # <<>> /\ sync'.batch = pending
    <3>1. pending \in Seq(made) /\ Len(pending) \in 1 .. Len(pending)
      BY <2>2 DEF TableSound, RowsOnce
    <3> QED  BY <2>2, <3>1 DEF TableSound, BatchFirst, Batched
  <2>3. CASE ~Batched'
    BY <2>3 DEF BatchFirst, Batched
  <2> QED  BY <2>1, <2>2, <2>3
<1>3. \A m \in ToSet(pending') : applied'[m] > 0 => MaySend(m)'
  BY DEF TableSound
<1>4. \A m \in made' \ ToSet(pending') : MayBeGone(m)'
  BY DEF TableSound, MayBeGone
<1> QED  BY <1>1, <1>2, <1>3, <1>4 DEF TableSound

\* The same of a step of the sync, which leaves what SyncService holds alone.
LEMMA SyncStays ==
  ASSUME TableSound, UNCHANGED <<applied, table, refused, skipped, other>>, again \subseteq again',
         Batched' => \/ Batched /\ sync'.batch = sync.batch
                     \/ pending # <<>> /\ sync'.batch = pending
                        /\ (\A m \in ToSet(pending) : m \in Fetched => m \in again'),
         sync'.at = "remove" <=> sync.at = "remove",
         sync.at = "remove" => sync'.batch = sync.batch
  PROVE  TableSound'
<1>1. FetchedSound' /\ PushSound'
  BY FetchedStays DEF table
<1>2. \A m : MaySend(m) => MaySend(m)'
  BY DEF MaySend, Mutation
<1> QED  BY <1>1, <1>2, TableStays DEF table

\* Rows that went out of their order stay so.
LEMMA ShiftedStays == ASSUME [DeltaNext]_deltaVars, shifted PROVE shifted'
BY DEF DeltaNext, SyncStep, PushStep, deltaVars, marks, ServerChange, Edit, PushFetches, PushSucceeds,
       PushFails, PushRemoves, PushCounts, PushThrows, StartSync, PullEntity, PullFails,
       PullFailsCounting, Collect, Resolve, DiffFails, ApplySucceeds, ApplyFails, FailsThen,
       RemoveRow, RemovingTo, RemoveFails, TurnIdle, Kill

\* The technician's next edit is a row of its own at the end of the table.
LEMMA EditKeeps == ASSUME TableSound, NEW m \in Mutations, Edit(m) PROVE TableSound'
<1>1. /\ made' = made \cup {m} /\ m \notin made
      /\ pending' = Append(pending, m)
      /\ UNCHANGED <<applied, retries, sync, other, refused, skipped, again>>
  BY DEF Edit, server, marks, TableSound, RowsOnce
<1>2. /\ pending' \in Seq(made') /\ Len(pending') = Len(pending) + 1
      /\ pending'[Len(pending) + 1] = m
      /\ \A i \in DOMAIN pending : pending'[i] = pending[i] /\ pending[i] \in made
  BY <1>1 DEF TableSound, RowsOnce
<1>3. ToSet(pending') = ToSet(pending) \cup {m}
  BY <1>2 DEF ToSet, TableSound, RowsOnce
<1>4. RowsOnce'
  BY <1>1, <1>2 DEF TableSound, RowsOnce
<1>5. ExecutedMade' /\ applied[m] = 0
  BY <1>1 DEF TableSound, RowsOnce, ExecutedMade
<1>6. BatchFirst'
  <2>1. sync.batch \in Seq(made) => sync.batch \in Seq(made')
    BY <1>1
  <2> QED  BY <1>1, <1>2, <2>1 DEF TableSound, RowsOnce, BatchFirst, Batched
<1>7. FetchedSound' /\ PushSound'
  <2>1. Batched' <=> Batched
    BY <1>1 DEF Batched
  <2> QED  BY <1>1, <1>3, <2>1, FetchedStays
<1>8. \A k \in ToSet(pending') : applied'[k] > 0 => MaySend(k)'
  BY <1>1, <1>3, <1>5 DEF TableSound, MaySend, Mutation
<1>9. \A k \in made' \ ToSet(pending') : MayBeGone(k)'
  BY <1>1, <1>3 DEF TableSound, MayBeGone
<1> QED  BY <1>1, <1>4, <1>5, <1>6, <1>7, <1>8, <1>9 DEF TableSound

\* SyncService fetches the table: what was executed of it has a reason to be sent again.
LEMMA PushFetchesKeeps == ASSUME TableSound, PushFetches PROVE TableSound'
<1>1. /\ other.at = "none" /\ pending # <<>>
      /\ other' = [at |-> "call", todo |-> pending]
      /\ again' = IF Batched THEN again \cup (ToSet(pending) \cap ToSet(sync.batch)) ELSE again
      /\ UNCHANGED <<applied, pending, made, retries, sync, refused, skipped>>
  BY DEF PushFetches, server, table
<1>2. FetchedSound'
  BY <1>1 DEF TableSound, RowsOnce, FetchedSound
<1>3. Fetched' = ToSet(pending) /\ other'.at = "call"
  BY <1>1 DEF Fetched
<1>4. \A m \in ToSet(pending) : applied[m] > 0 => m \in again'
  BY <1>1 DEF TableSound, MaySend, Batched
<1>5. PushSound'
  BY <1>1, <1>3, <1>4 DEF PushSound, Batched
<1>6. \A m \in ToSet(pending) : applied[m] > 0 => MaySend(m)'
  BY <1>4 DEF MaySend
<1> QED  BY <1>1, <1>2, <1>5, <1>6, TableStays DEF Batched

\* SyncService has its mutation executed, which is then sent or marked.
LEMMA ExecutesKeeps ==
  ASSUME TableSound, other.at = "call", applied' = [applied EXCEPT ![Mutation] = Count(@)],
         UNCHANGED <<table, sync, refused, skipped>>, other'.todo = other.todo,
         DOMAIN other' = {"at", "todo"},
         \/ other'.at = "remove" /\ again' = again
         \/ other'.at = "retry" /\ again' = again \cup {Mutation}
  PROVE  TableSound'
<1> DEFINE m == Mutation
<1>1. m \in made /\ m \in Mutations /\ m \in Fetched /\ other.todo # <<>>
  BY FetchedFacts
<1>2. UNCHANGED <<pending, made, retries>> /\ Fetched' = Fetched /\ Mutation' = m
  BY DEF table, Fetched, Mutation
<1>3. Batched' <=> Batched
  BY DEF Batched
<1> HIDE DEF m
<1>4. \A k \in Mutations : applied'[k] = IF k = m THEN Count(applied[k]) ELSE applied[k]
  BY DEF TableSound, ExecutedMade, m
<1>5. Count(applied[m]) \in 1 .. 2 /\ (Count(applied[m]) = 2 => applied[m] > 0)
  BY <1>1 DEF TableSound, ExecutedMade, Count
<1>6. applied[m] > 0 => m \in again
  BY <1>1 DEF TableSound, PushSound
<1>7. RowsOnce' /\ ExecutedMade' /\ BatchFirst'
  <2>1. applied' \in [Mutations -> 0 .. 2]
    BY <1>1, <1>5 DEF TableSound, ExecutedMade, m
  <2>2. RowsOnce' /\ ExecutedMade'
    BY <1>1, <1>2, <1>4, <1>5, <2>1 DEF TableSound, RowsOnce, ExecutedMade
  <2>3. \A k \in Mutations : applied[k] > 0 => applied'[k] > 0
    BY <1>1, <1>4, <1>5 DEF TableSound, ExecutedMade
  <2>4. Batched => ToSet(sync.batch) \subseteq Mutations
    BY DEF TableSound, RowsOnce, BatchFirst, ToSet
  <2>5. BatchFirst'
    BY <1>2, <2>3, <2>4 DEF TableSound, BatchFirst, Batched
  <2> QED  BY <2>2, <2>5
<1>8. FetchedSound'
  BY <1>1, <1>2 DEF TableSound, FetchedSound
<1>9. Fetched \subseteq Mutations
  BY DEF Fetched, ToSet, TableSound, FetchedSound, RowsOnce
<1>10. PushSound'
  <2>1. other'.at = "remove" => applied'[m] > 0
    BY <1>1, <1>4, <1>5
  <2>2. ASSUME NEW k \in Fetched, applied'[k] > 0
        PROVE  k \in again' \/ (other'.at = "remove" /\ k = m)
    <3>1. CASE k = m
      BY <3>1 DEF m
    <3>2. CASE k # m
      BY <1>4, <1>9, <2>2, <3>2 DEF TableSound, PushSound
    <3> QED  BY <3>1, <3>2
  <2>3. Batched' => \A k \in ToSet(sync'.batch) : k \in Fetched => k \in again'
    BY <1>3 DEF TableSound, PushSound
  <2> QED  BY <1>2, <2>1, <2>2, <2>3 DEF PushSound
<1>11. ASSUME NEW k \in ToSet(pending), applied'[k] > 0 PROVE MaySend(k)'
  <2>1. CASE k = m
    BY <1>2, <2>1 DEF MaySend, m
  <2>2. CASE k # m
    <3>1. k \in Mutations
      BY DEF TableSound, RowsOnce, ToSet
    <3>2. MaySend(k)
      BY <1>4, <1>11, <2>2, <3>1 DEF TableSound
    <3> QED  BY <1>1, <2>2, <3>2 DEF MaySend, m
  <2> QED  BY <2>1, <2>2
<1>12. ASSUME NEW k \in Mutations, applied'[k] > 1 PROVE k \in again'
  <2>1. CASE k = m
    BY <1>1, <1>4, <1>5, <1>6, <1>12, <2>1
  <2>2. CASE k # m
    BY <1>4, <1>12, <2>2 DEF TableSound
  <2> QED  BY <2>1, <2>2
<1>13. \A k \in made \ ToSet(pending) : MayBeGone(k)'
  BY <1>1, <1>2, <1>4, <1>5 DEF TableSound, RowsOnce, ExecutedMade, MayBeGone
<1> QED  BY <1>2, <1>7, <1>8, <1>10, <1>11, <1>12, <1>13 DEF TableSound

\* A step of SyncService that sends nothing and leaves the table alone.
LEMMA HandlesKeeps ==
  ASSUME TableSound, other.at # "none", UNCHANGED <<applied, pending, made, sync, refused>>,
         skipped \subseteq skipped', again \subseteq again',
         retries' \in [Mutations -> 0 .. MaxRetries],
         \A k \in Mutations : retries[k] = MaxRetries => retries'[k] = MaxRetries,
         \/ DOMAIN other' = {"at", "todo"} /\ other'.todo = other.todo /\ other'.at # "none"
         \/ NextMutation
         \/ other' = NoPush,
         other.at # "remove" \/ Mutation \in again',
         other'.at = "remove" => Mutation \in skipped',
         other'.at = "drop" => ~Stored \/ retries'[Mutation] = MaxRetries
  PROVE  TableSound'
<1>1. /\ other.todo # <<>> /\ Mutation \in made /\ Mutation \in Fetched
      /\ Batched' <=> Batched
  BY FetchedFacts DEF Batched
<1>2. \A k : MaySend(k) => k \in again' \/ (sync'.at = "remove" /\ k \in ToSet(sync'.batch))
  BY DEF MaySend
<1>3. \A k \in Fetched : applied'[k] > 0 => k \in again'
  BY DEF TableSound, PushSound
<1>4. FetchedSound' /\ PushSound'
  <2>1. CASE DOMAIN other' = {"at", "todo"} /\ other'.todo = other.todo /\ other'.at # "none"
    <3>1. FetchedSound'
      BY <1>1, <2>1 DEF TableSound, FetchedSound
    <3>2. Mutation' = Mutation /\ Fetched' = Fetched /\ Stored' = Stored
      BY <2>1 DEF Mutation, Fetched, Stored
    <3> QED  BY <1>1, <1>3, <3>1, <3>2 DEF TableSound, PushSound
  <2>2. CASE NextMutation
    BY <1>1, <1>3, <2>2, HandledKeeps DEF TableSound, PushSound
  <2>3. CASE other' = NoPush
    <3>1. DOMAIN other' = {"at", "todo"} /\ other'.at = "none" /\ other'.todo = <<>> /\ Fetched' = {}
      BY <2>3 DEF NoPush, Fetched, ToSet
    <3> QED  BY <3>1 DEF FetchedSound, PushSound
  <2> QED  BY <2>1, <2>2, <2>3
<1>5. \A k \in made \ ToSet(pending) : MayBeGone(k)'
  BY DEF TableSound, RowsOnce, MayBeGone
<1>6. \A k \in ToSet(pending) : applied[k] > 0 => MaySend(k)'
  BY <1>2 DEF TableSound, MaySend
<1>7. RowsOnce' /\ ExecutedMade' /\ BatchFirst'
  BY <1>1 DEF TableSound, RowsOnce, ExecutedMade, BatchFirst, Batched
<1> QED  BY <1>4, <1>5, <1>6, <1>7 DEF TableSound

\* SyncService's call returned.
LEMMA PushSucceedsKeeps == ASSUME TableSound, PushSucceeds PROVE TableSound'
<1>1. /\ other.at = "call" /\ other' = [other EXCEPT !.at = "remove"]
      /\ UNCHANGED <<table, sync, refused, again>>
      /\ DOMAIN other' = {"at", "todo"} /\ other'.at = "remove" /\ other'.todo = other.todo
  BY DEF PushSucceeds, TableSound, FetchedSound
<1>2. CASE Mutation \in Unsent
  <2>1. UNCHANGED applied /\ skipped' = skipped \cup {Mutation}
    BY <1>2 DEF PushSucceeds, server
  <2> QED  BY <1>1, <2>1, HandlesKeeps DEF table, TableSound, RowsOnce
<1>3. CASE Mutation \notin Unsent
  <2>1. applied' = [applied EXCEPT ![Mutation] = Count(@)] /\ UNCHANGED skipped
    BY <1>3 DEF PushSucceeds
  <2> QED  BY <1>1, <2>1, ExecutesKeeps
<1> QED  BY <1>2, <1>3

\* It threw, after the server executed the mutation or not.
LEMMA PushFailsKeeps == ASSUME TableSound, PushFails PROVE TableSound'
<1>1. /\ other.at = "call" /\ UNCHANGED <<table, sync, refused, skipped>>
      /\ DOMAIN other' = {"at", "todo"} /\ other'.at = "retry" /\ other'.todo = other.todo
  BY DEF PushFails, TableSound, FetchedSound
<1>2. CASE UNCHANGED <<server, stale, again>>
  BY <1>1, <1>2, HandlesKeeps DEF table, server, TableSound, RowsOnce
<1>3. CASE applied' = [applied EXCEPT ![Mutation] = Count(@)] /\ again' = again \cup {Mutation}
  BY <1>1, <1>3, ExecutesKeeps
<1> QED  BY <1>2, <1>3 DEF PushFails

\* A failure is counted, or SQLite fails.
LEMMA PushCountsKeeps == ASSUME TableSound, PushCounts PROVE TableSound'
<1>1. /\ other.at = "retry" /\ UNCHANGED <<applied, pending, made, sync, refused, skipped, again>>
      /\ retries' = IF Stored THEN [retries EXCEPT ![Mutation] = OneMore(@)] ELSE retries
  BY DEF PushCounts, server, marks
<1>2. /\ retries \in [Mutations -> 0 .. MaxRetries]
      /\ Mutation \in Mutations
  BY <1>1, FetchedFacts DEF TableSound, RowsOnce
<1>3. /\ retries' \in [Mutations -> 0 .. MaxRetries]
      /\ \A k \in Mutations : retries[k] = MaxRetries => retries'[k] = MaxRetries
      /\ Stored /\ retries[Mutation] >= MaxRetries - 1 => retries'[Mutation] = MaxRetries
  BY <1>1, <1>2, DeltaAssumption DEF OneMore
<1>4. CASE retries[Mutation] >= MaxRetries - 1
  <2>1. other' = [other EXCEPT !.at = "drop"]
    BY <1>4 DEF PushCounts
  <2>2. DOMAIN other' = {"at", "todo"} /\ other'.at = "drop" /\ other'.todo = other.todo
    BY <2>1 DEF TableSound, FetchedSound
  <2> QED  BY <1>1, <1>3, <1>4, <2>2, HandlesKeeps
<1>5. CASE ~(retries[Mutation] >= MaxRetries - 1)
  <2>1. NextMutation
    BY <1>5 DEF PushCounts
  <2>2. other'.at \in {"none", "call"}
    BY <2>1 DEF NextMutation, NoPush
  <2> QED  BY <1>1, <1>3, <2>1, <2>2, HandlesKeeps
<1> QED  BY <1>4, <1>5

\* A request that throws, retried or given up.
LEMMA PushThrowsKeeps == ASSUME TableSound, PushThrows PROVE TableSound'
<1>1. /\ other.at \in {"remove", "retry", "drop"}
      /\ UNCHANGED <<applied, pending, made, retries, sync, refused, skipped>>
  BY DEF PushThrows, server, table
<1>2. CASE other.at = "remove"
  <2>1. /\ again' = again \cup {Mutation}
        /\ DOMAIN other' = {"at", "todo"} /\ other'.at = "retry" /\ other'.todo = other.todo
    BY <1>2 DEF PushThrows, TableSound, FetchedSound
  <2> QED  BY <1>1, <2>1, HandlesKeeps DEF TableSound, RowsOnce
<1>3. CASE other.at # "remove"
  <2>1. other' = NoPush /\ UNCHANGED again /\ other'.at = "none"
    BY <1>3 DEF PushThrows, NoPush
  <2> QED  BY <1>1, <1>3, <2>1, HandlesKeeps DEF TableSound, RowsOnce
<1> QED  BY <1>2, <1>3

\* SyncService takes out a row it sent, did not have to send or gave up; if the other sync
\* held a batch, the row was gone before.
LEMMA PushRemovesKeeps == ASSUME TableSound, PushRemoves, ~shifted' PROVE TableSound'
<1>1. /\ other.at \in {"remove", "drop"} /\ NextMutation
      /\ UNCHANGED <<applied, retries, made, sync, refused, skipped, again>>
      /\ ~(Batched /\ Stored)
  BY DEF PushRemoves, server
<1>2. /\ FetchedSound' /\ other'.at \in {"call", "none"}
      /\ Fetched' \subseteq Fetched \ {Mutation}
      /\ Mutation \in made /\ Mutation \in Fetched /\ Mutation \in Mutations
  BY <1>1, HandledKeeps, FetchedFacts
<1>3. PushSound' /\ ExecutedMade'
  <2>1. Batched' <=> Batched
    BY <1>1 DEF Batched
  <2>2. \A m \in Fetched' : applied'[m] > 0 => m \in again'
    BY <1>1, <1>2 DEF TableSound, PushSound
  <2>3. Batched' => \A m \in ToSet(sync'.batch) : m \in Fetched' => m \in again'
    BY <1>1, <1>2, <2>1 DEF TableSound, PushSound
  <2> QED  BY <1>1, <1>2, <2>2, <2>3 DEF TableSound, ExecutedMade, PushSound
<1>4. MayBeGone(Mutation)
  BY <1>1, <1>2 DEF TableSound, PushSound, Stored, MayBeGone
<1>5. CASE ~Stored /\ pending' = pending
  <2>1. RowsOnce' /\ BatchFirst'
    BY <1>1, <1>5 DEF TableSound, RowsOnce, BatchFirst, Batched
  <2>2. \A k \in ToSet(pending') : applied'[k] > 0 => MaySend(k)'
    BY <1>1, <1>5 DEF TableSound, MaySend, Stored
  <2>3. \A k \in made' \ ToSet(pending') : MayBeGone(k)'
    BY <1>1, <1>5 DEF TableSound, MayBeGone
  <2> QED  BY <1>1, <1>2, <1>3, <2>1, <2>2, <2>3 DEF TableSound
<1>6. ASSUME NEW i \in DOMAIN pending, pending[i] = Mutation, pending' = RemoveAt(pending, i)
      PROVE  TableSound'
  <2>1. pending \in Seq(made) /\ Len(pending) \in Nat
    BY DEF TableSound, RowsOnce
  <2>2. /\ pending' \in Seq(made) /\ Len(pending') = Len(pending) - 1
        /\ \A j \in 1 .. Len(pending') : pending'[j] = IF j < i THEN pending[j] ELSE pending[j + 1]
    BY <1>6, <2>1, RemoveAtFacts
  <2>3. RowsOnce'
    <3>1. ASSUME NEW j \in DOMAIN pending', NEW k \in DOMAIN pending', pending'[j] = pending'[k] PROVE j = k
      <4>1. PICK jj \in DOMAIN pending : jj = (IF j < i THEN j ELSE j + 1) /\ pending'[j] = pending[jj]
        BY <2>1, <2>2
      <4>2. PICK kk \in DOMAIN pending : kk = (IF k < i THEN k ELSE k + 1) /\ pending'[k] = pending[kk]
        BY <2>1, <2>2
      <4>3. jj = kk
        BY <3>1, <4>1, <4>2 DEF TableSound, RowsOnce
      <4> QED  BY <2>1, <2>2, <4>1, <4>2, <4>3
    <3> QED  BY <1>1, <2>2, <3>1 DEF TableSound, RowsOnce
  <2>4. ToSet(pending') \subseteq ToSet(pending) \ {Mutation}
    <3>1. ASSUME NEW j \in DOMAIN pending' PROVE pending'[j] \in ToSet(pending) \ {Mutation}
      <4>1. PICK jj \in DOMAIN pending : jj = (IF j < i THEN j ELSE j + 1) /\ pending'[j] = pending[jj]
        BY <2>1, <2>2
      <4>2. jj # i
        BY <2>1, <2>2, <4>1
      <4> QED  BY <1>6, <4>1, <4>2 DEF TableSound, RowsOnce, ToSet
    <3> QED  BY <3>1 DEF ToSet
  <2>5. ToSet(pending) \ {Mutation} \subseteq ToSet(pending')
    <3>1. ASSUME NEW j \in DOMAIN pending, j # i PROVE pending[j] \in ToSet(pending')
      <4>1. CASE j < i
        <5>1. j \in DOMAIN pending' /\ pending'[j] = pending[j]
          BY <2>1, <2>2, <4>1
        <5> QED  BY <5>1 DEF ToSet
      <4>2. CASE j > i
        <5> DEFINE k == j - 1
        <5>1. k \in 1 .. Len(pending') /\ ~(k < i) /\ k + 1 = j
          BY <2>1, <2>2, <4>2
        <5> HIDE DEF k
        <5>2. k \in DOMAIN pending' /\ pending'[k] = pending[j]
          BY <2>2, <5>1
        <5> QED  BY <5>2 DEF ToSet
      <4> QED  BY <2>1, <3>1, <4>1, <4>2
    <3> QED  BY <1>6, <3>1 DEF ToSet
  <2>6. \A k \in ToSet(pending') : applied'[k] > 0 => MaySend(k)'
    BY <1>1, <2>4 DEF TableSound, MaySend
  <2>7. \A k \in made' \ ToSet(pending') : MayBeGone(k)'
    BY <1>1, <1>4, <2>5 DEF TableSound, MayBeGone
  <2>8. BatchFirst'
    <3>1. Stored
      BY <1>6 DEF Stored, ToSet
    <3> QED  BY <1>1, <3>1 DEF BatchFirst, Batched
  <2> QED  BY <1>1, <1>2, <1>3, <2>3, <2>6, <2>7, <2>8 DEF TableSound
<1> QED  BY <1>5, <1>6 DEF PushRemoves

\* The server executes a batch, but for what it refuses.
LEMMA ExecuteFacts ==
  ASSUME TableSound, sync.at = "apply", NEW refusals, Execute(refusals)
  PROVE  /\ applied' \in [Mutations -> 0 .. 2]
         /\ \A m \in Mutations : applied[m] > 0 => applied'[m] > 0
         /\ \A m \in Mutations : m \notin ToSet(sync.batch) => applied'[m] = applied[m]
         /\ \A m \in ToSet(sync.batch) : m \in made /\ (applied'[m] > 0 \/ m \in refusals)
         /\ \A m \in Mutations : applied'[m] > 1 => m \in again
         /\ \A m \in Fetched : applied[m] > 0 => applied'[m] > 0
         /\ \A m \in Fetched : applied'[m] > 0 => applied[m] > 0 \/ m \in again
         /\ refused' = refused \cup refusals
<1>1. \A m \in Mutations : Count(applied[m]) \in 1 .. 2 /\ (Count(applied[m]) = 2 => applied[m] > 0)
  BY DEF TableSound, ExecutedMade, Count
<1>2. /\ refused' = refused \cup refusals
      /\ applied' = [m \in Mutations |->
             IF m \in ToSet(sync.batch) \ refusals THEN Count(applied[m]) ELSE applied[m]]
  BY DEF Execute
<1>3. applied' \in [Mutations -> 0 .. 2]
  BY <1>1, <1>2 DEF TableSound, ExecutedMade
<1>4. \A m \in ToSet(sync.batch) : m \in made /\ m \in Mutations /\ m \in ToSet(pending)
  BY DEF TableSound, RowsOnce, BatchFirst, Batched, ToSet
<1>5. ASSUME NEW m \in Mutations, applied'[m] > 1 PROVE m \in again
  <2>1. CASE m \in ToSet(sync.batch)
    <3>1. applied[m] > 0
      BY <1>1, <1>2, <1>5 DEF TableSound, ExecutedMade
    <3>2. MaySend(m)
      BY <1>4, <2>1, <3>1 DEF TableSound
    <3>3. CASE other.at = "remove" /\ m = Mutation
      <4>1. m \in Fetched /\ Batched
        BY <3>3, FetchedFacts DEF Batched
      <4> QED  BY <2>1, <4>1 DEF TableSound, PushSound
    <3> QED  BY <3>2, <3>3 DEF MaySend
  <2>2. CASE m \notin ToSet(sync.batch)
    BY <1>2, <1>5, <2>2 DEF TableSound
  <2> QED  BY <2>1, <2>2
<1>6. Fetched \subseteq Mutations
  BY DEF Fetched, ToSet, TableSound, FetchedSound, RowsOnce
<1>7. \A m \in Fetched : applied'[m] > 0 => applied[m] > 0 \/ m \in again
  BY <1>2, <1>6 DEF TableSound, PushSound, Batched
<1> QED  BY <1>1, <1>2, <1>3, <1>4, <1>5, <1>6, <1>7 DEF TableSound, ExecutedMade

\* After an answer all of the batch was executed or refused.
LEMMA ApplySucceedsKeeps == ASSUME PullSound, TableSound, ApplySucceeds PROVE TableSound'
<1>1. PICK refusals : Execute(refusals)
  BY DEF ApplySucceeds
<1>2. /\ sync.at = "apply" /\ sync'.at = "remove" /\ sync'.batch = sync.batch
      /\ UNCHANGED <<pending, retries, made, other, skipped, again>>
  BY DEF ApplySucceeds, Goto, table, PullSound, PullOrdered, SyncFields
<1>3. RowsOnce' /\ ExecutedMade'
  BY <1>1, <1>2, ExecuteFacts DEF TableSound, RowsOnce, ExecutedMade
<1>4. BatchFirst'
  BY <1>1, <1>2, ExecuteFacts DEF TableSound, BatchFirst, Batched
<1>5. FetchedSound' /\ PushSound'
  BY <1>1, <1>2, ExecuteFacts, FetchedStays DEF Batched
<1>6. \A m \in made \ ToSet(pending) : MayBeGone(m)'
  BY <1>1, <1>2, ExecuteFacts DEF TableSound, RowsOnce, MayBeGone
<1>7. ASSUME NEW m \in ToSet(pending), applied'[m] > 0 PROVE MaySend(m)'
  <2>1. CASE m \in ToSet(sync.batch)
    BY <1>2, <2>1 DEF MaySend
  <2>2. CASE m \notin ToSet(sync.batch)
    <3>1. m \in Mutations
      BY DEF TableSound, RowsOnce, ToSet
    <3>2. MaySend(m)
      BY <1>1, <1>2, <1>7, <2>2, <3>1, ExecuteFacts DEF TableSound
    <3> QED  BY <1>2, <3>2 DEF MaySend, Mutation
  <2> QED  BY <2>1, <2>2
<1>8. \A m \in Mutations : applied'[m] > 1 => m \in again'
  BY <1>1, <1>2, ExecuteFacts
<1> QED  BY <1>2, <1>3, <1>4, <1>5, <1>6, <1>7, <1>8 DEF TableSound

\* A request that failed was executed or not; then the batch waits, or the sync ends.
LEMMA ApplyFailsKeeps == ASSUME PullSound, TableSound, ApplyFails PROVE TableSound'
<1>1. /\ sync.at = "apply" /\ UNCHANGED <<pending, retries, made, other, skipped>>
      /\ \/ sync'.at = "apply" /\ sync'.batch = sync.batch
         \/ sync'.at = "none"
  BY DEF ApplyFails, FailsThen, EndSync, NoSync, Goto, table, PullSound, PullOrdered, SyncFields
<1>2. CASE UNCHANGED <<applied, refused, again>>
  BY <1>1, <1>2, SyncStays DEF Batched, table
<1>3. CASE Execute({}) /\ again' = again \cup ToSet(sync.batch)
  <2>1. RowsOnce' /\ ExecutedMade'
    BY <1>1, <1>3, ExecuteFacts DEF TableSound, RowsOnce, ExecutedMade
  <2>2. BatchFirst'
    BY <1>1 DEF TableSound, BatchFirst, Batched
  <2>3. FetchedSound' /\ PushSound'
    BY <1>1, <1>3, ExecuteFacts, FetchedStays DEF Batched
  <2>4. \A m \in made \ ToSet(pending) : MayBeGone(m)'
    BY <1>1, <1>3, ExecuteFacts DEF TableSound, RowsOnce, MayBeGone
  <2>5. ASSUME NEW m \in ToSet(pending), applied'[m] > 0 PROVE MaySend(m)'
    <3>1. CASE m \in ToSet(sync.batch)
      BY <1>3, <3>1 DEF MaySend
    <3>2. CASE m \notin ToSet(sync.batch)
      <4>1. m \in Mutations
        BY DEF TableSound, RowsOnce, ToSet
      <4>2. MaySend(m)
        BY <1>1, <1>3, <2>5, <3>2, <4>1, ExecuteFacts DEF TableSound
      <4> QED  BY <1>1, <1>3, <4>2 DEF MaySend, Mutation
    <3> QED  BY <3>1, <3>2
  <2>6. \A m \in Mutations : applied'[m] > 1 => m \in again'
    BY <1>1, <1>3, ExecuteFacts
  <2> QED  BY <1>1, <2>1, <2>2, <2>3, <2>4, <2>5, <2>6 DEF TableSound
<1> QED  BY <1>2, <1>3 DEF ApplyFails, FailsThen

\* The first row of the table is the first of the batch: it was executed or refused.
LEMMA RemoveRowKeeps == ASSUME PullSound, TableSound, RemoveRow PROVE TableSound'
<1> DEFINE first == Head(pending)
<1>1. /\ sync.at = "remove"
      /\ UNCHANGED <<applied, retries, made, other, refused, skipped, again>>
      /\ pending' = IF pending = <<>> THEN <<>> ELSE Tail(pending)
      /\ \/ Tail(sync.batch) = <<>> /\ sync'.at = "none"
         \/ Tail(sync.batch) # <<>> /\ sync'.at = "remove" /\ sync'.batch = Tail(sync.batch)
  BY DEF RemoveRow, RemovingTo, Confirmed, EndSync, NoSync, Goto, marks, PullSound, PullOrdered, SyncFields
<1>2. /\ pending \in Seq(made) /\ sync.batch \in Seq(made) /\ Len(pending) \in Nat
      /\ Len(sync.batch) \in 1 .. Len(pending)
      /\ \A i \in DOMAIN sync.batch : sync.batch[i] = pending[i]
  BY <1>1 DEF TableSound, RowsOnce, BatchFirst, Batched
<1>3. /\ pending' = Tail(pending) /\ pending' \in Seq(made) /\ Len(pending') = Len(pending) - 1
      /\ \A i \in 1 .. Len(pending') : i + 1 \in DOMAIN pending /\ pending'[i] = pending[i + 1]
  BY <1>1, <1>2
<1>4. /\ Tail(sync.batch) \in Seq(made) /\ Len(Tail(sync.batch)) = Len(sync.batch) - 1
      /\ \A i \in 1 .. Len(sync.batch) - 1 :
             i + 1 \in DOMAIN sync.batch /\ Tail(sync.batch)[i] = sync.batch[i + 1]
  BY <1>2
<1>5. /\ first = pending[1] /\ first = sync.batch[1] /\ 1 \in DOMAIN pending /\ 1 \in DOMAIN sync.batch
      /\ first \in ToSet(sync.batch)
  BY <1>2 DEF ToSet
<1> HIDE DEF first
<1>6. RowsOnce'
  <2>1. ASSUME NEW i \in DOMAIN pending', NEW j \in DOMAIN pending', pending'[i] = pending'[j] PROVE i = j
    <3>1. i + 1 = j + 1
      BY <1>2, <1>3, <2>1 DEF TableSound, RowsOnce
    <3> QED  BY <1>2, <1>3, <3>1
  <2> QED  BY <1>1, <1>3, <2>1 DEF TableSound, RowsOnce
<1>7. ExecutedMade'
  BY <1>1 DEF TableSound, ExecutedMade
<1>8. ToSet(Tail(sync.batch)) \subseteq ToSet(sync.batch)
  BY <1>2, <1>4 DEF ToSet
<1>9. BatchFirst'
  <2>1. CASE sync'.at = "none"
    BY <2>1 DEF BatchFirst, Batched
  <2>2. CASE Tail(sync.batch) # <<>> /\ sync'.at = "remove" /\ sync'.batch = Tail(sync.batch)
    <3>1. Len(sync'.batch) \in 1 .. Len(pending')
      BY <1>2, <1>3, <1>4, <2>2
    <3>2. \A i \in DOMAIN sync'.batch : sync'.batch[i] = pending'[i]
      BY <1>2, <1>3, <1>4, <2>2
    <3>3. \A m \in ToSet(sync'.batch) : applied'[m] > 0 \/ m \in refused'
      BY <1>1, <1>8, <2>2 DEF TableSound, BatchFirst
    <3> QED  BY <1>1, <1>4, <2>2, <3>1, <3>2, <3>3 DEF BatchFirst, Batched
  <2> QED  BY <1>1, <2>1, <2>2
<1>10. ASSUME NEW m \in made, m \notin ToSet(pending') PROVE MayBeGone(m)
  <2>1. CASE m \in ToSet(pending)
    <3>1. PICK i \in DOMAIN pending : pending[i] = m
      BY <2>1 DEF ToSet
    <3>2. CASE i = 1
      BY <1>1, <1>5, <3>1, <3>2 DEF TableSound, BatchFirst, MayBeGone
    <3>3. CASE i # 1
      <4> DEFINE k == i - 1
      <4>1. k \in 1 .. Len(pending') /\ k + 1 = i
        BY <1>2, <1>3, <3>3
      <4> HIDE DEF k
      <4>2. k \in DOMAIN pending' /\ pending'[k] = m
        BY <1>3, <3>1, <4>1
      <4> QED  BY <1>10, <4>2 DEF ToSet
    <3> QED  BY <3>2, <3>3
  <2>2. CASE m \notin ToSet(pending)
    BY <2>2 DEF TableSound
  <2> QED  BY <2>1, <2>2
<1>11. ASSUME NEW m \in ToSet(pending'), applied[m] > 0 PROVE MaySend(m)'
  <2>1. PICK i \in 1 .. Len(pending') : pending'[i] = m /\ i + 1 \in DOMAIN pending /\ pending[i + 1] = m
    BY <1>3 DEF ToSet
  <2>2. m \in ToSet(pending) /\ m # first
    <3>1. m \in ToSet(pending)
      BY <2>1 DEF ToSet
    <3>2. i + 1 # 1
      BY <1>2, <1>3, <2>1
    <3> QED  BY <1>5, <2>1, <3>1, <3>2 DEF TableSound, RowsOnce
  <2>3. MaySend(m)
    BY <1>11, <2>2 DEF TableSound
  <2>4. CASE m \in again
    BY <1>1, <2>4 DEF MaySend
  <2>5. CASE m \in ToSet(sync.batch)
    <3>1. PICK j \in DOMAIN sync.batch : sync.batch[j] = m /\ j # 1
      BY <1>5, <2>2, <2>5 DEF ToSet
    <3> DEFINE k == j - 1
    <3>2. k \in 1 .. Len(sync.batch) - 1 /\ k + 1 = j
      BY <1>2, <3>1
    <3> HIDE DEF k
    <3>3. Tail(sync.batch)[k] = m /\ k \in DOMAIN Tail(sync.batch)
      BY <1>4, <3>1, <3>2
    <3>4. Tail(sync.batch) # <<>> /\ m \in ToSet(Tail(sync.batch))
      BY <3>3 DEF ToSet
    <3> QED  BY <1>1, <3>4 DEF MaySend
  <2>6. CASE other.at = "remove" /\ m = Mutation
    BY <1>1, <2>6 DEF MaySend, Mutation
  <2> QED  BY <2>3, <2>4, <2>5, <2>6 DEF MaySend
<1>12. FetchedSound' /\ PushSound'
  <2>1. \A m \in made : m \in ToSet(pending') => m \in ToSet(pending)
    BY <1>3 DEF ToSet
  <2>2. Batched' => ToSet(sync'.batch) \subseteq ToSet(sync.batch)
    BY <1>1, <1>8 DEF Batched
  <2> QED  BY <1>1, <2>1, <2>2, FetchedStays DEF Batched
<1>13. \A m \in made' \ ToSet(pending') : MayBeGone(m)'
  BY <1>1, <1>10 DEF MayBeGone
<1> QED  BY <1>1, <1>6, <1>7, <1>9, <1>11, <1>12, <1>13 DEF TableSound

\* Every step keeps the table sound, or moves a row out of its order.
LEMMA TableKeeps == ASSUME PullSound, TableInv, [DeltaNext]_deltaVars PROVE TableInv'
<1> SUFFICES ASSUME ~shifted' PROVE TableSound'
  BY DEF TableInv
<1>0. TableSound /\ ~shifted
  BY ShiftedStays DEF TableInv
<1>1. ASSUME UNCHANGED <<applied, table, refused, skipped, other, again, sync>> PROVE TableSound'
  BY <1>0, <1>1, SyncStays DEF Batched
<1>2. ASSUME UNCHANGED <<applied, table, refused, skipped, other>>, again \subseteq again',
             sync.at # "remove", EndSync \/ sync'.at = "collect" \/ sync'.at = "pull"
      PROVE  TableSound'
  <2>1. sync'.at # "remove" /\ ~Batched'
    BY <1>2 DEF EndSync, NoSync, Batched
  <2> QED  BY <1>0, <1>2, <2>1, SyncStays
<1>3. ASSUME NEW e, ServerChange(e) PROVE TableSound'
  BY <1>1, <1>3 DEF ServerChange, marks
<1>4. ASSUME NEW m \in Mutations, Edit(m) PROVE TableSound'
  BY <1>0, <1>4, EditKeeps
<1>5. CASE PushStep
  BY <1>0, <1>5, PushFetchesKeeps, PushSucceedsKeeps, PushFailsKeeps, PushRemovesKeeps,
     PushCountsKeeps, PushThrowsKeeps DEF PushStep
<1>6. CASE StartSync
  <2>1. UNCHANGED <<applied, table, refused, skipped, other, again>> /\ sync'.at = "pull"
    BY <1>6 DEF StartSync, marks, NoSync
  <2>2. sync.at # "remove"
    BY <1>6 DEF StartSync, PullSound, PullOrdered, Syncing
  <2> QED  BY <1>2, <2>1, <2>2
<1>7. CASE PullEntity \/ PullFails
  <2>1. /\ UNCHANGED <<applied, table, refused, skipped, other, again>> /\ sync.at = "pull"
        /\ \E failed, owed : Pulled(failed, owed)
    BY <1>7 DEF PullEntity, PullFails, PullFailsCounting, server, marks
  <2>2. sync'.at = "collect" \/ sync'.at = "pull"
    BY <2>1 DEF Pulled, PullSound, PullOrdered, SyncFields
  <2> QED  BY <1>2, <2>1, <2>2
<1>8. CASE Collect
  <2>1. /\ UNCHANGED <<applied, table, refused, skipped, other>> /\ sync.at = "collect"
        /\ again' = again \cup (ToSet(pending) \cap ToSet(other.todo))
    BY <1>8 DEF Collect, table
  <2>2. CASE EndSync
    BY <1>2, <2>1, <2>2
  <2>3. CASE pending # <<>> /\ Goto([sync EXCEPT !.at = "diff", !.batch = pending])
    <3>1. sync'.at = "diff" /\ sync'.batch = pending
      BY <2>3 DEF Goto, PullSound, PullOrdered, SyncFields
    <3> QED  BY <1>0, <2>1, <2>3, <3>1, SyncStays DEF Fetched
  <2> QED  BY <1>8, <2>2, <2>3 DEF Collect
<1>9. CASE Resolve
  <2>1. UNCHANGED <<applied, table, refused, skipped, other, again>> /\ sync.at = "diff"
    BY <1>9 DEF Resolve, table
  <2>2. CASE EndSync
    BY <1>2, <2>1, <2>2
  <2>3. CASE Goto([sync EXCEPT !.at = "apply", !.batch = sync.batch])
    <3>1. sync'.at = "apply" /\ sync'.batch = sync.batch
      BY <2>3 DEF Goto, PullSound, PullOrdered, SyncFields
    <3> QED  BY <1>0, <2>1, <3>1, SyncStays DEF Batched
  <2>4. \/ shifted'
        \/ EndSync \/ Goto([sync EXCEPT !.at = "apply", !.batch = sync.batch])
    BY <1>9 DEF Resolve
  <2> QED  BY <2>2, <2>3, <2>4
<1>10. CASE DiffFails
  BY <1>2, <1>10 DEF DiffFails, marks
<1>11. CASE ApplySucceeds
  BY <1>0, <1>11, ApplySucceedsKeeps
<1>12. CASE ApplyFails
  BY <1>0, <1>12, ApplyFailsKeeps
<1>13. CASE RemoveRow
  BY <1>0, <1>13, RemoveRowKeeps
<1>14. CASE RemoveFails
  BY <1>14 DEF RemoveFails
<1>15. CASE TurnIdle
  BY <1>1, <1>15 DEF TurnIdle, server, marks
<1>16. CASE Kill
  <2>1. /\ UNCHANGED <<applied, pending, made, retries, refused, skipped>>
        /\ DOMAIN other' = {"at", "todo"} /\ other'.at = "none" /\ other'.todo = <<>>
        /\ sync'.at = "none"
        /\ again' = again \cup {m \in ToSet(pending) : applied[m] > 0}
    BY <1>16 DEF Kill, table, NoSync, NoPush
  <2>2. FetchedSound' /\ PushSound'
    BY <2>1 DEF FetchedSound, PushSound, Fetched, ToSet, Batched
  <2>3. \A m \in ToSet(pending) : applied[m] > 0 /\ MaySend(m) => MaySend(m)'
    BY <2>1 DEF MaySend
  <2> QED  BY <1>0, <2>1, <2>2, <2>3, TableStays DEF Batched
<1>17. CASE UNCHANGED deltaVars
  BY <1>1, <1>17 DEF deltaVars, table
<1> QED  BY <1>3, <1>4, <1>5, <1>6, <1>7, <1>8, <1>9, <1>10, <1>11, <1>12, <1>13, <1>14, <1>15, <1>16,
            <1>17 DEF DeltaNext, SyncStep

\* Before anything was made the table is sound.
LEMMA TableInit == DeltaInit => TableInv
<1> SUFFICES ASSUME DeltaInit PROVE TableSound
  BY DEF TableInv
<1>1. /\ DOMAIN other = {"at", "todo"} /\ other.at = "none" /\ other.todo = <<>> /\ Fetched = {}
  BY DEF DeltaInit, NoPush, Fetched, ToSet
<1>2. FetchedSound /\ PushSound
  BY <1>1 DEF DeltaInit, NoSync, Batched, FetchedSound, PushSound
<1>3. RowsOnce /\ ExecutedMade /\ BatchFirst
  BY DeltaAssumption DEF DeltaInit, NoSync, RowsOnce, ExecutedMade, BatchFirst, Batched
<1> QED  BY <1>2, <1>3 DEF DeltaInit, TableSound, ToSet

\* The table and the batch, in every reachable state.
THEOREM TableIsSound == DeltaSpec => []TableInv
<1>1. PullSound /\ TableInv /\ [DeltaNext]_deltaVars => TableInv'
  BY TableKeeps
<1> QED  BY TableInit, PullIsSound, <1>1, PTL DEF DeltaSpec

\* A row leaves pending_sync unexecuted only if the server refused the change in a batch it
\* accepted, SyncService took it for sent or gave it up after three failures, or rows went
\* out of their order: whatever order the two services, the technician, lost answers,
\* failing deletions and kills take.
THEOREM LeftUnsentIsExplained == DeltaSpec => []LeftUnsentExplained
<1>1. TableInv => LeftUnsentExplained
  BY DEF TableInv, TableSound, MayBeGone, LeftUnsentExplained
<1> QED  BY TableIsSound, <1>1, PTL

\* The server executes a mutation twice only after an event that gave a reason to send
\* it again, or after rows went out of their order.
THEOREM SentTwiceIsExplained == DeltaSpec => []SentTwiceExplained
<1>1. TableInv => SentTwiceExplained
  BY DEF TableInv, TableSound, SentTwiceExplained
<1> QED  BY TableIsSound, <1>1, PTL
-----------------------------------------------------------------------------
(* The types, which hold however the rows were shifted: a batch that is     *)
(* being sent or removed has a change left, and a run a mutation to handle.  *)

DeltaTyped ==
    /\ DeltaTypeOK
    /\ Batched => sync.batch # <<>>
    /\ DOMAIN other = {"at", "todo"} /\ (other.at # "none" => other.todo # <<>>)

\* The elements of a sequence, and what Head, Tail and Append make of it.
LEMMA RowsTyped ==
  ASSUME NEW S, NEW s \in Seq(S)
  PROVE  /\ ToSet(s) \subseteq S
         /\ s # <<>> => Head(s) \in S /\ Tail(s) \in Seq(S)
         /\ \A m \in S : Append(s, m) \in Seq(S)
<1>1. \A i \in DOMAIN s : s[i] \in S
  OBVIOUS
<1> QED  BY <1>1 DEF ToSet

\* What a step does outside the sync is of its type.
OthersTyped ==
    /\ applied \in [Mutations -> 0 .. 2]
    /\ pending \in Seq(Mutations) /\ made \subseteq Mutations
    /\ retries \in [Mutations -> 0 .. MaxRetries]
    /\ other.at \in {"none", "call", "remove", "retry", "drop"} /\ other.todo \in Seq(Mutations)
    /\ DOMAIN other = {"at", "todo"} /\ (other.at # "none" => other.todo # <<>>)
    /\ stale \subseteq ToSet(Entities)
    /\ refused \subseteq Mutations /\ skipped \subseteq Mutations /\ again \subseteq Mutations /\ shifted \in BOOLEAN

\* The end of a sync leaves nothing behind.
LEMMA EndTyped == ASSUME EndSync, OthersTyped' PROVE DeltaTyped'
BY DeltaAssumption DEF EndSync, NoSync, OthersTyped, DeltaTyped, DeltaTypeOK, Batched

\* A sync that goes on with a batch keeps what it has pulled.
LEMMA GotoTyped ==
  ASSUME DeltaTyped, OthersTyped', NEW next, Goto(next),
         next.at \in {"diff", "apply", "remove"}, next.batch \in Seq(Mutations), next.batch # <<>>,
         next.attempt \in 0 .. MaxAttempts - 1,
         next.failed = sync.failed, next.owed = sync.owed
  PROVE  DeltaTyped'
BY DEF Goto, OthersTyped, DeltaTyped, DeltaTypeOK, Batched

\* What survives of a batch is a sequence again.
LEMMA InTimeTyped ==
  ASSUME NEW kept, kept \subseteq Mutations, NEW order \in InTime(kept)
  PROVE  order \in Seq(Mutations)
<1>1. Mutations = 1 .. Len(Field) /\ Len(Field) \in Nat
  BY DeltaAssumption DEF Mutations
<1>2. IsFiniteSet(Mutations)
  BY <1>1, FS_Interval
<1>3. Cardinality(kept) \in Nat
  BY <1>2, FS_Subset, FS_CardinalityType
<1>4. order \in [1 .. Cardinality(kept) -> kept]
  BY DEF InTime
<1> QED  BY <1>3, <1>4

\* What the server executes and refuses is counted up to two.
LEMMA ExecuteTyped ==
  ASSUME DeltaTypeOK, NEW refusals \in SUBSET ToSet(sync.batch), Execute(refusals)
  PROVE  /\ applied' \in [Mutations -> 0 .. 2] /\ refused' \subseteq Mutations
         /\ stale' \subseteq ToSet(Entities)
<1>1. ToSet(sync.batch) \subseteq Mutations
  BY RowsTyped DEF DeltaTypeOK
<1> QED  BY <1>1, TwoEntities DEF DeltaTypeOK, Execute, Count

\* One entity was pulled.
LEMMA PulledTyped ==
  ASSUME PullSound, DeltaTyped, OthersTyped', NEW failed \in BOOLEAN, NEW owed,
         sync.at = "pull", Pulled(failed, owed), status' = status, changed' \subseteq ToSet(Entities),
         owed \subseteq ToSet(Entities)
  PROVE  DeltaTyped'
BY DEF Pulled, PullSound, PullOrdered, SyncFields, OthersTyped, DeltaTyped, DeltaTypeOK, Batched

\* What SyncService does is of its type.
LEMMA PushTyped == ASSUME OthersTyped, PushStep PROVE OthersTyped' /\ UNCHANGED <<sync, status>>
<1>1. other.at # "none" =>
        /\ Mutation \in Mutations /\ Tail(other.todo) \in Seq(Mutations)
        /\ NextMutation => /\ other'.at \in {"none", "call"} /\ other'.todo \in Seq(Mutations)
                           /\ DOMAIN other' = {"at", "todo"}
                           /\ other'.at # "none" => other'.todo # <<>>
  <2>1. SUFFICES ASSUME other.at # "none"
                 PROVE  /\ Mutation \in Mutations /\ Tail(other.todo) \in Seq(Mutations)
                        /\ NextMutation => /\ other'.at \in {"none", "call"} /\ other'.todo \in Seq(Mutations)
                                           /\ DOMAIN other' = {"at", "todo"}
                                           /\ other'.at # "none" => other'.todo # <<>>
    OBVIOUS
  <2>2. Mutation \in Mutations /\ Tail(other.todo) \in Seq(Mutations)
    BY <2>1, RowsTyped DEF OthersTyped, Mutation
  <2>3. <<>> \in Seq(Mutations)
    OBVIOUS
  <2>4. CASE Tail(other.todo) = <<>>
    <3>1. NextMutation => /\ other'.at = "none" /\ other'.todo = <<>>
                          /\ DOMAIN other' = {"at", "todo"}
      BY <2>4 DEF NextMutation, NoPush
    <3> QED  BY <2>2, <2>3, <3>1
  <2>5. CASE Tail(other.todo) # <<>>
    <3> DEFINE rest == Tail(other.todo)
    <3>1. rest # <<>> /\ rest \in Seq(Mutations)
      BY <2>2, <2>5
    <3>2. NextMutation => other' = [at |-> "call", todo |-> rest]
      BY <2>5 DEF NextMutation
    <3> HIDE DEF rest
    <3> QED  BY <2>2, <3>1, <3>2
  <2> QED  BY <2>4, <2>5
<1>2. ToSet(pending) \subseteq Mutations
  BY RowsTyped DEF OthersTyped
<1>3. CASE PushFetches
  BY <1>2, <1>3 DEF PushFetches, OthersTyped, server, table
<1>4. CASE PushSucceeds \/ PushFails
  <2>1. /\ other.at = "call" /\ UNCHANGED <<table, sync, status, refused, shifted>>
        /\ DOMAIN other' = {"at", "todo"} /\ other'.at \in {"remove", "retry"} /\ other'.todo = other.todo
    BY <1>4 DEF PushSucceeds, PushFails, OthersTyped
  <2>2. /\ applied' = applied \/ applied' = [applied EXCEPT ![Mutation] = Count(@)]
        /\ stale' = stale \/ stale' = stale \cup {"work_orders"}
        /\ skipped' = skipped \/ skipped' = skipped \cup {Mutation}
        /\ again' = again \/ again' = again \cup {Mutation}
    BY <1>4 DEF PushSucceeds, PushFails, Change, server
  <2>3. applied' \in [Mutations -> 0 .. 2]
    <3>1. Mutation \in Mutations /\ applied \in [Mutations -> 0 .. 2]
      BY <1>1, <2>1 DEF OthersTyped
    <3>2. Count(applied[Mutation]) \in 0 .. 2
      BY DEF Count
    <3> QED  BY <2>2, <3>1, <3>2
  <2> QED  BY <1>1, <2>1, <2>2, <2>3, TwoEntities DEF OthersTyped, table
<1>5. CASE PushRemoves
  <2>1. pending' \in Seq(Mutations)
    <3>1. ASSUME NEW i \in DOMAIN pending PROVE RemoveAt(pending, i) \in Seq(Mutations)
      BY RemoveAtFacts DEF OthersTyped
    <3> QED  BY <1>5, <3>1 DEF PushRemoves, OthersTyped
  <2>2. shifted' \in BOOLEAN
    BY <1>5 DEF PushRemoves, OthersTyped, Batched, Stored
  <2> QED  BY <1>1, <1>5, <2>1, <2>2 DEF PushRemoves, OthersTyped, server
<1>6. CASE PushCounts
  <2>1. retries' \in [Mutations -> 0 .. MaxRetries]
    BY <1>1, <1>6, DeltaAssumption DEF PushCounts, OthersTyped, OneMore
  <2>2. \/ NextMutation
        \/ DOMAIN other' = {"at", "todo"} /\ other'.at = "drop" /\ other'.todo = other.todo
    BY <1>6 DEF PushCounts, OthersTyped
  <2>3. other.at = "retry" /\ UNCHANGED <<server, stale, pending, made, status, sync, marks>>
    BY <1>6 DEF PushCounts
  <2> QED  BY <1>1, <2>1, <2>2, <2>3 DEF OthersTyped, server, marks
<1>7. CASE PushThrows
  <2>1. /\ other.at \in {"remove", "retry", "drop"}
        /\ UNCHANGED <<server, stale, table, status, sync, refused, skipped, shifted>>
        /\ again' = again \/ again' = again \cup {Mutation}
    BY <1>7 DEF PushThrows
  <2>2. \/ other' = NoPush
        \/ DOMAIN other' = {"at", "todo"} /\ other'.at = "retry" /\ other'.todo = other.todo
    BY <1>7 DEF PushThrows, OthersTyped
  <2>3. other'.todo \in Seq(Mutations) /\ DOMAIN other' = {"at", "todo"}
        /\ other'.at \in {"none", "retry"} /\ (other'.at # "none" => other'.todo # <<>>)
    <3>1. <<>> \in Seq(Mutations)
      OBVIOUS
    <3>2. CASE other' = NoPush
      BY <3>1, <3>2 DEF NoPush
    <3>3. other.todo \in Seq(Mutations) /\ (other.at # "none" => other.todo # <<>>)
      BY DEF OthersTyped
    <3> QED  BY <2>1, <2>2, <3>2, <3>3
  <2> QED  BY <1>1, <2>1, <2>3 DEF OthersTyped, server, table
<1> QED  BY <1>3, <1>4, <1>5, <1>6, <1>7 DEF PushStep

\* Each step keeps the types.
LEMMA TypesKeep == ASSUME PullSound, DeltaTyped, [DeltaNext]_deltaVars PROVE DeltaTyped'
<1>0. OthersTyped /\ DeltaTypeOK
  BY DEF DeltaTyped, DeltaTypeOK, OthersTyped
<1>1. ASSUME UNCHANGED <<sync, status>>, changed' \subseteq ToSet(Entities), OthersTyped' PROVE DeltaTyped'
  BY <1>1 DEF DeltaTyped, DeltaTypeOK, OthersTyped, Batched
<1>2. ASSUME NEW e \in ToSet(Entities), ServerChange(e) PROVE DeltaTyped'
  <2>1. OthersTyped'
    BY <1>0, <1>2 DEF ServerChange, Change, OthersTyped, table, marks
  <2>2. UNCHANGED <<sync, status>> /\ changed' \subseteq ToSet(Entities)
    BY <1>0, <1>2 DEF ServerChange, Change, DeltaTypeOK
  <2> QED  BY <1>1, <2>1, <2>2
<1>3. ASSUME NEW m \in Mutations, Edit(m) PROVE DeltaTyped'
  <2>1. OthersTyped'
    BY <1>0, <1>3, RowsTyped DEF Edit, OthersTyped, server, marks
  <2>2. UNCHANGED <<sync, status>> /\ changed' \subseteq ToSet(Entities)
    BY <1>0, <1>3 DEF Edit, DeltaTypeOK, server
  <2> QED  BY <1>1, <2>1, <2>2
<1>4. CASE PushStep
  <2>1. OthersTyped' /\ UNCHANGED <<sync, status>>
    BY <1>0, <1>4, PushTyped
  <2>2. changed' \subseteq ToSet(Entities)
    BY <1>0, <1>4, TwoEntities DEF DeltaTypeOK, PushStep, PushFetches, PushSucceeds, PushFails,
       PushRemoves, PushCounts, PushThrows, Change, server
  <2> QED  BY <1>1, <2>1, <2>2
<1>5. CASE StartSync
  <2>1. OthersTyped'
    BY <1>0, <1>5 DEF StartSync, OthersTyped, table, marks
  <2>2. <<>> \in Seq(Mutations)
    OBVIOUS
  <2> QED  BY <1>0, <1>5, <2>1, <2>2, DeltaAssumption
           DEF StartSync, NoSync, OthersTyped, DeltaTyped, DeltaTypeOK, Batched
<1>7. CASE PullEntity
  <2>1. OthersTyped' /\ sync.at = "pull" /\ status' = status /\ changed' \subseteq ToSet(Entities)
    BY <1>0, <1>7 DEF PullEntity, OthersTyped, table, marks
  <2>2. PICK owed \in SUBSET ToSet(Entities) : Pulled(FALSE, owed)
    <3>1. sync.owed \subseteq ToSet(Entities)
      BY <1>0 DEF DeltaTypeOK
    <3> QED  BY <1>7, <3>1 DEF PullEntity
  <2> QED  BY <2>1, <2>2, PulledTyped
<1>8. CASE PullFails
  <2>1. OthersTyped' /\ sync.at = "pull" /\ status' = status /\ changed' \subseteq ToSet(Entities)
    BY <1>0, <1>8 DEF PullFails, PullFailsCounting, OthersTyped, DeltaTypeOK, server, table, marks
  <2>2. Pulled(TRUE, sync.owed) /\ sync.owed \subseteq ToSet(Entities)
    BY <1>0, <1>8 DEF PullFails, PullFailsCounting, DeltaTypeOK
  <2> QED  BY <2>1, <2>2, PulledTyped
<1>9. CASE Collect
  <2>1. OthersTyped'
    <3>1. ToSet(pending) \subseteq Mutations
      BY <1>0, RowsTyped DEF OthersTyped
    <3> QED  BY <1>0, <1>9, <3>1 DEF Collect, OthersTyped, table
  <2>2. CASE pending # <<>>
    <3> DEFINE next == [sync EXCEPT !.at = "diff", !.batch = pending]
    <3>1. /\ next.at = "diff" /\ next.batch = pending /\ next.attempt = sync.attempt
          /\ next.failed = sync.failed /\ next.owed = sync.owed
      BY DEF PullSound, PullOrdered, SyncFields
    <3>2. Goto(next) /\ pending \in Seq(Mutations) /\ sync.attempt \in 0 .. MaxAttempts - 1
      BY <1>0, <1>9, <2>2 DEF Collect, DeltaTypeOK
    <3> HIDE DEF next
    <3> QED  BY <2>1, <2>2, <3>1, <3>2, GotoTyped
  <2> QED  BY <1>9, <2>1, <2>2, EndTyped DEF Collect
<1>10. CASE Resolve
  <2> DEFINE kept == {m \in ToSet(sync.batch) : Survives(m, "work_orders" \in changed)}
             orders == IF kept = ToSet(sync.batch) THEN {sync.batch} ELSE InTime(kept)
  <2>1. sync.batch \in Seq(Mutations) /\ sync.attempt \in 0 .. MaxAttempts - 1 /\ sync.at = "diff"
    BY <1>0, <1>10 DEF DeltaTypeOK, Resolve
  <2>2. PICK resolved \in orders :
           IF resolved = <<>> THEN EndSync ELSE Goto([sync EXCEPT !.at = "apply", !.batch = resolved])
    BY <1>10 DEF Resolve
  <2>3. resolved \in Seq(Mutations)
    <3>1. kept \subseteq Mutations
      BY <2>1, RowsTyped
    <3> HIDE DEF kept
    <3> QED  BY <2>1, <3>1, InTimeTyped
  <2>4. OthersTyped'
    BY <1>0, <1>10 DEF Resolve, OthersTyped, table
  <2> DEFINE next == [sync EXCEPT !.at = "apply", !.batch = resolved]
  <2>5. /\ next.at = "apply" /\ next.batch = resolved /\ next.attempt = sync.attempt
        /\ next.failed = sync.failed /\ next.owed = sync.owed
    BY DEF PullSound, PullOrdered, SyncFields
  <2>6. IF resolved = <<>> THEN EndSync ELSE Goto(next)
    BY <2>2
  <2> HIDE DEF next, orders
  <2>7. CASE resolved = <<>>
    BY <2>4, <2>6, <2>7, EndTyped
  <2>8. CASE resolved # <<>>
    BY <2>1, <2>3, <2>4, <2>5, <2>6, <2>8, GotoTyped
  <2> QED  BY <2>7, <2>8
<1>11. CASE DiffFails
  BY <1>0, <1>11, EndTyped DEF DiffFails, OthersTyped, table, marks
<1>12. CASE ApplySucceeds
  <2> DEFINE next == [sync EXCEPT !.at = "remove"]
  <2>1. PICK refusals \in SUBSET ToSet(sync.batch) : Execute(refusals)
    BY <1>12 DEF ApplySucceeds
  <2>2. OthersTyped'
    BY <1>0, <1>12, <2>1, ExecuteTyped DEF ApplySucceeds, OthersTyped, table
  <2>3. /\ next.at = "remove" /\ next.batch = sync.batch /\ next.attempt = sync.attempt
        /\ next.failed = sync.failed /\ next.owed = sync.owed
    BY DEF PullSound, PullOrdered, SyncFields
  <2>4. /\ Goto(next) /\ sync.attempt \in 0 .. MaxAttempts - 1
        /\ sync.batch \in Seq(Mutations) /\ sync.batch # <<>>
    BY <1>0, <1>12 DEF ApplySucceeds, DeltaTyped, DeltaTypeOK, Batched
  <2> HIDE DEF next
  <2> QED  BY <2>2, <2>3, <2>4, GotoTyped
<1>13. CASE ApplyFails
  <2>1. \/ UNCHANGED <<applied, stale, refused, again>>
        \/ Execute({}) /\ again' = again \cup ToSet(sync.batch)
    BY <1>13 DEF ApplyFails, FailsThen
  <2>2. ToSet(sync.batch) \subseteq Mutations /\ {} \in SUBSET ToSet(sync.batch)
    BY <1>0, RowsTyped DEF DeltaTypeOK
  <2>3. OthersTyped'
    <3>1. UNCHANGED <<table, other, skipped, shifted>>
      BY <1>13 DEF ApplyFails, FailsThen
    <3> QED  BY <1>0, <2>1, <2>2, <3>1, ExecuteTyped DEF OthersTyped, table
  <2>4. CASE sync.attempt < MaxAttempts - 1
    <3> DEFINE next == [sync EXCEPT !.attempt = sync.attempt + 1]
    <3>1. /\ next.at = sync.at /\ next.batch = sync.batch /\ next.attempt = sync.attempt + 1
          /\ next.failed = sync.failed /\ next.owed = sync.owed
      BY DEF PullSound, PullOrdered, SyncFields
    <3>2. /\ Goto(next) /\ sync.at = "apply" /\ sync.batch \in Seq(Mutations) /\ sync.batch # <<>>
          /\ sync.attempt + 1 \in 0 .. MaxAttempts - 1
      BY <1>0, <1>13, <2>4, DeltaAssumption DEF ApplyFails, FailsThen, DeltaTyped, DeltaTypeOK, Batched
    <3> HIDE DEF next
    <3> QED  BY <2>3, <3>1, <3>2, GotoTyped
  <2> QED  BY <1>13, <2>3, <2>4, EndTyped DEF ApplyFails, FailsThen
<1>14. CASE RemoveRow \/ RemoveFails
  <2>1. OthersTyped'
    <3>1. CASE RemoveFails
      BY <1>0, <3>1 DEF RemoveFails, OthersTyped, table
    <3>2. CASE RemoveRow
      <4>1. pending' \in Seq(Mutations)
        BY <1>0, <3>2, RowsTyped DEF RemoveRow, RemovingTo, OthersTyped
      <4> QED  BY <1>0, <3>2, <4>1 DEF RemoveRow, RemovingTo, OthersTyped, marks
    <3> QED  BY <1>14, <3>1, <3>2
  <2>2. sync.at = "remove" /\ Confirmed
    BY <1>14 DEF RemoveRow, RemovingTo, RemoveFails
  <2> DEFINE next == [sync EXCEPT !.batch = Tail(sync.batch)]
  <2>3. /\ next.at = sync.at /\ next.batch = Tail(sync.batch) /\ next.attempt = sync.attempt
        /\ next.failed = sync.failed /\ next.owed = sync.owed
    BY DEF PullSound, PullOrdered, SyncFields
  <2>4. /\ sync.batch \in Seq(Mutations) /\ sync.batch # <<>> /\ sync.attempt \in 0 .. MaxAttempts - 1
    BY <1>0, <2>2 DEF DeltaTyped, DeltaTypeOK, Batched
  <2>5. Tail(sync.batch) \in Seq(Mutations)
    BY <2>4, RowsTyped
  <2>6. IF Tail(sync.batch) = <<>> THEN EndSync ELSE Goto(next)
    BY <2>2 DEF Confirmed
  <2> HIDE DEF next
  <2>7. CASE Tail(sync.batch) = <<>>
    BY <2>1, <2>6, <2>7, EndTyped
  <2>8. CASE Tail(sync.batch) # <<>>
    BY <2>1, <2>2, <2>3, <2>4, <2>5, <2>6, <2>8, GotoTyped
  <2> QED  BY <2>7, <2>8
<1>15. CASE TurnIdle
  BY <1>0, <1>15 DEF TurnIdle, OthersTyped, DeltaTyped, DeltaTypeOK, Batched, server, table, marks
<1>16. CASE Kill
  <2>1. ToSet(pending) \subseteq Mutations
    BY <1>0, RowsTyped DEF OthersTyped
  <2>2. OthersTyped' /\ sync' = NoSync /\ changed' = {} /\ status' = "idle"
    BY <1>0, <1>16, <2>1 DEF Kill, NoPush, OthersTyped, table
  <2>3. <<>> \in Seq(Mutations)
    OBVIOUS
  <2>4. /\ sync'.at = "none" /\ sync'.failed = FALSE /\ sync'.attempt = 0 /\ sync'.batch = <<>>
        /\ sync'.owed = {}
    BY <2>2 DEF NoSync
  <2>5. sync'.attempt \in 0 .. MaxAttempts - 1
    BY <2>4, DeltaAssumption
  <2>6. \A entities \in {changed', stale', sync'.owed} : entities \subseteq ToSet(Entities)
    BY <2>2, <2>4 DEF OthersTyped
  <2> QED  BY <2>2, <2>3, <2>4, <2>5, <2>6 DEF OthersTyped, DeltaTyped, DeltaTypeOK, Batched
<1>17. CASE UNCHANGED deltaVars
  BY <1>17 DEF deltaVars, DeltaTyped, DeltaTypeOK, Batched
<1>18. Changing \subseteq ToSet(Entities)
  BY DeltaAssumption DEF Entities, ToSet
<1> QED  BY <1>18, <1>2, <1>3, <1>4, <1>5, <1>7, <1>8, <1>9, <1>10, <1>11, <1>12, <1>13, <1>14, <1>15, <1>16,
            <1>17 DEF DeltaNext, SyncStep

\* Every variable of the differential sync and of the table it shares with SyncService
\* keeps its type, however the two interleave; in particular no attempt beyond the limit is made.
THEOREM DeltaTypeCorrect == DeltaSpec => []DeltaTypeOK
<1>1. DeltaInit => DeltaTyped
  <2>1. <<>> \in Seq(Mutations)
    OBVIOUS
  <2>2. \A entities \in {{}, ToSet(Entities)} : entities \subseteq ToSet(Entities)
    OBVIOUS
  <2> SUFFICES ASSUME DeltaInit PROVE DeltaTyped
    OBVIOUS
  <2>3. /\ sync.at = "none" /\ sync.failed = FALSE /\ sync.attempt = 0 /\ sync.batch = <<>>
        /\ sync.owed = {}
    BY DEF DeltaInit, NoSync
  <2>4. \A entities \in {changed, stale, sync.owed} : entities \subseteq ToSet(Entities)
    <3>1. Changing \subseteq ToSet(Entities)
      BY DeltaAssumption DEF Entities, ToSet
    <3> QED  BY <2>2, <2>3, <3>1 DEF DeltaInit
  <2>5. /\ applied \in [Mutations -> 0 .. 2] /\ retries \in [Mutations -> 0 .. MaxRetries]
        /\ refused \subseteq Mutations /\ skipped \subseteq Mutations /\ again \subseteq Mutations
    BY DeltaAssumption DEF DeltaInit
  <2>6. /\ pending \in Seq(Mutations) /\ made \subseteq Mutations
        /\ status = "idle" /\ shifted = FALSE
    BY <2>1 DEF DeltaInit
  <2>7. sync.failed \in BOOLEAN /\ shifted \in BOOLEAN /\ sync.batch \in Seq(Mutations)
    BY <2>1, <2>3, <2>6, Zenon
  <2>8. status \in {"idle", "syncing", "success", "error"} /\ ~Batched
    BY <2>3, <2>6 DEF Batched
  <2>9. /\ sync.at \in {"none", "pull", "collect", "diff", "apply", "remove"}
        /\ sync.attempt \in 0 .. MaxAttempts - 1
    BY <2>3, DeltaAssumption
  <2>10. /\ DOMAIN other = {"at", "todo"} /\ other.at = "none" /\ other.todo \in Seq(Mutations)
    BY <2>1 DEF DeltaInit, NoPush
  <2> HIDE DEF Batched
  <2> QED  BY <2>4, <2>5, <2>6, <2>7, <2>8, <2>9, <2>10 DEF DeltaTyped, DeltaTypeOK
<1>2. PullSound /\ DeltaTyped /\ [DeltaNext]_deltaVars => DeltaTyped'
  BY TypesKeep
<1>3. DeltaTyped => DeltaTypeOK
  BY DEF DeltaTyped
<1> QED  BY PullIsSound, <1>1, <1>2, <1>3, PTL DEF DeltaSpec
=============================================================================

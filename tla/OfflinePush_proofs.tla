-------------------------- MODULE OfflinePush_proofs --------------------------
(***************************************************************************)
(* What the push of offline mutations guarantees for any number of         *)
(* mutations, kills and outages.  Five callers start runs; one flag keeps  *)
(* runs from overlapping, so what a run has fetched is what SQLite still   *)
(* holds, a row is left only for a success or a final drop, and every      *)
(* execution of a mutation that still waits went unrecorded.               *)
(***************************************************************************)
EXTENDS OfflinePush, TLAPS

\* The flag is set exactly while a run is under way.
OneRun ==
    /\ isSyncing <=> run # "none"
    /\ run \in {"none", "fetch"} => batch = {}

\* What the run has fetched is still stored, and counted no higher than there.
Current == {"call", "remove", "retry", "drop"}
Fetched ==
    /\ \A row \in batch : row.id \in DOMAIN pending /\ row.retry <= pending[row.id]
    /\ \A row, other \in batch : row.id = other.id => row = other
    /\ run \in Current =>
           /\ mutation \in Row /\ mutation.id \in DOMAIN pending
           /\ mutation.retry <= pending[mutation.id]
           /\ \A row \in batch : row.id # mutation.id

\* The stored count never runs ahead of the failures.
Counted ==
    /\ \A m \in DOMAIN pending : pending[m] <= failures[m]
    /\ run = "retry" => pending[mutation.id] + 1 <= failures[mutation.id]
    /\ run = "drop" => failures[mutation.id] >= MaxRetries

\* A row about to be removed was applied, or has a payload that nobody sends.
Executed == run = "remove" => applied[mutation.id] > 0 \/ mutation.id \in Unsent

\* Every execution of a mutation that may be sent again went unrecorded.
Sendable(m) ==
    \/ m \notin made
    \/ m \in DOMAIN pending /\ ~(run = "remove" /\ mutation.id = m)
Unrecorded == \A m \in Mutations : Sendable(m) => applied[m] <= blind[m]

Promises == NothingForgotten /\ DroppedAfterThree /\ DuplicatesExplained

IInv == TypeOK /\ OneRun /\ Fetched /\ Counted /\ Executed /\ Unrecorded /\ Promises

-----------------------------------------------------------------------------
\* The invariant holds on a phone that has never run the app.
LEMMA InitIInv == Init => IInv
<1> SUFFICES ASSUME Init PROVE IInv
  OBVIOUS
<1> USE PushAssumption DEF Init
<1>0. DOMAIN pending = {}
  OBVIOUS
<1>1. TypeOK
  <2>1. crashes \in 0 .. MaxCrashes /\ outages \in 0 .. MaxOutages
    OBVIOUS
  <2>2. applied \in [Mutations -> Nat] /\ failures \in [Mutations -> Nat] /\ blind \in [Mutations -> Nat]
    OBVIOUS
  <2>3. DOMAIN pending \subseteq made /\ \A m \in DOMAIN pending : pending[m] \in Nat
    BY <1>0
  <2>4. batch \subseteq Row /\ resuming \subseteq Mutations \cup {Initialize}
    OBVIOUS
  <2> QED  BY <2>1, <2>2, <2>3, <2>4 DEF TypeOK
<1>2. OneRun /\ Fetched /\ Counted /\ Executed
  BY <1>0 DEF OneRun, Fetched, Counted, Executed, Current
<1>3. Unrecorded /\ Promises
  BY DEF Unrecorded, Promises, NothingForgotten, DroppedAfterThree, DuplicatesExplained
<1> QED  BY <1>1, <1>2, <1>3 DEF IInv

\* A caller may start a run if none is under way; the flag sees to it.
LEMMA CallersKeep ==
  ASSUME IInv, TypeOK',
         UNCHANGED <<pending, batch, mutation, made, applied, failures, blind, dropped>>,
         \/ run' = run /\ isSyncing' = isSyncing
         \/ ~isSyncing /\ run' = "fetch" /\ isSyncing' = TRUE
  PROVE  IInv'
<1>1. OneRun'
  BY DEF IInv, OneRun
<1>2. Fetched'
  BY DEF IInv, Fetched, OneRun, Current
<1>3. Counted' /\ Executed'
  BY DEF IInv, Counted, Executed
<1>4. Unrecorded'
  BY DEF IInv, Unrecorded, Sendable, OneRun
<1>5. Promises'
  BY DEF IInv, Promises, NothingForgotten, Waits, DroppedAfterThree, DuplicatesExplained
<1> QED  BY <1>1, <1>2, <1>3, <1>4, <1>5 DEF IInv

\* The callers: foreground, button, background task, start of the app, network.
LEMMA CallerSteps ==
  ASSUME IInv,
         \/ SyncWhenOnline \/ SyncNow \/ Start \/ Wake \/ NetworkLost \/ NetworkRestored
         \/ \E r \in resuming : Resume(r)
  PROVE  IInv'
<1> USE PushAssumption DEF phone, server, bounds, service, Begin, Refrain
<1>0. TypeOK
  BY DEF IInv
<1>1. UNCHANGED <<pending, batch, mutation, made, applied, failures, blind, dropped, crashes>>
  BY DEF SyncWhenOnline, SyncNow, Start, Wake, NetworkLost, NetworkRestored, Resume
<1>2. \/ run' = run /\ isSyncing' = isSyncing
      \/ ~isSyncing /\ run' = "fetch" /\ isSyncing' = TRUE
  BY DEF SyncWhenOnline, SyncNow, Start, Wake, NetworkLost, NetworkRestored, Resume
<1>3. outages' \in 0 .. MaxOutages
  BY <1>0 DEF SyncWhenOnline, SyncNow, Start, Wake, NetworkLost, NetworkRestored, Resume, TypeOK
<1>4. network' \in BOOLEAN /\ app' \in {"dead", "woken", "open"}
  BY <1>0 DEF SyncWhenOnline, SyncNow, Start, Wake, NetworkLost, NetworkRestored, Resume, TypeOK
<1>5. status' \in {"online", "offline", "syncing"} /\ manual' \in BOOLEAN
  BY <1>0 DEF SyncWhenOnline, SyncNow, Start, Wake, NetworkLost, NetworkRestored, Resume, TypeOK
<1>6. resuming' \subseteq Mutations \cup {Initialize}
  BY <1>0 DEF SyncWhenOnline, SyncNow, Start, Wake, NetworkLost, NetworkRestored, Resume, TypeOK
<1>7. TypeOK'
  BY <1>0, <1>1, <1>2, <1>3, <1>4, <1>5, <1>6 DEF TypeOK
<1> QED  BY <1>1, <1>2, <1>7, CallersKeep

\* The user makes a mutation: its row is new, and a run under way has not fetched it.
LEMMA EnqueueKeeps == ASSUME IInv, NEW m \in Mutations, EnqueueMutation(m) PROVE IInv'
<1> USE PushAssumption DEF phone, server, bounds, service
<1>0. TypeOK /\ m \notin made /\ m \notin DOMAIN pending
  BY DEF IInv, TypeOK, EnqueueMutation
<1>1. /\ made' = made \cup {m}
      /\ pending' = [n \in DOMAIN pending \cup {m} |-> IF n = m THEN 0 ELSE pending[n]]
      /\ resuming' = resuming \cup {m}
      /\ UNCHANGED <<network, app, status, isSyncing, run, manual, batch, mutation,
                     applied, failures, blind, dropped, crashes, outages>>
  BY DEF EnqueueMutation
<1>2. TypeOK'
  BY <1>0, <1>1 DEF TypeOK
<1>3. OneRun' /\ Fetched'
  BY <1>0, <1>1 DEF IInv, OneRun, Fetched
<1>4. Counted'
  <2>1. run \in {"retry", "drop"} => mutation.id \in DOMAIN pending /\ mutation.id # m
    BY <1>0 DEF IInv, Fetched, Current
  <2>2. failures[m] >= 0
    BY <1>0 DEF TypeOK
  <2> QED  BY <1>1, <2>1, <2>2 DEF IInv, Counted
<1>5. Executed'
  BY <1>1 DEF IInv, Executed
<1>6. Unrecorded'
  <2>1. ASSUME NEW n \in Mutations, Sendable(n)' PROVE Sendable(n)
    BY <1>0, <1>1, <2>1 DEF Sendable
  <2> QED  BY <1>1, <2>1 DEF IInv, Unrecorded
<1>7. Promises'
  BY <1>0, <1>1 DEF IInv, Promises, NothingForgotten, Waits, DroppedAfterThree, DuplicatesExplained
<1> QED  BY <1>2, <1>3, <1>4, <1>5, <1>6, <1>7 DEF IInv

\* A run fetches the rows, takes the oldest, and ends with the pull.
LEMMA RunKeeps == ASSUME IInv, Fetch \/ TakeMutation \/ Pull PROVE IInv'
<1> USE PushAssumption DEF phone, server, bounds
<1>0. TypeOK /\ OneRun /\ Fetched
  BY DEF IInv
<1>1. /\ UNCHANGED <<network, app, pending, manual, resuming, made, applied, failures, blind, dropped, crashes, outages>>
      /\ run \in {"fetch", "next", "pull"}
  BY DEF Fetch, TakeMutation, Pull
<1>2. TypeOK' /\ OneRun' /\ Fetched'
  <2>1. CASE Fetch
    <3>1. /\ run = "fetch" /\ run' = "next" /\ batch' = {[id |-> m, retry |-> pending[m]] : m \in DOMAIN pending}
          /\ UNCHANGED <<status, isSyncing, mutation>>
      BY <2>1 DEF Fetch
    <3>2. batch' \subseteq Row
      <4> SUFFICES ASSUME NEW m \in DOMAIN pending PROVE [id |-> m, retry |-> pending[m]] \in Row
        BY <3>1
      <4>1. m \in Mutations /\ pending[m] \in Nat
        BY <1>0 DEF TypeOK
      <4> QED  BY <4>1 DEF Row
    <3>3. TypeOK'
      BY <1>0, <1>1, <3>1, <3>2 DEF TypeOK
    <3>4. \A row \in batch' : row.id \in DOMAIN pending /\ row.retry = pending[row.id] /\ row \in Row
      BY <3>1, <3>2
    <3>5. \A row, other \in batch' : row.id = other.id => row = other
      BY <3>1
    <3>6. \A row \in batch' : row.retry \in Nat
      BY <3>4 DEF Row
    <3>7. \A row \in batch' : row.id \in DOMAIN pending /\ row.retry <= pending[row.id]
      BY <3>4, <3>6
    <3>8. Fetched'
      BY <1>1, <3>1, <3>5, <3>7 DEF Fetched, Current
    <3> QED  BY <1>0, <3>1, <3>3, <3>8 DEF OneRun
  <2>2. CASE TakeMutation
    <3>1. UNCHANGED <<status, isSyncing>> /\ run = "next"
      BY <2>2 DEF TakeMutation
    <3>2. CASE batch = {} /\ run' = "pull" /\ batch' = batch /\ mutation' = mutation
      BY <1>0, <1>1, <3>1, <3>2 DEF TypeOK, OneRun, Fetched, Current
    <3>3. CASE \E row \in batch : batch' = batch \ {row} /\ mutation' = row /\ run' = "call"
      BY <1>0, <1>1, <3>1, <3>3 DEF TypeOK, OneRun, Fetched, Current
    <3> QED  BY <2>2, <3>2, <3>3 DEF TakeMutation
  <2>3. CASE Pull
    <3>1. /\ run' = "none" /\ batch' = {} /\ mutation' = NoRow /\ isSyncing' = FALSE
          /\ status' \in {"online", "offline"}
      BY <2>3 DEF Pull
    <3> QED  BY <1>0, <1>1, <3>1 DEF TypeOK, OneRun, Fetched, Current
  <2> QED  BY <2>1, <2>2, <2>3
<1>3. run' \in {"next", "call", "pull", "none"}
  BY DEF Fetch, TakeMutation, Pull
<1>4. Counted' /\ Executed'
  BY <1>1, <1>3 DEF IInv, Counted, Executed
<1>5. Unrecorded'
  BY <1>1, <1>3 DEF IInv, Unrecorded, Sendable
<1>6. Promises'
  BY <1>1 DEF IInv, Promises, NothingForgotten, Waits, DroppedAfterThree, DuplicatesExplained
<1> QED  BY <1>2, <1>4, <1>5, <1>6 DEF IInv

\* The request returns or throws; what the server did is counted.
LEMMA CallKeeps == ASSUME IInv, CallSucceeds \/ CallFails PROVE IInv'
<1> USE PushAssumption DEF phone, bounds
<1> DEFINE m == mutation.id
<1>0. TypeOK /\ OneRun /\ Fetched /\ run = "call"
  BY DEF IInv, CallSucceeds, CallFails
<1>1. m \in Mutations /\ m \in DOMAIN pending /\ Sendable(m) /\ m \in made
  BY <1>0 DEF Fetched, Current, Row, Sendable, TypeOK
<1>2. UNCHANGED <<network, app, pending, status, isSyncing, manual, batch, mutation, resuming, made, dropped, crashes, outages>>
  BY DEF CallSucceeds, CallFails
<1>3. \/ run' = "remove" /\ m \in Unsent /\ applied' = applied /\ blind' = blind /\ failures' = failures
      \/ run' = "remove" /\ applied' = [applied EXCEPT ![m] = applied[m] + 1] /\ blind' = blind /\ failures' = failures
      \/ /\ run' = "retry" /\ failures' = [failures EXCEPT ![m] = failures[m] + 1]
         /\ applied' = applied /\ blind' = blind
      \/ /\ run' = "retry" /\ failures' = [failures EXCEPT ![m] = failures[m] + 1]
         /\ applied' = [applied EXCEPT ![m] = applied[m] + 1] /\ blind' = [blind EXCEPT ![m] = blind[m] + 1]
  BY DEF CallSucceeds, CallFails
<1>4. TypeOK'
  BY <1>0, <1>1, <1>2, <1>3 DEF TypeOK
<1>5. OneRun' /\ Fetched'
  BY <1>0, <1>2, <1>3 DEF OneRun, Fetched, Current
<1>6. /\ applied \in [Mutations -> Nat] /\ applied' \in [Mutations -> Nat]
      /\ blind \in [Mutations -> Nat] /\ blind' \in [Mutations -> Nat]
      /\ failures \in [Mutations -> Nat] /\ failures' \in [Mutations -> Nat]
      /\ \A n \in DOMAIN pending : n \in Mutations /\ n \in made /\ pending[n] \in Nat
      /\ made \subseteq Mutations
  BY <1>0, <1>4 DEF TypeOK
<1>7. ASSUME NEW n \in Mutations
      PROVE  /\ failures[n] <= failures'[n] /\ applied[n] <= applied'[n]
             /\ n # m => applied'[n] = applied[n] /\ blind'[n] = blind[n]
  BY <1>1, <1>3, <1>6
<1>8. Counted'
  <2>1. ASSUME NEW n \in DOMAIN pending PROVE pending[n] <= failures'[n]
    <3>1. pending[n] <= failures[n] /\ failures[n] <= failures'[n]
      BY <1>6, <1>7 DEF IInv, Counted
    <3>2. pending[n] \in Nat /\ failures[n] \in Nat /\ failures'[n] \in Nat
      BY <1>6
    <3> QED  BY <3>1, <3>2
  <2>2. ASSUME run' = "retry" PROVE pending[m] + 1 <= failures'[m]
    <3>1. failures' = [failures EXCEPT ![m] = failures[m] + 1]
      BY <1>3, <2>2
    <3>2. failures'[m] = failures[m] + 1 /\ failures[m] \in Nat /\ pending[m] \in Nat
      BY <1>1, <1>6, <3>1
    <3>3. pending[m] <= failures[m]
      BY <1>1 DEF IInv, Counted
    <3> QED  BY <3>2, <3>3
  <2>3. run' # "drop"
    BY <1>3
  <2> QED  BY <1>2, <2>1, <2>2, <2>3 DEF Counted
<1>9. Executed'
  <2>1. ASSUME run' = "remove", m \notin Unsent PROVE applied'[m] > 0
    <3>1. applied' = [applied EXCEPT ![m] = applied[m] + 1]
      BY <1>3, <2>1
    <3>2. applied'[m] = applied[m] + 1 /\ applied[m] \in Nat
      BY <1>1, <1>6, <3>1
    <3> QED  BY <3>2
  <2> QED  BY <1>2, <2>1 DEF Executed
<1>10. applied[m] <= blind[m] /\ applied[m] \in Nat /\ blind[m] \in Nat
  BY <1>1, <1>6 DEF IInv, Unrecorded
<1>11. Unrecorded'
  <2>1. SUFFICES ASSUME NEW n \in Mutations, Sendable(n)' PROVE applied'[n] <= blind'[n]
    BY DEF Unrecorded
  <2>2. CASE n = m
    <3>1. run' # "remove"
      BY <1>1, <1>2, <2>1, <2>2 DEF Sendable
    <3>2. \/ applied' = applied /\ blind' = blind
          \/ applied' = [applied EXCEPT ![m] = applied[m] + 1] /\ blind' = [blind EXCEPT ![m] = blind[m] + 1]
      BY <1>3, <3>1
    <3> QED  BY <1>1, <1>6, <1>10, <2>2, <3>2
  <2>3. CASE n # m
    <3>1. Sendable(n)
      BY <1>0, <1>2, <2>1, <2>3 DEF Sendable
    <3> QED  BY <1>7, <2>3, <3>1 DEF IInv, Unrecorded
  <2> QED  BY <2>2, <2>3
<1>12. Promises'
  <2>1. ASSUME NEW n \in Mutations PROVE applied'[n] <= 1 + blind'[n]
    <3>1. CASE n = m
      <4>1. applied'[m] = applied[m] \/ applied'[m] = applied[m] + 1
        BY <1>1, <1>3, <1>6
      <4>2. blind'[m] = blind[m] \/ blind'[m] = blind[m] + 1
        BY <1>1, <1>3, <1>6
      <4> QED  BY <1>10, <3>1, <4>1, <4>2
    <3>2. CASE n # m
      BY <1>7, <3>2 DEF IInv, Promises, DuplicatesExplained
    <3> QED  BY <3>1, <3>2
  <2>2. NothingForgotten'
    <3>1. SUFFICES ASSUME NEW n \in made, ~(n \in DOMAIN pending), n \notin dropped, n \notin Unsent PROVE applied'[n] > 0
      BY <1>2 DEF NothingForgotten, Waits
    <3>2. n \in Mutations /\ applied[n] > 0 /\ applied[n] <= applied'[n] /\ applied[n] \in Nat /\ applied'[n] \in Nat
      BY <1>6, <1>7, <3>1 DEF IInv, Promises, NothingForgotten, Waits
    <3> QED  BY <3>2
  <2>3. ASSUME NEW n \in dropped PROVE failures'[n] >= MaxRetries
    <3>1. n \in Mutations /\ failures[n] >= MaxRetries /\ failures[n] <= failures'[n]
      BY <1>0, <1>7 DEF TypeOK, IInv, Promises, DroppedAfterThree
    <3>2. failures[n] \in Nat /\ failures'[n] \in Nat
      BY <1>6, <3>1
    <3> QED  BY <3>1, <3>2 DEF MaxRetries
  <2> QED  BY <1>2, <2>1, <2>2, <2>3 DEF Promises, DroppedAfterThree, DuplicatesExplained
<1> QED  BY <1>4, <1>5, <1>8, <1>9, <1>11, <1>12 DEF IInv

\* The row goes: it was applied, nobody sends it, or it was given up.
LEMMA RemovalKeeps == ASSUME IInv, RemovePendingMutation \/ Drop PROVE IInv'
<1> USE PushAssumption DEF phone, server, bounds
<1> DEFINE m == mutation.id
<1>0. TypeOK /\ OneRun /\ Fetched /\ run \in {"remove", "drop"}
  BY DEF IInv, RemovePendingMutation, Drop
<1>1. m \in Mutations /\ m \in DOMAIN pending
  BY <1>0 DEF Fetched, Current, Row
<1>2. /\ run' = "next" /\ pending' = [n \in DOMAIN pending \ {m} |-> pending[n]]
      /\ \/ run = "remove" /\ dropped' = dropped
         \/ run = "drop" /\ dropped' = dropped \cup {m}
      /\ UNCHANGED <<network, app, status, isSyncing, manual, batch, mutation, resuming, made,
                     applied, failures, blind, crashes, outages>>
  BY DEF RemovePendingMutation, Drop, Without, Restrict
<1>3. TypeOK'
  BY <1>0, <1>1, <1>2 DEF TypeOK
<1>4. OneRun' /\ Fetched'
  BY <1>0, <1>2 DEF OneRun, Fetched, Current
<1>5. Counted' /\ Executed'
  BY <1>2 DEF IInv, Counted, Executed
<1>6. Unrecorded'
  <2>1. ASSUME NEW n \in Mutations, Sendable(n)' PROVE Sendable(n)
    BY <1>2, <2>1 DEF Sendable
  <2> QED  BY <1>2, <2>1 DEF IInv, Unrecorded
<1>7. Promises'
  <2>1. NothingForgotten'
    BY <1>0, <1>2 DEF IInv, Promises, NothingForgotten, Waits, Executed
  <2>2. DroppedAfterThree'
    BY <1>0, <1>2 DEF IInv, Promises, DroppedAfterThree, Counted
  <2> QED  BY <1>2, <2>1, <2>2 DEF IInv, Promises, DuplicatesExplained
<1> QED  BY <1>3, <1>4, <1>5, <1>6, <1>7 DEF IInv

\* A failure is counted in the row; whether it was the last is decided on the count fetched.
LEMMA IncrementKeeps == ASSUME IInv, IncrementPendingRetry PROVE IInv'
<1> USE PushAssumption DEF phone, server, bounds
<1> DEFINE m == mutation.id
<1>0. TypeOK /\ OneRun /\ Fetched /\ run = "retry"
  BY DEF IInv, IncrementPendingRetry, IncrementWithLimit
<1>1. m \in Mutations /\ m \in DOMAIN pending /\ mutation.retry \in Nat /\ pending[m] \in Nat /\ failures[m] \in Nat
  BY <1>0 DEF Fetched, Current, Row, TypeOK
<1>2. /\ pending' = [pending EXCEPT ![m] = pending[m] + 1]
      /\ run' = (IF mutation.retry >= MaxRetries - 1 THEN "drop" ELSE "next")
      /\ UNCHANGED <<network, app, status, isSyncing, manual, batch, mutation, resuming, made,
                     applied, failures, blind, dropped, crashes, outages>>
  BY DEF IncrementPendingRetry, IncrementWithLimit
<1>3. DOMAIN pending' = DOMAIN pending /\ pending'[m] = pending[m] + 1
      /\ \A n \in DOMAIN pending : n # m => pending'[n] = pending[n]
  BY <1>1, <1>2
<1>4. TypeOK'
  <2>1. \A n \in DOMAIN pending' : pending'[n] \in Nat
    BY <1>0, <1>1, <1>3 DEF TypeOK
  <2>2. run' \in {"drop", "next"}
    BY <1>2
  <2> QED  BY <1>0, <1>2, <1>3, <2>1, <2>2 DEF TypeOK
<1>5. OneRun'
  BY <1>0, <1>2 DEF OneRun
<1>6. Fetched'
  <2>1. \A row \in batch : row.id \in DOMAIN pending' /\ row.retry <= pending'[row.id]
    BY <1>0, <1>3 DEF Fetched, Current
  <2>2. mutation.retry <= pending'[m] /\ \A row \in batch : row.id # m
    BY <1>0, <1>1, <1>3 DEF Fetched, Current
  <2> QED  BY <1>0, <1>2, <1>3, <2>1, <2>2 DEF Fetched, Current
<1>7. Counted' /\ Executed'
  <2>1. pending[m] + 1 <= failures[m] /\ mutation.retry <= pending[m]
    BY <1>0 DEF IInv, Counted, Fetched, Current
  <2>2. \A n \in DOMAIN pending' : pending'[n] <= failures[n]
    BY <1>3, <2>1 DEF IInv, Counted
  <2>3. run' = "drop" => failures[m] >= MaxRetries
    BY <1>1, <1>2, <2>1 DEF MaxRetries
  <2>4. run' # "retry" /\ run' # "remove"
    BY <1>2
  <2> QED  BY <1>2, <2>2, <2>3, <2>4 DEF Counted, Executed
<1>8. Unrecorded'
  BY <1>0, <1>2, <1>3 DEF IInv, Unrecorded, Sendable
<1>9. Promises'
  BY <1>2, <1>3 DEF IInv, Promises, NothingForgotten, Waits, DroppedAfterThree, DuplicatesExplained
<1> QED  BY <1>4, <1>5, <1>6, <1>7, <1>8, <1>9 DEF IInv

\* The app is killed: the run is gone, the rows are not, and an answer that waited to
\* be recorded is counted.
LEMMA CrashKeeps == ASSUME IInv, Crash PROVE IInv'
<1> USE PushAssumption
<1>0. TypeOK /\ OneRun
  BY DEF IInv
<1>1. /\ app' = "dead" /\ crashes < MaxCrashes /\ crashes' = crashes + 1
      /\ status' = "online" /\ isSyncing' = FALSE /\ run' = "none" /\ manual' = FALSE
      /\ resuming' = {} /\ batch' = {} /\ mutation' = NoRow
      /\ blind' = [m \in Mutations |-> blind[m] + (IF run = "remove" /\ mutation.id = m THEN 1 ELSE 0)]
      /\ UNCHANGED <<network, pending, made, applied, failures, dropped, outages>>
  BY DEF Crash
<1>2. blind' \in [Mutations -> Nat] /\ crashes' \in 0 .. MaxCrashes
  BY <1>0, <1>1 DEF TypeOK
<1>3. TypeOK'
  BY <1>0, <1>1, <1>2 DEF TypeOK
<1>4. OneRun' /\ Fetched' /\ Counted' /\ Executed'
  BY <1>1 DEF IInv, OneRun, Fetched, Current, Counted, Executed
<1>5. \A m \in Mutations : /\ applied[m] \in Nat /\ blind[m] \in Nat /\ blind'[m] \in Nat
                           /\ blind[m] <= blind'[m] /\ applied[m] <= 1 + blind[m]
  BY <1>0, <1>1 DEF TypeOK, IInv, Promises, DuplicatesExplained
<1>6. Unrecorded'
  <2>1. SUFFICES ASSUME NEW m \in Mutations, Sendable(m)' PROVE applied[m] <= blind'[m]
    BY <1>1 DEF Unrecorded
  <2>2. CASE Sendable(m)
    <3>1. applied[m] <= blind[m]
      BY <2>2 DEF IInv, Unrecorded
    <3> QED  BY <1>5, <3>1
  <2>3. CASE ~Sendable(m)
    <3>1. run = "remove" /\ mutation.id = m
      BY <1>1, <2>1, <2>3 DEF Sendable
    <3>2. blind'[m] = blind[m] + 1
      BY <1>1, <3>1
    <3> QED  BY <1>5, <3>2
  <2> QED  BY <2>2, <2>3
<1>7. Promises'
  <2>1. \A m \in Mutations : applied[m] <= 1 + blind'[m]
    BY <1>5
  <2> QED  BY <1>1, <2>1 DEF IInv, Promises, NothingForgotten, Waits, DroppedAfterThree, DuplicatesExplained
<1> QED  BY <1>3, <1>4, <1>6, <1>7 DEF IInv

\* Every step keeps the invariant.
LEMMA NextKeeps == ASSUME IInv, [Next]_vars PROVE IInv'
<1>1. CASE SyncWhenOnline \/ SyncNow \/ Start \/ Wake \/ NetworkLost \/ NetworkRestored \/ \E r \in resuming : Resume(r)
  BY <1>1, CallerSteps
<1>2. CASE \E m \in Mutations : EnqueueMutation(m)
  BY <1>2, EnqueueKeeps
<1>3. CASE RunStep
  BY <1>3, RunKeeps, CallKeeps, RemovalKeeps, IncrementKeeps DEF RunStep
<1>4. CASE Crash
  BY <1>4, CrashKeeps
<1>5. CASE UNCHANGED vars
  BY <1>5 DEF vars, IInv, TypeOK, OneRun, Fetched, Counted, Executed, Unrecorded, Sendable, Promises,
              NothingForgotten, Waits, DroppedAfterThree, DuplicatesExplained
<1> QED  BY <1>1, <1>2, <1>3, <1>4, <1>5 DEF Next

-----------------------------------------------------------------------------
\* The invariant holds for as long as the phone lives.
THEOREM Invariant == Spec => []IInv
<1>1. IInv /\ [Next]_vars => IInv'
  BY NextKeeps
<1> QED  BY InitIInv, <1>1, PTL DEF Spec

\* Rows, run and counters keep their types; only mutations that were made have a row.
THEOREM TypeCorrect == Spec => []TypeOK
<1>1. IInv => TypeOK
  BY DEF IInv
<1> QED  BY Invariant, <1>1, PTL

\* A run is under way exactly while _isSyncing is set, whoever started it.
THEOREM FlagIsRun == Spec => [](isSyncing <=> run # "none")
<1>1. IInv => (isSyncing <=> run # "none")
  BY DEF IInv, OneRun
<1> QED  BY Invariant, <1>1, PTL

\* A mutation has its row until the server applied it or it was given up, save the
\* payloads that no case of _executeMutation sends.
THEOREM NoneForgotten == Spec => []NothingForgotten
<1>1. IInv => NothingForgotten
  BY DEF IInv, Promises
<1> QED  BY Invariant, <1>1, PTL

\* _pushPendingMutations gives a mutation up only after three failures, across kills.
THEOREM DropsAreEarned == Spec => []DroppedAfterThree
<1>1. IInv => DroppedAfterThree
  BY DEF IInv, Promises
<1> QED  BY Invariant, <1>1, PTL

\* The server applies a mutation once more only for each answer nobody recorded.
THEOREM DuplicatesAreExplained == Spec => []DuplicatesExplained
<1>1. IInv => DuplicatesExplained
  BY DEF IInv, Promises
<1> QED  BY Invariant, <1>1, PTL

-----------------------------------------------------------------------------
(* The service as a queue                                                  *)

\* Rows that left without the server, because nobody sends their payload.
Unserved == {m \in made \cap Unsent : ~Waits(m)}

\* A row is in the queue while it waits, and only what was made can wait.
LEMMA RowsWereMade == ASSUME IInv PROVE DOMAIN pending \subseteq made /\ made \subseteq Mutations
BY DEF IInv, TypeOK

\* The sync service implements the abstract queue: a mutation is sent only while it has its
\* row, and once the row is gone no run, started by anyone, sends it again: it was executed
\* by then, or is given up, whenever the app is killed.
THEOREM Refinement == Spec => ImplementsDelivery
<1>1. Init => Delivery!Init
  <2> SUFFICES ASSUME Init PROVE Delivery!Init
    OBVIOUS
  <2>1. made = {} /\ DOMAIN pending = {} /\ dropped = {} /\ Unserved = {}
    BY DEF Init, Unserved
  <2> QED  BY <2>1 DEF Init, Delivery!Init, Unserved
<1>2. IInv /\ [Next]_vars => [Delivery!Next]_Delivery!vars
  <2> SUFFICES ASSUME IInv, [Next]_vars PROVE [Delivery!Next]_Delivery!vars
    OBVIOUS
  <2>1. ASSUME UNCHANGED <<made, applied, dropped>>, DOMAIN pending' = DOMAIN pending
        PROVE  UNCHANGED Delivery!vars
    BY <2>1 DEF Delivery!vars, Waits
  <2>2. ASSUME NEW m \in Mutations, EnqueueMutation(m) PROVE Delivery!Next
    <3>1. /\ m \notin made /\ made' = made \cup {m} /\ DOMAIN pending' = DOMAIN pending \cup {m}
          /\ UNCHANGED <<applied, dropped>>
      BY <2>2 DEF EnqueueMutation, server
    <3>2. Unserved' = Unserved
      BY <3>1 DEF Unserved, Waits
    <3>3. Delivery!Take(m)
      BY <3>1, <3>2 DEF Delivery!Take, Unserved
    <3> QED  BY <3>3 DEF Delivery!Next
  <2>3. CASE CallSucceeds \/ CallFails
    <3> DEFINE m == mutation.id
    <3>1. m \in DOMAIN pending /\ m \in Mutations
      BY <2>3 DEF CallSucceeds, CallFails, IInv, Fetched, Current, Row
    <3>2. UNCHANGED <<pending, made, dropped>>
      BY <2>3 DEF CallSucceeds, CallFails
    <3>3. applied' = applied \/ applied' = [applied EXCEPT ![m] = @ + 1]
      BY <2>3 DEF CallSucceeds, CallFails
    <3>4. CASE applied' = [applied EXCEPT ![m] = @ + 1]
      <4>1. Delivery!Execute(m)
        BY <3>1, <3>2, <3>4 DEF Delivery!Execute, Waits
      <4> QED  BY <3>1, <4>1 DEF Delivery!Next
    <3> QED  BY <2>1, <3>2, <3>3, <3>4
  <2>4. CASE RemovePendingMutation \/ Drop
    <3> DEFINE m == mutation.id
    <3>1. m \in DOMAIN pending /\ m \in made
      BY <2>4, RowsWereMade DEF RemovePendingMutation, Drop, IInv, Fetched, Current, Row
    <3>2. DOMAIN pending' = DOMAIN pending \ {m} /\ UNCHANGED <<made, applied>>
      BY <2>4 DEF RemovePendingMutation, Drop, Without, Restrict, server
    <3>3. Unserved' = Unserved \cup ({m} \cap Unsent)
      BY <3>1, <3>2 DEF Unserved, Waits
    <3>4. \/ dropped' = dropped \cup {m}
          \/ dropped' = dropped /\ (applied[m] > 0 \/ m \in Unsent)
      BY <2>4 DEF RemovePendingMutation, Drop, IInv, Executed
    <3> HIDE DEF m
    <3>5. CASE dropped' = dropped \cup {m} \/ (m \in Unsent /\ dropped' = dropped)
      <4>1. dropped' \cup Unserved' = (dropped \cup Unserved) \cup {m}
        BY <3>3, <3>5
      <4>2. Delivery!Close({m}, {m})
        BY <3>1, <3>2, <4>1 DEF Delivery!Close, Unserved
      <4> QED  BY <3>1, <4>2 DEF Delivery!Next
    <3>6. CASE dropped' = dropped /\ m \notin Unsent /\ applied[m] > 0
      <4>1. dropped' \cup Unserved' = (dropped \cup Unserved) \cup {}
        BY <3>3, <3>6
      <4>2. Delivery!Close({m}, {})
        BY <3>1, <3>2, <3>6, <4>1 DEF Delivery!Close, Unserved
      <4>3. {m} \in SUBSET DOMAIN pending /\ {} \in SUBSET {m}
        BY <3>1
      <4>4. \E given \in SUBSET {m} : Delivery!Close({m}, given)
        BY <4>2, <4>3
      <4> QED  BY <4>3, <4>4 DEF Delivery!Next
    <3> QED  BY <3>4, <3>5, <3>6
  <2>5. CASE IncrementPendingRetry
    BY <2>1, <2>5 DEF IncrementPendingRetry, IncrementWithLimit, server
  <2>6. CASE Fetch \/ TakeMutation \/ Pull
    BY <2>1, <2>6 DEF Fetch, TakeMutation, Pull, server
  <2>7. CASE SyncWhenOnline \/ SyncNow \/ Start \/ Wake \/ \E r \in resuming : Resume(r)
    BY <2>1, <2>7 DEF SyncWhenOnline, SyncNow, Start, Wake, Resume, server
  <2>8. CASE Crash \/ NetworkLost \/ NetworkRestored \/ UNCHANGED vars
    BY <2>1, <2>8 DEF Crash, NetworkLost, NetworkRestored, vars, server
  <2> QED  BY <2>2, <2>3, <2>4, <2>5, <2>6, <2>7, <2>8 DEF Next, RunStep
<1> QED  BY <1>1, <1>2, Invariant, PTL DEF Spec, ImplementsDelivery, Delivery!Spec
=============================================================================

---------------------------- MODULE OfflinePush ----------------------------
(***************************************************************************)
(* The push half of the mobile app's SyncService                           *)
(* (mobile/src/services/syncService.ts): mutations made in the field wait  *)
(* in the SQLite table pending_sync (offlineStorage.ts) until a sync run   *)
(* sends them.  JavaScript runs one task at a time, so a step ends where   *)
(* the code awaits.  The phone's network, the server and SQLite are        *)
(* external: a request may have taken effect although the app saw it fail, *)
(* and SQLite does not fail.  The cache that a run refreshes is left out.  *)
(***************************************************************************)
EXTENDS Naturals, Functions

CONSTANTS
    Mutations,     \* mutations the user makes, once each, numbered in their order
    Unsent,        \* those whose payload no case of _executeMutation sends
    MaxCrashes,    \* bound: how often the phone kills the app
    MaxOutages     \* bound: how often the network goes away

ASSUME PushAssumption ==
    /\ Mutations \subseteq Nat \ {0} /\ Unsent \subseteq Mutations
    /\ MaxCrashes \in Nat
    /\ MaxOutages \in Nat

VARIABLES
    \* the phone
    network,
    app,       \* "dead", "woken" by the background task, or "open" (initialize has run)
    pending,   \* pending_sync: the mutations with a row |-> retry_count
    \* SyncService
    status,    \* _status
    isSyncing, \* _isSyncing
    run,       \* where the sync run in progress awaits
    manual,    \* the run is syncNow, not syncWhenOnline
    batch,     \* what getPendingMutations returned and the loop has not reached
    mutation,  \* the loop's variable
    resuming,  \* enqueueMutation calls, and initialize, about to sync
    \* the server and bookkeeping
    made, applied, failures, blind, dropped, crashes, outages

phone == <<network, app>>
service == <<status, isSyncing, run, manual, batch, mutation, resuming>>
server == <<applied, failures, blind>>
bounds == <<crashes, outages>>
vars == <<network, app, pending, status, isSyncing, run, manual, batch, mutation, resuming,
          made, applied, failures, blind, dropped, crashes, outages>>

MaxRetries == 3
Row == [id : Mutations, retry : Nat]
NoRow == [id |-> 0, retry |-> 0]
Initialize == 0   \* the one that is no mutation

TypeOK ==
    /\ network \in BOOLEAN /\ app \in {"dead", "woken", "open"}
    /\ DOMAIN pending \subseteq made /\ \A m \in DOMAIN pending : pending[m] \in Nat
    /\ status \in {"online", "offline", "syncing"}
    /\ isSyncing \in BOOLEAN
    /\ run \in {"none", "fetch", "next", "call", "remove", "retry", "drop", "pull"}
    /\ manual \in BOOLEAN
    /\ batch \subseteq Row /\ mutation \in Row \cup {NoRow}
    /\ resuming \subseteq Mutations \cup {Initialize}
    /\ made \subseteq Mutations
    /\ applied \in [Mutations -> Nat]
    /\ failures \in [Mutations -> Nat]
    /\ blind \in [Mutations -> Nat]
    /\ dropped \subseteq Mutations
    /\ crashes \in 0 .. MaxCrashes /\ outages \in 0 .. MaxOutages

Init ==
    /\ network \in BOOLEAN /\ app = "dead"
    /\ pending = << >>   \* no row
    /\ status = "online" /\ isSyncing = FALSE
    /\ run = "none" /\ manual = FALSE /\ resuming = {}
    /\ batch = {} /\ mutation = NoRow
    /\ made = {}
    /\ applied = [m \in Mutations |-> 0]
    /\ failures = [m \in Mutations |-> 0]
    /\ blind = [m \in Mutations |-> 0]
    /\ dropped = {}
    /\ crashes = 0 /\ outages = 0

-----------------------------------------------------------------------------
(* Starting a run *)

Begin(byHand) ==
    /\ isSyncing' = TRUE
    /\ status' = "syncing"
    /\ run' = "fetch"
    /\ manual' = byHand
    /\ UNCHANGED <<batch, mutation>>

Refrain == UNCHANGED <<status, isSyncing, run, manual, batch, mutation>>

\* syncWhenOnline, called by the foreground, a button or the background task.
SyncWhenOnline ==
    /\ app # "dead"
    /\ ~isSyncing /\ status # "offline"
    /\ Begin(FALSE)
    /\ UNCHANGED <<phone, pending, resuming, made, server, dropped, bounds>>

SyncNow ==
    /\ app = "open"
    /\ ~isSyncing
    /\ Begin(TRUE)
    /\ UNCHANGED <<phone, pending, resuming, made, server, dropped, bounds>>

\* enqueueMutation up to its await: the mutation is in SQLite.
EnqueueMutation(m) ==
    /\ app = "open"
    /\ m \notin made /\ \A other \in Mutations \ made : m <= other
    /\ made' = made \cup {m}
    /\ pending' = [n \in DOMAIN pending \cup {m} |-> IF n = m THEN 0 ELSE pending[n]]
    /\ resuming' = resuming \cup {m}
    /\ UNCHANGED <<phone, status, isSyncing, run, manual, batch, mutation, server, dropped, bounds>>

\* The rest of enqueueMutation, and of initialize: sync if online.
Resume(r) ==
    /\ r \in resuming
    /\ resuming' = resuming \ {r}
    /\ IF status = "online" /\ ~isSyncing THEN Begin(FALSE) ELSE Refrain
    /\ UNCHANGED <<phone, pending, made, server, dropped, bounds>>

\* initialize: from here on the network's changes are heard.
Start ==
    /\ app # "open"
    /\ app' = "open"
    /\ status' = IF network THEN "online" ELSE "offline"
    /\ resuming' = {Initialize}
    /\ UNCHANGED <<network, pending, isSyncing, run, manual, batch, mutation, made, server, dropped, bounds>>

\* The background task loads the module into a fresh runtime, without initialize.
Wake ==
    /\ app = "dead"
    /\ app' = "woken"
    /\ UNCHANGED <<network, pending, service, made, server, dropped, bounds>>

-----------------------------------------------------------------------------
(* The network, _handleNetworkChange, and the end of the app *)

NetworkLost ==
    /\ network /\ outages < MaxOutages
    /\ network' = FALSE
    /\ outages' = outages + 1
    /\ status' = IF app = "open" THEN "offline" ELSE status
    /\ UNCHANGED <<app, pending, isSyncing, run, manual, batch, mutation, resuming, made, server, dropped, crashes>>

\* The handler syncs only if it had noticed that the network was gone.
NetworkRestored ==
    /\ ~network
    /\ network' = TRUE
    /\ IF app = "open" /\ status = "offline"
       THEN IF isSyncing
            THEN status' = "online" /\ UNCHANGED <<isSyncing, run, manual, batch, mutation>>
            ELSE Begin(FALSE)
       ELSE Refrain
    /\ UNCHANGED <<app, pending, resuming, made, server, dropped, bounds>>

\* The phone kills the app: all but SQLite is gone.
Crash ==
    /\ app # "dead" /\ crashes < MaxCrashes
    /\ app' = "dead"
    /\ crashes' = crashes + 1
    /\ status' = "online" /\ isSyncing' = FALSE
    /\ run' = "none" /\ manual' = FALSE /\ resuming' = {}
    /\ batch' = {} /\ mutation' = NoRow
    /\ blind' = [m \in Mutations |-> blind[m] + (IF run = "remove" /\ mutation.id = m THEN 1 ELSE 0)]
    /\ UNCHANGED <<network, pending, made, applied, failures, dropped, outages>>

-----------------------------------------------------------------------------
(* A run: _pushPendingMutations, then pullLatestData *)

Fetch ==
    /\ run = "fetch"
    /\ batch' = {[id |-> m, retry |-> pending[m]] : m \in DOMAIN pending}
    /\ run' = "next"
    /\ UNCHANGED <<phone, pending, status, isSyncing, manual, mutation, resuming, made, server, dropped, bounds>>

\* The oldest first.
TakeMutation ==
    /\ run = "next"
    /\ \/ batch = {} /\ run' = "pull" /\ UNCHANGED <<batch, mutation>>
       \/ \E row \in batch : /\ \A other \in batch : row.id <= other.id
                             /\ batch' = batch \ {row}
                             /\ mutation' = row
                             /\ run' = "call"
    /\ UNCHANGED <<phone, pending, status, isSyncing, manual, resuming, made, server, dropped, bounds>>

\* _executeMutation returns: the server applied the mutation, or nothing was sent.
CallSucceeds ==
    /\ run = "call"
    /\ IF mutation.id \in Unsent THEN UNCHANGED applied
       ELSE network /\ applied' = [applied EXCEPT ![mutation.id] = @ + 1]
    /\ run' = "remove"
    /\ UNCHANGED <<phone, pending, status, isSyncing, manual, batch, mutation, resuming, made, failures, blind, dropped, bounds>>

\* _executeMutation throws; with the network up the answer may be what was lost.
CallFails ==
    /\ run = "call"
    /\ mutation.id \notin Unsent
    /\ failures' = [failures EXCEPT ![mutation.id] = @ + 1]
    /\ \/ UNCHANGED <<applied, blind>>
       \/ /\ network
          /\ applied' = [applied EXCEPT ![mutation.id] = @ + 1]
          /\ blind' = [blind EXCEPT ![mutation.id] = @ + 1]
    /\ run' = "retry"
    /\ UNCHANGED <<phone, pending, status, isSyncing, manual, batch, mutation, resuming, made, dropped, bounds>>

Without(m) == Restrict(pending, DOMAIN pending \ {m})

\* Slips for mutation: the row stays; it goes at the first failure; it goes too early.
RemoveNothing ==
    /\ run = "remove"
    /\ run' = "next"
    /\ UNCHANGED <<phone, pending, status, isSyncing, manual, batch, mutation, resuming, made, server, dropped, bounds>>

RemovePendingMutation ==
    /\ run = "remove"
    /\ pending' = Without(mutation.id)
    /\ run' = "next"
    /\ UNCHANGED <<phone, status, isSyncing, manual, batch, mutation, resuming, made, server, dropped, bounds>>

RetryRemoves ==
    /\ run = "retry"
    /\ pending' = Without(mutation.id)
    /\ run' = "next"
    /\ UNCHANGED <<phone, status, isSyncing, manual, batch, mutation, resuming, made, server, dropped, bounds>>

\* incrementPendingRetry; the retry count compared is the one that was fetched.
IncrementWithLimit(limit) ==
    /\ run = "retry"
    /\ pending' = [pending EXCEPT ![mutation.id] = @ + 1]
    /\ run' = IF mutation.retry >= limit - 1 THEN "drop" ELSE "next"
    /\ UNCHANGED <<phone, status, isSyncing, manual, batch, mutation, resuming, made, server, dropped, bounds>>

IncrementAndDropEarly == IncrementWithLimit(MaxRetries - 1)

IncrementPendingRetry == IncrementWithLimit(MaxRetries)

Drop ==
    /\ run = "drop"
    /\ pending' = Without(mutation.id)
    /\ dropped' = dropped \cup {mutation.id}
    /\ run' = "next"
    /\ UNCHANGED <<phone, status, isSyncing, manual, batch, mutation, resuming, made, server, bounds>>

\* A slip to guard against: the flag is cleared only when the pull succeeds.
PullKeepsFlag ==
    /\ run = "pull"
    /\ run' = "none" /\ batch' = {} /\ mutation' = NoRow
    /\ isSyncing' = (~network)
    /\ status' = IF manual /\ status = "offline" THEN "offline" ELSE "online"
    /\ UNCHANGED <<phone, pending, manual, resuming, made, server, dropped, bounds>>

\* pullLatestData succeeds or throws: syncWhenOnline says online either way,
\* syncNow keeps an offline that it sees.
Pull ==
    /\ run = "pull"
    /\ run' = "none" /\ batch' = {} /\ mutation' = NoRow
    /\ isSyncing' = FALSE
    /\ status' = IF manual /\ status = "offline" THEN "offline" ELSE "online"
    /\ UNCHANGED <<phone, pending, manual, resuming, made, server, dropped, bounds>>

RunStep ==
    \/ Fetch \/ TakeMutation \/ CallSucceeds \/ CallFails
    \/ RemovePendingMutation \/ IncrementPendingRetry \/ Drop \/ Pull

Next ==
    \/ SyncWhenOnline \/ SyncNow \/ RunStep
    \/ \E m \in Mutations : EnqueueMutation(m)
    \/ \E r \in resuming : Resume(r)
    \/ Start \/ Wake \/ Crash
    \/ NetworkLost \/ NetworkRestored

Spec == Init /\ [][Next]_vars

\* Promises settle; the background task and the foreground keep calling
\* syncWhenOnline; the app is opened and the network comes back again.
Fairness ==
    /\ WF_vars(RunStep) /\ WF_vars(\E r \in resuming : Resume(r))
    /\ WF_vars(SyncWhenOnline) /\ WF_vars(Start) /\ WF_vars(NetworkRestored)

FairSpec == Spec /\ Fairness

-----------------------------------------------------------------------------
(* Properties *)

Waits(m) == m \in DOMAIN pending

\* A mutation the user made is in SQLite until the server applied it or it was
\* given up, across crashes and outages at any await.  Only a payload that no case of
\* _executeMutation sends (a cancelled order) leaves the queue without the server.
NothingForgotten ==
    \A m \in made : Waits(m) \/ applied[m] > 0 \/ m \in dropped \/ m \in Unsent

\* "Add a mutation to the sync queue.  If online, it is executed at once"
\* (syncService.ts:233-234): a row leaves the queue executed, or given up after failures,
\* whatever its payload.
RemovedIsExecuted == \A m \in made : Waits(m) \/ applied[m] > 0 \/ m \in dropped

\* A mutation is given up only after three failed attempts, even if the app
\* dies between counting the last one and removing the row.
DroppedAfterThree == \A m \in dropped : failures[m] >= MaxRetries

\* The server applies a mutation twice only after an answer was lost or the app
\* died before it removed the row: runs never overlap on one row.
DuplicatesExplained == \A m \in Mutations : applied[m] <= 1 + blind[m]

\* Every row leaves the queue, whatever the network does in between: the
\* single-run flag never stays set and the status never blocks syncing for good.
QueueDrains == \A m \in Mutations : Waits(m) ~> ~Waits(m)

\* The service implements the abstract queue: a mutation is open while it has its row, and
\* abandoned after three failures, or when its payload is one that nobody sends.
Delivery == INSTANCE AtLeastOnce WITH
    Jobs <- Mutations,
    taken <- made,
    open <- DOMAIN pending,
    executed <- applied,
    abandoned <- dropped \cup {m \in made \cap Unsent : ~Waits(m)}

ImplementsDelivery == Delivery!Spec
=============================================================================

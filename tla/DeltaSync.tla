----------------------------- MODULE DeltaSync -----------------------------
(***************************************************************************)
(* The mobile app's differential sync (mobile/src/services/                *)
(* differentialSync.ts, api/sync.ts, startSync in store/syncStore.ts): one *)
(* sync pulls each entity since a cursor, then pushes the rows of          *)
(* pending_sync, a table that SyncService (module OfflinePush) empties     *)
(* too, with no lock between them: SyncService's push is here again, with  *)
(* what it fetched, but not its pull.  A step ends where the code awaits.  *)
(* The server behaves as api/sync.ts expects it to.  One work order and    *)
(* one device stand for their tables; photos and audit, pulled after them, *)
(* store nothing on the phone.  Times are compared and nothing else, so    *)
(* the model keeps what the comparisons say: which entities changed after  *)
(* lastSyncTime, and which the phone shows as they were before a change.   *)
(***************************************************************************)
EXTENDS Naturals, Sequences, SequencesExt, FiniteSets

CONSTANTS
    Field,       \* per mutation of the work order, in their order: the field it edits
    Unsent,      \* those whose payload no case of SyncService's _executeMutation sends
    MaxAttempts, \* requests for one batch (five in the code)
    MaxRetries,  \* failures after which SyncService removes a row (three in the code)
    Changing     \* bound: the entities that others change; the phone has the rest as it is

ASSUME DeltaAssumption ==
    /\ Field \in Seq({"status", "notes"}) /\ Unsent \subseteq DOMAIN Field
    /\ MaxAttempts \in Nat \ {0} /\ MaxRetries \in Nat \ {0}
    /\ Changing \subseteq {"work_orders", "devices"}

VARIABLES
    \* the server
    applied,   \* how often a mutation was executed (2: more than once)
    changed,   \* entities changed after lastSyncTime, while a sync runs
    \* the phone
    stale,     \* entities whose cached copy is older than the server's
    pending,   \* pending_sync, by timestamp
    retries,   \* the retry_count of the rows, up to MaxRetries
    made,      \* mutations the technician has made
    status,    \* dSyncStatus
    sync,      \* the sync under way: where it awaits, the entities still to pull, whether
               \* one failed, the batch collected, then resolved, and the attempt;
               \* bookkeeping: what was stale before it began and not yet sent to it (owed)
    other,     \* SyncService's push: where it awaits, and what it fetched and has not handled
    \* bookkeeping
    refused,   \* mutations the server refused in a batch it accepted
    skipped,   \* mutations that SyncService took for sent without sending them
    shifted,   \* rows were removed or left behind out of their order
    again      \* mutations some event gave a reason to be sent once more

server == <<applied, changed>>
table == <<pending, retries, made>>
marks == <<refused, skipped, shifted, again>>
deltaVars == <<applied, changed, stale, pending, retries, made, status, sync, other,
               refused, skipped, shifted, again>>

Mutations == DOMAIN Field
Entities == <<"work_orders", "devices">>

NoSync == [at |-> "none", todo |-> <<>>, failed |-> FALSE,
           batch |-> <<>>, attempt |-> 0, owed |-> {}]
NoPush == [at |-> "none", todo |-> <<>>]

DeltaTypeOK ==
    /\ applied \in [Mutations -> 0 .. 2]
    /\ pending \in Seq(Mutations) /\ made \subseteq Mutations
    /\ retries \in [Mutations -> 0 .. MaxRetries]
    /\ status \in {"idle", "syncing", "success", "error"}
    /\ sync.at \in {"none", "pull", "collect", "diff", "apply", "remove"}
    /\ sync.failed \in BOOLEAN /\ sync.attempt \in 0 .. MaxAttempts - 1
    /\ sync.batch \in Seq(Mutations)
    /\ other.at \in {"none", "call", "remove", "retry", "drop"}
    /\ other.todo \in Seq(Mutations)
    /\ \A entities \in {changed, stale, sync.owed} : entities \subseteq ToSet(Entities)
    /\ refused \subseteq Mutations /\ skipped \subseteq Mutations
    /\ again \subseteq Mutations /\ shifted \in BOOLEAN

DeltaInit ==
    /\ applied = [m \in Mutations |-> 0]
    /\ changed = {} /\ stale = Changing
    /\ pending = <<>> /\ made = {}
    /\ retries = [m \in Mutations |-> 0]
    /\ status = "idle" /\ sync = NoSync /\ other = NoPush
    /\ refused = {} /\ skipped = {} /\ shifted = FALSE /\ again = {}

Syncing == sync.at # "none"
Batched == sync.at \in {"diff", "apply", "remove"}
Count(n) == IF n = 0 THEN 1 ELSE 2
OneMore(n) == IF n < MaxRetries THEN n + 1 ELSE n

-----------------------------------------------------------------------------
(* Around the sync *)

Change(e) ==
    /\ stale' = stale \cup {e}
    /\ changed' = IF Syncing THEN changed \cup {e} ELSE changed

\* Somebody else changes an entity.
ServerChange(e) ==
    /\ Change(e)
    /\ UNCHANGED <<applied, table, status, sync, other, marks>>

\* The technician edits the work order: savePendingMutation.
Edit(m) ==
    /\ made = 1 .. m - 1
    /\ made' = made \cup {m}
    /\ pending' = Append(pending, m)
    /\ UNCHANGED <<retries, server, stale, status, sync, other, marks>>

-----------------------------------------------------------------------------
(* SyncService: _pushPendingMutations *)

Mutation == Head(other.todo)
Stored == Mutation \in ToSet(pending)
NextMutation ==
    LET rest == Tail(other.todo)
    IN  other' = IF rest = <<>> THEN NoPush ELSE [at |-> "call", todo |-> rest]

\* Some caller starts a run, which fetches the rows.
PushFetches ==
    /\ other.at = "none" /\ pending # <<>>
    /\ other' = [at |-> "call", todo |-> pending]
    /\ again' = IF Batched THEN again \cup (ToSet(pending) \cap ToSet(sync.batch)) ELSE again
    /\ UNCHANGED <<server, stale, table, status, sync, refused, skipped, shifted>>

\* _executeMutation returns: the server executed the mutation, or nothing was sent.
PushSucceeds ==
    /\ other.at = "call"
    /\ IF Mutation \in Unsent
       THEN skipped' = skipped \cup {Mutation} /\ UNCHANGED <<server, stale>>
       ELSE /\ applied' = [applied EXCEPT ![Mutation] = Count(@)]
            /\ Change("work_orders")
            /\ UNCHANGED skipped
    /\ other' = [other EXCEPT !.at = "remove"]
    /\ UNCHANGED <<table, status, sync, refused, shifted, again>>

\* It throws: the server refused, was not reached, or its answer was lost.
PushFails ==
    /\ other.at = "call" /\ Mutation \notin Unsent
    /\ \/ UNCHANGED <<server, stale, again>>
       \/ /\ applied' = [applied EXCEPT ![Mutation] = Count(@)]
          /\ Change("work_orders")
          /\ again' = again \cup {Mutation}
    /\ other' = [other EXCEPT !.at = "retry"]
    /\ UNCHANGED <<table, status, sync, refused, skipped, shifted>>

\* The row goes by its id, after a success or the last failure.
PushRemoves ==
    /\ other.at \in {"remove", "drop"}
    /\ \/ \E i \in DOMAIN pending : pending[i] = Mutation /\ pending' = RemoveAt(pending, i)
       \/ ~Stored /\ UNCHANGED pending
    /\ shifted' = (shifted \/ (Batched /\ Stored))
    /\ NextMutation
    /\ UNCHANGED <<server, stale, retries, made, status, sync, refused, skipped, again>>

\* incrementPendingRetry; nobody else counts, so the count in the table is the one fetched.
PushCounts ==
    /\ other.at = "retry"
    /\ retries' = IF Stored THEN [retries EXCEPT ![Mutation] = OneMore(@)] ELSE retries
    /\ IF retries[Mutation] >= MaxRetries - 1
       THEN other' = [other EXCEPT !.at = "drop"]
       ELSE NextMutation
    /\ UNCHANGED <<server, stale, pending, made, status, sync, marks>>

\* SQLite fails: a removal after a success counts as a failure of the mutation, any other
\* exception ends the run.
PushThrows ==
    /\ other.at \in {"remove", "retry", "drop"}
    /\ IF other.at = "remove"
       THEN other' = [other EXCEPT !.at = "retry"] /\ again' = again \cup {Mutation}
       ELSE other' = NoPush /\ UNCHANGED again
    /\ UNCHANGED <<server, stale, table, status, sync, refused, skipped, shifted>>

-----------------------------------------------------------------------------
(* startSync and the pull phase *)

\* The button, which is disabled while a sync runs.  Each sync has a service of its
\* own, so lastSyncTime starts empty and everything counts as changed.
StartSync ==
    /\ status # "syncing"
    /\ status' = "syncing"
    /\ sync' = [NoSync EXCEPT !.at = "pull", !.todo = Entities, !.owed = stale]
    /\ changed' = ToSet(Entities)
    /\ UNCHANGED <<applied, stale, table, other, marks>>

Pulled(failed, owed) ==
    LET rest == Tail(sync.todo)
    IN  sync' = [sync EXCEPT !.todo = rest, !.failed = @ \/ failed, !.owed = owed,
                             !.at = IF rest = <<>> THEN "collect" ELSE "pull"]

\* The entity's changes since lastSyncTime are stored, and lastSyncTime, which the
\* entities share, becomes the server's time.  What cannot be stored is only logged, and
\* changes beyond the first page (hasMore) are not fetched.
PullEntity ==
    /\ sync.at = "pull"
    /\ LET e == Head(sync.todo)
       IN  /\ Pulled(FALSE, IF e \in changed THEN sync.owed \ {e} ELSE sync.owed)
           /\ \/ e \in changed /\ stale' = stale \ {e}
              \/ UNCHANGED stale
    /\ changed' = {}
    /\ UNCHANGED <<applied, table, status, other, marks>>

\* The request failed: the next entity is pulled.
PullFailsCounting(failed) ==
    /\ sync.at = "pull"
    /\ Pulled(failed, sync.owed)
    /\ UNCHANGED <<server, stale, table, status, other, marks>>

\* A slip to guard against: the failure is logged and not counted.
PullFailsQuietly == PullFailsCounting(FALSE)

\* The entity counts an error.
PullFails == PullFailsCounting(TRUE)

-----------------------------------------------------------------------------
(* The push phase *)

\* A slip to guard against: after an error the status is not set.
EndSyncQuietly ==
    /\ sync' = NoSync /\ changed' = {}
    /\ status' = IF sync.failed THEN status ELSE "success"

\* The end of a sync: only errors of the pull count.
EndSync ==
    /\ sync' = NoSync /\ changed' = {}
    /\ status' = IF sync.failed THEN "error" ELSE "success"

Goto(next) == sync' = next /\ UNCHANGED <<changed, status>>

Collect ==
    /\ sync.at = "collect"
    /\ IF pending = <<>>
       THEN EndSync
       ELSE Goto([sync EXCEPT !.at = "diff", !.batch = pending])
    /\ again' = again \cup (ToSet(pending) \cap ToSet(other.todo))
    /\ UNCHANGED <<applied, stale, table, other, refused, skipped, shifted>>

\* _threeWayMerge with the server's change of the same order: an edit of a
\* server-authoritative field is not sent.
Survives(m, remote) == remote => Field[m] # "status"

\* Rows of the table, by timestamp.
InTime(mutations) ==
    {order \in [1 .. Cardinality(mutations) -> mutations] :
        \A i, j \in DOMAIN order : i < j => order[i] < order[j]}

\* resolveConflicts3Way against what changed after lastSyncTime, which the pull has
\* just moved.  Rows whose change does not survive stay in the table.
Resolve ==
    /\ sync.at = "diff"
    /\ LET kept == {m \in ToSet(sync.batch) : Survives(m, "work_orders" \in changed)}
           whole == kept = ToSet(sync.batch)
       IN  /\ \E resolved \in IF whole THEN {sync.batch} ELSE InTime(kept) :
                 IF resolved = <<>>
                 THEN EndSync
                 ELSE Goto([sync EXCEPT !.at = "apply", !.batch = resolved])
           /\ shifted' = (shifted \/ ~whole)
    /\ UNCHANGED <<applied, stale, table, other, refused, skipped, again>>

\* Any exception ends the push phase and is only logged.
DiffFails ==
    /\ sync.at = "diff"
    /\ EndSync
    /\ UNCHANGED <<applied, stale, table, other, marks>>

\* The server executes what was sent, but for some changes it refuses.
Execute(refusals) ==
    /\ applied' = [m \in Mutations |->
           IF m \in ToSet(sync.batch) \ refusals THEN Count(applied[m]) ELSE applied[m]]
    /\ refused' = refused \cup refusals
    /\ stale' = stale \cup {"work_orders"}

\* The answer's counts of applied and failed changes decide nothing.
ApplySucceeds ==
    /\ sync.at = "apply"
    /\ \E refusals \in SUBSET ToSet(sync.batch) : Execute(refusals)
    /\ Goto([sync EXCEPT !.at = "remove"])
    /\ UNCHANGED <<table, other, skipped, shifted, again>>

\* The request failed, perhaps after the server executed it.
FailsThen(giveUp) ==
    /\ sync.at = "apply"
    /\ \/ UNCHANGED <<applied, stale, refused, again>>
       \/ Execute({}) /\ again' = again \cup ToSet(sync.batch)
    /\ IF sync.attempt < MaxAttempts - 1
       THEN Goto([sync EXCEPT !.attempt = @ + 1])
       ELSE giveUp
    /\ UNCHANGED <<table, other, skipped, shifted>>

\* A slip to guard against: the loop runs out and the rows are removed all the same.
ApplyFailsThrough == FailsThen(Goto([sync EXCEPT !.at = "remove"]))

\* MaxAttempts times, with a pause in between, then the exception.
ApplyFails == FailsThen(EndSync)

Confirmed ==
    LET rest == Tail(sync.batch)
    IN  IF rest = <<>> THEN EndSync ELSE Goto([sync EXCEPT !.batch = rest])

RemovingTo(rows) ==
    /\ sync.at = "remove"
    /\ pending' = rows
    /\ Confirmed
    /\ UNCHANGED <<applied, stale, retries, made, other, marks>>

\* A slip to guard against: the rows stay in the table.
RemoveNothing == RemovingTo(pending)

\* _removePendingForChange looks the row up by its entity: the oldest row of the work
\* order goes, whichever change was sent.
RemoveRow == RemovingTo(IF pending = <<>> THEN <<>> ELSE Tail(pending))

\* Its exceptions are only logged.
RemoveFails ==
    /\ sync.at = "remove"
    /\ shifted' = TRUE
    /\ Confirmed
    /\ UNCHANGED <<applied, stale, table, other, refused, skipped, again>>

\* Three seconds after a success the indicator turns idle.
TurnIdle ==
    /\ status = "success"
    /\ status' = "idle"
    /\ UNCHANGED <<server, stale, table, sync, other, marks>>

\* The phone kills the app at any await.
Kill ==
    /\ status' = "idle" /\ sync' = NoSync /\ other' = NoPush
    /\ changed' = {}
    /\ again' = again \cup {m \in ToSet(pending) : applied[m] > 0}
    /\ UNCHANGED <<applied, stale, table, refused, skipped, shifted>>

-----------------------------------------------------------------------------
SyncStep ==
    \/ PullEntity \/ PullFails
    \/ Collect \/ Resolve \/ DiffFails
    \/ ApplySucceeds \/ ApplyFails
    \/ RemoveRow \/ RemoveFails

PushStep == PushFetches \/ PushSucceeds \/ PushFails \/ PushRemoves \/ PushCounts \/ PushThrows

DeltaNext ==
    \/ \E e \in Changing : ServerChange(e)
    \/ \E m \in Mutations : Edit(m)
    \/ PushStep
    \/ StartSync \/ SyncStep \/ TurnIdle
    \/ Kill

DeltaSpec == DeltaInit /\ [][DeltaNext]_deltaVars

\* Requests end after SYNC_TIMEOUT, and the timer of a retry fires.
FairDeltaSpec == DeltaSpec /\ WF_deltaVars(SyncStep)

-----------------------------------------------------------------------------
Ends == Syncing /\ status' \in {"success", "error"}

\* A sync that reports success was sent whatever had changed of the work orders before it
\* started: nothing that failed meanwhile goes unreported.
WorkOrdersCurrent == [][(Ends /\ status' = "success") => "work_orders" \notin sync.owed]_deltaVars

\* "Full sync cycle: 1. Pull remote changes -> apply locally" (differentialSync.ts:144-146):
\* the same of every entity.  The code moves the shared lastSyncTime with the first answer.
AllCurrent == [][(Ends /\ status' = "success") => sync.owed = {}]_deltaVars

\* A row leaves pending_sync unexecuted only if the server refused the change in a batch it
\* accepted, SyncService does not send its payload or failed MaxRetries times, or because rows
\* are looked up by entity and had been shifted: by the other service after the batch was
\* collected, by a merge that dropped a change, or by a deletion that failed.
LeftUnsentExplained ==
    \A m \in made \ ToSet(pending) :
        applied[m] > 0 \/ m \in refused \cup skipped \/ retries[m] = MaxRetries \/ shifted

\* The server executes a mutation twice only after a lost answer, a kill or a failed removal,
\* when both services had fetched its row at once, or after rows were shifted.
SentTwiceExplained == \A m \in Mutations : applied[m] > 1 => m \in again \/ shifted

\* A sync ends, whatever the network does, and the button works again.
SyncEnds == status = "syncing" ~> status # "syncing"
=============================================================================

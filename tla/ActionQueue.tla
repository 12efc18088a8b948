---------------------------- MODULE ActionQueue ----------------------------
(***************************************************************************)
(* The mobile app's older queue of offline actions                         *)
(* (mobile/src/store/syncStore.ts, fed by the completion wizard and the    *)
(* checklists, driven by hooks/useOfflineSync.ts): an action is written to *)
(* the table pending_mutations and appended to an array in memory; a pass  *)
(* over a COPY of the array sends it.  JavaScript runs one task at a time, *)
(* so a step ends where the code awaits.  WatermelonDB, the server and the *)
(* network are external: a row may be refused (create is called outside a  *)
(* writer), a request may take effect although the app saw it fail.        *)
(* Nobody calls setOnline(false), so isOnline is always true.              *)
(***************************************************************************)
EXTENDS Integers, Sequences, SequencesExt, FiniteSets

CONSTANTS
    Kind,       \* the type of the actions the technician takes, in their order
    Passes,     \* runs of processQueue that may be under way together, numbered
    MaxLoads,   \* bound: loadQueue calls after the start of the app
    MaxKills    \* bound: how often the phone kills the app

ASSUME QueueAssumption ==
    /\ Kind \in Seq({"complete", "checklist"})
    /\ Passes \subseteq Nat /\ IsFiniteSet(Passes) /\ Cardinality(Passes) >= 2
    /\ MaxLoads \in Nat
    /\ MaxKills \in Nat

VARIABLES
    stage,    \* per action: how far addToQueue is
    rows,     \* pending_mutations: the actions with a row
    queue,    \* the store's array of SyncAction objects
    tries,    \* retryCount of each object: it lives in the object, never in the row
    pass,     \* per pass: where it awaits, its processedIds, and updatedQueue split
              \* into what the loop has kept and what it has still to do
    loading,  \* loadQueue calls that have fetched rows and not yet stored them
    loads, kills,
    \* bookkeeping: what the server executed, what a pass gave up, and per action how many
    \* events gave a reason to send it once more, less how often that happened
    served, given, reasons

memory == <<queue, tries, pass>>
bounds == <<loads, kills>>
history == <<served, given, reasons>>
vars == <<stage, rows, queue, tries, pass, loading, loads, kills, served, given, reasons>>

MaxTries == 3
Actions == DOMAIN Kind

\* An object of the array: the action and the load that parsed it from its row
\* (0: addToQueue made it).  A load makes new objects, with a count of their own.
SyncAction == [id : Actions, load : 0 .. 1 + MaxLoads + MaxKills]

\* Copies of one action that can be under way: an object of each load in the array and in
\* every pass, and one addToQueue has still to append.  More reasons need no counting.
MostCopies == (Cardinality(Passes) + 1) * (2 + MaxLoads + MaxKills) + 1

TypeOK ==
    /\ stage \in [Actions -> {"new", "creating", "adding", "added"}]
    /\ rows \subseteq Actions
    /\ queue \in Seq(SyncAction)
    /\ tries \in [SyncAction -> Nat]
    /\ pass \in [Passes -> [at : {"idle", "call", "cleanup"}, kept : Seq(SyncAction),
                            todo : Seq(SyncAction), reached : BOOLEAN,
                            processed : SUBSET Actions]]
    /\ \A snapshot \in loading : snapshot \in [load : Nat, rows : SUBSET Actions]
    /\ loads \in 0 .. 1 + MaxLoads + MaxKills /\ kills \in 0 .. MaxKills
    /\ served \subseteq Actions /\ given \subseteq Actions
    /\ reasons \in [Actions -> Int]

IdlePass == [at |-> "idle", kept |-> <<>>, todo |-> <<>>, reached |-> FALSE, processed |-> {}]

Init ==
    /\ stage = [a \in Actions |-> "new"]
    /\ rows = {}
    /\ queue = <<>>
    /\ tries = [object \in SyncAction |-> 0]
    /\ pass = [p \in Passes |-> IdlePass]
    /\ loading = {[load |-> 1, rows |-> {}]}
    /\ loads = 1 /\ kills = 0
    /\ served = {} /\ given = {}
    /\ reasons = [a \in Actions |-> 0]

Ids(objects) == {object.id : object \in ToSet(objects)}

\* Reasons to send each action so many times more.
Excuse(more) == reasons' = [a \in Actions |-> Min({reasons[a] + more[a], MostCopies})]
Once(actions) == [a \in Actions |-> IF a \in actions THEN 1 ELSE 0]

-----------------------------------------------------------------------------
(* addToQueue *)

\* The technician's next action: SubmitCompletion or AnswerItem calls addToQueue.
CallAddToQueue(a) ==
    /\ stage[a] = "new"
    /\ \A earlier \in 1 .. a - 1 : stage[earlier] # "new"
    /\ stage' = [stage EXCEPT ![a] = "creating"]
    /\ UNCHANGED <<rows, memory, loading, bounds, given>>

\* The wizard's own request to complete the order failed, or was executed by the
\* server and only looked failed: the same request goes into the queue.
SubmitCompletion(a) ==
    /\ Kind[a] = "complete"
    /\ CallAddToQueue(a)
    /\ \/ UNCHANGED <<served, reasons>>
       \/ served' = served \cup {a} /\ Excuse(Once({a}))

\* An item of a checklist is answered, or the checklist saved as a whole.
AnswerItem(a) ==
    /\ Kind[a] = "checklist"
    /\ CallAddToQueue(a)
    /\ UNCHANGED <<served, reasons>>

\* The row is created, or create throws, which the code only logs.
CreateRow(a) ==
    /\ stage[a] = "creating"
    /\ stage' = [stage EXCEPT ![a] = "adding"]
    /\ rows' \in {rows, rows \cup {a}}
    /\ UNCHANGED <<memory, loading, bounds, history>>

AppendAction(a) ==
    /\ stage[a] = "adding"
    /\ stage' = [stage EXCEPT ![a] = "added"]
    /\ queue' = Append(queue, [id |-> a, load |-> 0])
    /\ UNCHANGED <<rows, tries, pass, loading, bounds, history>>

-----------------------------------------------------------------------------
(* processQueue *)

\* The place of the first action that needs a request, or 0.
FirstRequest(objects) == SelectInSeq(objects, LAMBDA object : Kind[object.id] # "checklist")

\* The loop runs on without awaiting over checklist actions, which it only logs,
\* to the next action that needs a request, or to its end, where it stores its copy
\* of the array if anything changed.  The result is the pass's new state and the
\* store's array.
Loop(kept, todo, processed, array) ==
    LET calls == FirstRequest(todo)
        rest == IF calls = 0 THEN <<>> ELSE SubSeq(todo, calls, Len(todo))
        logged == Ids(IF calls = 0 THEN todo ELSE SubSeq(todo, 1, calls - 1))
        done == processed \cup logged
        state(at) == [at |-> at, kept |-> kept, todo |-> rest, reached |-> FALSE,
                      processed |-> done]
    IN  [pass |-> IF rest # <<>> THEN state("call")
                  ELSE IF done # {} THEN state("cleanup") ELSE IdlePass,
         array |-> IF rest = <<>> /\ done # {} THEN kept ELSE array]

\* A slip to guard against: an empty copy is not stored.
LoopKeepingLast(kept, todo, processed, array) ==
    [Loop(kept, todo, processed, array) EXCEPT !.array = IF @ = <<>> THEN array ELSE @]

RunLoop(kept, todo, processed, array) == Loop(kept, todo, processed, array)

Active(p) == pass[p].at # "idle"
Holds(p) == Ids(pass[p].kept \o pass[p].todo) \cup pass[p].processed

\* The app comes to the foreground: setOnline(true) starts a pass, and the hook
\* starts another in the same task.  It finds the same array, unless the first, with
\* nothing but checklist actions to log, has emptied it already.
Foreground(p, q) ==
    /\ p < q /\ ~Active(p) /\ ~Active(q)
    /\ queue # <<>>
    /\ LET first == RunLoop(<<>>, queue, {}, queue)
           twice == first.pass.at = "call"
       IN  /\ pass' = [pass EXCEPT ![p] = first.pass,
                                   ![q] = IF twice THEN first.pass ELSE IdlePass]
           /\ queue' = first.array
           /\ Excuse([a \in Actions |->
                  Cardinality({i \in DOMAIN queue : queue[i].id = a}) *
                  Cardinality({other \in Passes : \/ other = q /\ twice
                                                  \/ Active(other) /\ a \in Holds(other)})])
    /\ UNCHANGED <<stage, rows, tries, loading, bounds, served, given>>

\* The request under way takes effect on the server.
ServerExecutes(p) ==
    /\ pass[p].at = "call" /\ ~pass[p].reached
    /\ pass' = [pass EXCEPT ![p].reached = TRUE]
    /\ LET a == Head(pass[p].todo).id
       IN  /\ served' = served \cup {a}
           /\ reasons' = [reasons EXCEPT ![a] = IF a \in served THEN @ - 1 ELSE @]
    /\ UNCHANGED <<stage, rows, queue, tries, loading, bounds, given>>

\* What a pass does after its request: the action leaves the copy, or stays.
Resume(p, kept, processed) ==
    LET next == RunLoop(kept, Tail(pass[p].todo), processed, queue)
    IN  /\ pass' = [pass EXCEPT ![p] = next.pass]
        /\ queue' = next.array

SucceedsKeeping(p, kept) ==
    /\ pass[p].at = "call" /\ pass[p].reached
    /\ Resume(p, kept, pass[p].processed \cup {Head(pass[p].todo).id})
    /\ UNCHANGED <<stage, rows, tries, loading, bounds, served, given, reasons>>

\* A slip to guard against: the action sent stays in the copy.
RequestSucceedsKept(p) == SucceedsKeeping(p, Append(pass[p].kept, Head(pass[p].todo)))

RequestSucceeds(p) == SucceedsKeeping(p, pass[p].kept)

\* Rejected, timed out, or answered without the answer arriving: at the limit the
\* action is given up.
FailsWithLimit(p, limit) ==
    /\ pass[p].at = "call"
    /\ LET object == Head(pass[p].todo)
           count == tries[object] + 1
       IN  /\ tries' = [tries EXCEPT ![object] = count]
           /\ IF count >= limit
              THEN /\ Resume(p, pass[p].kept, pass[p].processed \cup {object.id})
                   /\ given' = given \cup {object.id}
              ELSE /\ Resume(p, Append(pass[p].kept, object), pass[p].processed)
                   /\ UNCHANGED given
           /\ Excuse(Once(IF pass[p].reached THEN {object.id} ELSE {}))
    /\ UNCHANGED <<stage, rows, loading, bounds, served>>

\* A slip to guard against: the limit is passed by one.
RequestFailsLate(p) == FailsWithLimit(p, MaxTries + 1)

RequestFails(p) == FailsWithLimit(p, MaxTries)

\* The rows of the processed actions are destroyed, or the deletion throws, which
\* the code only logs.
CleanupRows(p, processed) ==
    /\ pass[p].at = "cleanup"
    /\ rows' \in {rows, rows \ processed}
    /\ pass' = [pass EXCEPT ![p] = IdlePass]
    /\ UNCHANGED <<stage, queue, tries, loading, bounds, history>>

\* A slip to guard against: the rows of the whole copy are destroyed.
CleanupAll(p) == CleanupRows(p, Holds(p))

Cleanup(p) == CleanupRows(p, pass[p].processed)

-----------------------------------------------------------------------------
(* loadQueue, and the app's death *)

\* A screen that uses useOfflineSync is mounted; when the app starts the navigator
\* loads twice, its hook and its own effect, and the second load is this action too.
FetchRows ==
    /\ loads < 1 + MaxLoads + kills
    /\ loads' = loads + 1
    /\ loading' = loading \cup {[load |-> loads + 1, rows |-> rows]}
    /\ UNCHANGED <<stage, rows, memory, kills, history>>

InOrder(actions) ==
    {order \in [1 .. Cardinality(actions) -> actions] :
        \A i, j \in DOMAIN order : i < j => order[i] < order[j]}

\* The array becomes what was fetched, in the order of the rows' timestamps.
StoreQueue(snapshot) ==
    /\ snapshot \in loading
    /\ loading' = loading \ {snapshot}
    /\ \E order \in InOrder(snapshot.rows) :
          queue' = [i \in DOMAIN order |-> [id |-> order[i], load |-> snapshot.load]]
    /\ Excuse(Once({a \in snapshot.rows : \/ stage[a] # "added" \/ a \in served
                                           \/ \E p \in Passes : a \in Holds(p)}))
    /\ UNCHANGED <<stage, rows, tries, pass, bounds, served, given>>

\* The phone kills the app at any point and the technician starts it again: the
\* array, the passes and the retry counts are gone, the rows are not.
Restart ==
    /\ kills < MaxKills
    /\ kills' = kills + 1
    /\ loads' = loads + 1
    /\ stage' = [a \in Actions |-> IF stage[a] = "new" THEN "new" ELSE "added"]
    /\ queue' = <<>>
    /\ tries' = [object \in SyncAction |-> 0]
    /\ pass' = [p \in Passes |-> IdlePass]
    /\ loading' = {[load |-> loads', rows |-> rows]}
    /\ UNCHANGED <<rows, history>>

-----------------------------------------------------------------------------
PassStep(p) == ServerExecutes(p) \/ RequestSucceeds(p) \/ RequestFails(p) \/ Cleanup(p)

Next ==
    \/ \E a \in Actions : SubmitCompletion(a) \/ AnswerItem(a) \/ CreateRow(a) \/ AppendAction(a)
    \/ \E p, q \in Passes : Foreground(p, q)
    \/ \E p \in Passes : PassStep(p)
    \/ FetchRows
    \/ \E snapshot \in loading : StoreQueue(snapshot)
    \/ Restart

Spec == Init /\ [][Next]_vars

\* A request ends (the client's timeout), and the technician comes back to the app
\* again and again.
FairSpec ==
    /\ Spec
    /\ \A p \in Passes : WF_vars(Active(p) /\ PassStep(p))
    /\ WF_vars(queue # <<>> /\ \E p, q \in Passes : Foreground(p, q))

-----------------------------------------------------------------------------
Left(a) == a \in rows /\ a \notin rows'

\* A completion whose row was written keeps it until the server executed the completion or
\* three failures made a pass give it up: no pass, load or death of the app loses the row
\* sooner, although the array may have lost the action long before.
CompletionsKept ==
    [][\A a \in Actions : Left(a) /\ Kind[a] = "complete" => a \in served \cup given]_vars

\* "Изменения не синхронизированы. Будет отправлено при подключении к сети."
\* (RegulatoryChecklist.tsx:239), of an answer that is stored and not yet sent: the row of any
\* action stays until then.  processQueue only logs a checklist action and destroys its row.
StoredUntilSent == [][\A a \in Actions : Left(a) => a \in served \cup given]_vars

\* Each execution of an action beyond the first has a reason of its own, one of those
\* marked in the actions above: the answer to the wizard or to a pass was lost, two
\* passes hold the action at once, or a load brought it back.
DuplicatesExplained == \A a \in Actions : reasons[a] >= 0

\* Three failures make a pass give an action up, and the object counts them for every pass.
\* Up to two passes have kept it before, and each puts it back into the array it stores;
\* whoever holds it then tries it once more.  The code does not bound the passes under way: a
\* return of the app starts two, and the next may come before they end.  With n of them an
\* object is tried at most 3n - 1 times.
TriesBounded == \A object \in SyncAction : tries[object] <= MaxTries * Cardinality(Passes) - 1

\* The array is empty again and again: a technician who keeps coming back to the app
\* carries no action along for ever, sent or not.
QueueEmpties == []<>(queue = <<>>)
=============================================================================

----------------------------- MODULE DeviceState -----------------------------
(***************************************************************************)
(* The state of one device as JetStreamStateManager keeps it               *)
(* (backend/internal/state/jetstream_manager.go): a NATS KV bucket holds   *)
(* the truth, every pod caches a *models.Device and a watcher replays the  *)
(* bucket's revisions into the cache.  The cache holds pointers: a handler *)
(* that got one mutates the very object other goroutines of the pod see,   *)
(* writes a JSON copy to the bucket and stores its pointer back, each in a *)
(* step of its own.  Devices share nothing, so one device is enough.  NATS *)
(* is external: revisions are delivered in order to each watcher.          *)
(***************************************************************************)
EXTENDS Naturals, Sequences, SequencesExt, FiniteSets

CONSTANTS
    Pods,
    Goroutines,    \* goroutines that serve the device
    PodOf,         \* the pod of each goroutine
    MaxRevisions,  \* bound: revisions of the key
    MaxTime,       \* bound: clock readings
    Timeout,       \* Reaper.timeout, in clock readings
    Offered        \* the methods handlers call

ASSUME StateAssumption ==
    /\ IsFiniteSet(Goroutines)
    /\ PodOf \in [Goroutines -> Pods]
    /\ MaxRevisions \in Nat
    /\ MaxTime \in Nat
    /\ Timeout \in Nat
    /\ Offered \subseteq {"UpdateLastSeen", "SetOnline", "AddAlarm", "Register", "Delete"}

Device == [status : {"online", "offline"}, seen : 0 .. MaxTime, alarm : BOOLEAN]
Deleted == [status |-> "deleted", seen |-> 0, alarm |-> FALSE]
Objects == 1 .. Cardinality(Goroutines) + 2   \* per pod: cache, goroutines, one to allocate
Nil == 0

VARIABLES
    now,       \* the clock
    revisions, \* the bucket: every revision of the key, Deleted for a delete marker
    cache,     \* per pod: localCache's pointer for the device, or Nil
    heap,      \* per pod: contents of the device objects
    position,  \* per pod: next revision its watcher delivers
    pc,        \* per goroutine: what it does next
    call,      \* per goroutine: the method it executes
    ref,       \* per goroutine: the pointer it got
    payload,   \* per goroutine: the JSON it is about to put
    unsaved    \* pods whose cached object was changed and the put then failed

deviceVars == <<now, revisions, cache, heap, position, pc, call, ref, payload, unsaved>>

Calls == Offered \cup {"SetOffline", "none"}

DeviceTypeOK ==
    /\ now \in 0 .. MaxTime
    /\ revisions \in Seq(Device \cup {Deleted})
    /\ cache \in [Pods -> Objects \cup {Nil}]
    /\ heap \in [Pods -> [Objects -> Device]]
    /\ position \in [Pods -> Nat \ {0}]
    /\ pc \in [Goroutines -> {"idle", "get", "fetch", "fill", "mutate", "put", "store", "delete", "evict"}]
    /\ call \in [Goroutines -> Calls]
    /\ ref \in [Goroutines -> Objects \cup {Nil}]
    /\ payload \in [Goroutines -> Device]
    /\ unsaved \subseteq Pods

Blank == [status |-> "offline", seen |-> 0, alarm |-> FALSE]

DeviceInit ==
    /\ now = 0
    /\ revisions = << >>
    /\ cache = [p \in Pods |-> Nil]
    /\ heap = [p \in Pods |-> [o \in Objects |-> Blank]]
    /\ position = [p \in Pods |-> 1]
    /\ pc = [g \in Goroutines |-> "idle"]
    /\ call = [g \in Goroutines |-> "none"]
    /\ ref = [g \in Goroutines |-> Nil]
    /\ payload = [g \in Goroutines |-> Blank]
    /\ unsaved = {}

-----------------------------------------------------------------------------
Latest == IF revisions = << >> THEN Deleted ELSE Last(revisions)
Cached(p) == IF cache[p] = Nil THEN Deleted ELSE heap[p][cache[p]]

\* An object nobody in the pod points to: what decodeDevice or &models.Device{} returns.
NewObject(p) ==
    CHOOSE o \in Objects : o # cache[p] /\ \A g \in Goroutines : PodOf[g] = p => o # ref[g]

\* What is left of heap h once nobody points to an object any more.
Collect(h) ==
    heap' = [p \in Pods |-> [o \in Objects |->
                IF o = cache'[p] \/ \E g \in Goroutines : PodOf[g] = p /\ o = ref'[g]
                THEN h[p][o] ELSE Blank]]

Finish(g) ==
    /\ pc' = [pc EXCEPT ![g] = "idle"]
    /\ call' = [call EXCEPT ![g] = "none"]
    /\ ref' = [ref EXCEPT ![g] = Nil]
    /\ payload' = [payload EXCEPT ![g] = Blank]

Tick ==
    /\ now < MaxTime
    /\ now' = now + 1
    /\ UNCHANGED <<revisions, cache, heap, position, pc, call, ref, payload, unsaved>>

\* Reaper.check: the cached device looks online and silent for too long.
ReaperCheck(g) ==
    /\ pc[g] = "idle"
    /\ LET seen == Cached(PodOf[g])
       IN  seen.status = "online" /\ now > seen.seen + Timeout
    /\ pc' = [pc EXCEPT ![g] = "get"]
    /\ call' = [call EXCEPT ![g] = "SetOffline"]
    /\ UNCHANGED <<now, revisions, cache, heap, position, ref, payload, unsaved>>

BeginCall(g, c) ==
    /\ pc[g] = "idle"
    /\ pc' = [pc EXCEPT ![g] = IF c = "Delete" THEN "delete" ELSE "get"]
    /\ call' = [call EXCEPT ![g] = c]
    /\ UNCHANGED <<now, revisions, cache, heap, position, ref, payload, unsaved>>

\* Get: a cache hit returns the shared pointer.
GetCached(g) ==
    /\ pc[g] = "get"
    /\ ref' = [ref EXCEPT ![g] = cache[PodOf[g]]]
    /\ pc' = [pc EXCEPT ![g] = IF cache[PodOf[g]] = Nil THEN "fetch" ELSE "mutate"]
    /\ UNCHANGED <<now, revisions, cache, heap, position, call, payload, unsaved>>

\* Get: a miss reads the bucket, which may fail; only a registration goes on
\* without an entry, with a new device.
FetchFromKV(g) ==
    /\ pc[g] = "fetch"
    /\ LET p == PodOf[g]
           o == NewObject(p)
       IN  \E entry \in {Latest, Deleted} :
             \/ /\ entry # Deleted \/ call[g] = "Register"
                /\ ref' = [ref EXCEPT ![g] = o]
                /\ heap' = [heap EXCEPT ![p][o] = IF entry = Deleted THEN Blank ELSE entry]
                /\ pc' = [pc EXCEPT ![g] = IF entry = Deleted THEN "mutate" ELSE "fill"]
                /\ UNCHANGED <<call, payload>>
             \/ /\ entry = Deleted /\ call[g] # "Register"
                /\ Finish(g)
                /\ UNCHANGED heap
    /\ UNCHANGED <<now, revisions, cache, position, unsaved>>

FillCache(g) ==
    /\ pc[g] = "fill"
    /\ cache' = [cache EXCEPT ![PodOf[g]] = ref[g]]
    /\ pc' = [pc EXCEPT ![g] = "mutate"]
    /\ UNCHANGED ref
    /\ Collect(heap)
    /\ UNCHANGED <<now, revisions, position, call, payload, unsaved>>

\* The field assignments of each method, on the object behind the pointer.
Mutated(c, dev) ==
    CASE c = "UpdateLastSeen" -> [dev EXCEPT !.seen = now]
      [] c = "AddAlarm" -> [dev EXCEPT !.alarm = TRUE]
      [] c = "Register" -> [dev EXCEPT !.status = "online", !.seen = now]
      [] c = "SetOnline" /\ dev.status # "online" -> [dev EXCEPT !.status = "online", !.seen = now]
      [] c = "SetOffline" /\ dev.status # "offline" -> [dev EXCEPT !.status = "offline", !.seen = now]
      [] OTHER -> dev

Skips(c, dev) ==
    \/ c = "SetOnline" /\ dev.status = "online"
    \/ c = "SetOffline" /\ dev.status = "offline"

Mutate(g) ==
    /\ pc[g] = "mutate"
    /\ LET p == PodOf[g]
           dev == heap[p][ref[g]]
       IN  IF Skips(call[g], dev)
           THEN Finish(g) /\ UNCHANGED cache /\ Collect(heap)
           ELSE /\ heap' = [heap EXCEPT ![p][ref[g]] = Mutated(call[g], dev)]
                /\ payload' = [payload EXCEPT ![g] = Mutated(call[g], dev)]
                /\ pc' = [pc EXCEPT ![g] = "put"]
                /\ UNCHANGED <<cache, call, ref>>
    /\ UNCHANGED <<now, revisions, position, unsaved>>

Put(g) ==
    /\ pc[g] = "put"
    /\ Len(revisions) < MaxRevisions
    /\ revisions' = Append(revisions, payload[g])
    /\ unsaved' = unsaved \ {PodOf[g]}
    /\ pc' = [pc EXCEPT ![g] = "store"]
    /\ UNCHANGED <<now, cache, heap, position, call, ref, payload>>

\* kv.Put returned an error: Set returns, the object stays mutated.
PutFails(g) ==
    /\ pc[g] = "put"
    /\ unsaved' = unsaved \cup {PodOf[g]}
    /\ Finish(g)
    /\ UNCHANGED cache
    /\ Collect(heap)
    /\ UNCHANGED <<now, revisions, position>>

StorePointer(g) ==
    /\ pc[g] = "store"
    /\ cache' = [cache EXCEPT ![PodOf[g]] = ref[g]]
    /\ Finish(g)
    /\ Collect(heap)
    /\ UNCHANGED <<now, revisions, position, unsaved>>

\* Delete: the marker in the bucket, then the cache entry, whatever came of it.
DeleteFromKV(g) ==
    /\ pc[g] = "delete"
    /\ \/ /\ Len(revisions) < MaxRevisions
          /\ revisions' = Append(revisions, Deleted)
          /\ unsaved' = unsaved \ {PodOf[g]}
       \/ UNCHANGED revisions /\ unsaved' = unsaved \cup {PodOf[g]}
    /\ pc' = [pc EXCEPT ![g] = "evict"]
    /\ UNCHANGED <<now, cache, heap, position, call, ref, payload>>

DeleteFromCache(g) ==
    /\ pc[g] = "evict"
    /\ cache' = [cache EXCEPT ![PodOf[g]] = Nil]
    /\ Finish(g)
    /\ Collect(heap)
    /\ UNCHANGED <<now, revisions, position, unsaved>>

-----------------------------------------------------------------------------
\* A slip to guard against: a delete marker is passed over.
WatchSkipsMarker(p) ==
    /\ position[p] <= Len(revisions)
    /\ position' = [position EXCEPT ![p] = @ + 1]
    /\ UNCHANGED ref
    /\ LET entry == revisions[position[p]]
           o == NewObject(p)
       IN  IF entry = Deleted
           THEN UNCHANGED cache /\ Collect(heap)
           ELSE cache' = [cache EXCEPT ![p] = o] /\ Collect([heap EXCEPT ![p][o] = entry])
    /\ UNCHANGED <<now, revisions, pc, call, payload, unsaved>>

\* handleKVEntry: the next revision replaces the cached pointer.
Watch(p) ==
    /\ position[p] <= Len(revisions)
    /\ position' = [position EXCEPT ![p] = @ + 1]
    /\ UNCHANGED ref
    /\ LET entry == revisions[position[p]]
           o == NewObject(p)
       IN  IF entry = Deleted
           THEN cache' = [cache EXCEPT ![p] = Nil] /\ Collect(heap)
           ELSE cache' = [cache EXCEPT ![p] = o] /\ Collect([heap EXCEPT ![p][o] = entry])
    /\ UNCHANGED <<now, revisions, pc, call, payload, unsaved>>

\* A slip to guard against: a watcher that asks for updates only.
UpdatesOnly == Len(revisions) + 1

\* WatchAll starts with the last revision of the key, if it has one.
WatchStart == IF revisions = << >> THEN 1 ELSE Len(revisions)

\* The watcher's channel closed and watchLoop opened another one.
Reconnect(p) ==
    /\ position' = [position EXCEPT ![p] = WatchStart]
    /\ UNCHANGED <<now, revisions, cache, heap, pc, call, ref, payload, unsaved>>

\* The pod dies and comes back: loadExistingKeys (which may fail), then WatchAll.
Restart(p) ==
    /\ LET mine == {g \in Goroutines : PodOf[g] = p}
       IN  /\ pc' = [g \in Goroutines |-> IF g \in mine THEN "idle" ELSE pc[g]]
           /\ call' = [g \in Goroutines |-> IF g \in mine THEN "none" ELSE call[g]]
           /\ ref' = [g \in Goroutines |-> IF g \in mine THEN Nil ELSE ref[g]]
           /\ payload' = [g \in Goroutines |-> IF g \in mine THEN Blank ELSE payload[g]]
    /\ \/ /\ Latest # Deleted
          /\ cache' = [cache EXCEPT ![p] = 1]
          /\ Collect([heap EXCEPT ![p][1] = Latest])
       \/ /\ cache' = [cache EXCEPT ![p] = Nil]
          /\ Collect(heap)
    /\ position' = [position EXCEPT ![p] = WatchStart]
    /\ unsaved' = unsaved \ {p}
    /\ UNCHANGED <<now, revisions>>

MethodStep(g) ==
    \/ GetCached(g)
    \/ FetchFromKV(g)
    \/ FillCache(g)
    \/ Mutate(g)
    \/ Put(g)
    \/ PutFails(g)
    \/ StorePointer(g)
    \/ DeleteFromKV(g)
    \/ DeleteFromCache(g)

DeviceNext ==
    \/ Tick
    \/ \E g \in Goroutines :
          \/ ReaperCheck(g)
          \/ \E c \in Offered : BeginCall(g, c)
          \/ MethodStep(g)
    \/ \E p \in Pods : Watch(p) \/ Reconnect(p) \/ Restart(p)

DeviceSpec == DeviceInit /\ [][DeviceNext]_deviceVars

\* Every watcher keeps delivering what the bucket has for it.
FairDeviceSpec == DeviceSpec /\ \A p \in Pods : WF_deviceVars(Watch(p))

-----------------------------------------------------------------------------
\* Nothing is in flight for pod p: no method of any pod is between its steps
\* and its watcher has delivered every revision.
Quiet(p) ==
    /\ \A g \in Goroutines : pc[g] = "idle"
    /\ position[p] > Len(revisions)

\* Lines 11-13: the watch keeps every pod's cache equal to the bucket, except
\* where a failed put left the pod to work from its cache.
Converged == \A p \in Pods : Quiet(p) /\ p \notin unsaved => Cached(p) = Latest

\* A pod that does not write the device ends with the last revision, whatever
\* became of its watcher in between.
Readers == Pods \ {PodOf[g] : g \in Goroutines}
ReadersCatchUp == \A p \in Readers : Len(revisions) = MaxRevisions ~> Cached(p) = Latest
=============================================================================

---------------------------- MODULE CmmsDispatch ----------------------------
(***************************************************************************)
(* The CMMS event dispatcher (backend/internal/cmms/dispatcher.go) with    *)
(* its circuit breaker and its fallback queue on disk (fallback_queue.go). *)
(* The goroutines of events.Subscriber run processWithRetry concurrently;  *)
(* one more goroutine, the fallback worker, replays the queue.  Breaker    *)
(* fields are separate atomics, so allow(), failure() and success() take   *)
(* one step per atomic.  The CMMS behind the adapter is external: a call   *)
(* may take effect although its answer (30 s timeout) is an error.         *)
(***************************************************************************)
EXTENDS Naturals, FiniteSets, Functions

CONSTANTS
    Workers,      \* goroutines of the subscriber's worker pool
    Fallback,     \* the fallback worker
    Events,       \* events delivered by NATS, once each, numbered in their order
    Threshold,    \* CircuitBreakerThreshold
    MaxRetries,   \* FallbackMaxRetries
    MaxCrashes    \* bound: crashes explored

ASSUME DispatchAssumption ==
    /\ Fallback \notin Workers
    /\ Events \subseteq Nat \ {0}
    /\ Threshold \in Nat \ {0}
    /\ MaxRetries \in Nat \ {0}
    /\ MaxCrashes \in Nat

Procs == Workers \cup {Fallback}

VARIABLES
    \* circuitBreaker
    cbState, failCount,
    cooled,      \* time.Since(lastOpen) >= resetTime
    \* goroutines
    pc,          \* where each goroutine is
    event,       \* the event each goroutine has in hand (None: no event)
    todo,        \* fallback worker: the rest of what Pending() returned
    \* disk
    queue,       \* FallbackQueue directory: event |-> entry.Retries
    \* environment and bookkeeping
    fresh,       \* events NATS has not delivered yet
    applied,     \* how often the CMMS executed each event
    failures,    \* how often a retry from the queue ended with an error
    unsure,      \* executions whose success no goroutine survived to record
    dropped,     \* events MarkRetry removed at the retry limit
    lost,        \* events in memory only when the process died
    crashes

breaker == <<cbState, failCount, cooled>>
cmms == <<applied, failures, unsure>>
vars == <<cbState, failCount, cooled, pc, event, todo, queue, fresh, applied, failures, unsure, dropped, lost, crashes>>

PCs == {"idle", "swap", "call", "failed", "opening", "open", "ok", "closing",
        "enqueue", "list", "pick", "retry", "remove"}
None == 0

TypeOK ==
    /\ cbState \in {"closed", "open", "halfOpen"}
    /\ failCount \in Nat
    /\ cooled \in BOOLEAN
    /\ pc \in [Procs -> PCs]
    /\ event \in [Procs -> Events \cup {None}]
    /\ todo \subseteq Events
    /\ DOMAIN queue \subseteq Events
    /\ \A e \in DOMAIN queue : queue[e] \in 0 .. MaxRetries - 1
    /\ fresh \subseteq Events
    /\ applied \in [Events -> Nat]
    /\ failures \in [Events -> Nat]
    /\ unsure \in [Events -> Nat]
    /\ dropped \subseteq Events
    /\ lost \subseteq Events
    /\ crashes \in 0 .. MaxCrashes

Init ==
    /\ cbState = "closed" /\ failCount = 0 /\ cooled = TRUE
    /\ pc = [p \in Procs |-> "idle"]
    /\ event = [p \in Procs |-> None]
    /\ todo = {}
    /\ queue = << >>
    /\ fresh = Events
    /\ applied = [e \in Events |-> 0]
    /\ failures = [e \in Events |-> 0]
    /\ unsure = [e \in Events |-> 0]
    /\ dropped = {}
    /\ lost = {}
    /\ crashes = 0

GoTo(p, label) == pc' = [pc EXCEPT ![p] = label]
Release(p) == event' = [event EXCEPT ![p] = None]

-----------------------------------------------------------------------------
(* circuitBreaker.allow(), called by p; passed: where an admitted caller     *)
(* goes, refused: where a caller turned away goes.  A half-open breaker lets *)
(* every caller through.                                                     *)
Allow(p, passed, refused) ==
    \/ cbState \in {"closed", "halfOpen"} /\ GoTo(p, passed)
    \/ cbState = "open" /\ cooled /\ GoTo(p, "swap")
    \/ cbState = "open" /\ ~cooled /\ GoTo(p, refused)

\* The CompareAndSwap of allow(): only one caller moves Open to HalfOpen.
HalfOpenSwap(p) ==
    /\ pc[p] = "swap"
    /\ IF cbState = "open"
       THEN cbState' = "halfOpen" /\ GoTo(p, IF p = Fallback THEN "list" ELSE "call")
       ELSE UNCHANGED cbState /\ GoTo(p, IF p = Fallback THEN "idle" ELSE "enqueue")
    /\ UNCHANGED <<failCount, cooled, event, todo, queue, fresh, cmms, dropped, lost, crashes>>

CoolDown ==
    /\ cbState = "open"
    /\ ~cooled
    /\ cooled' = TRUE
    /\ UNCHANGED <<cbState, failCount, pc, event, todo, queue, fresh, cmms, dropped, lost, crashes>>

-----------------------------------------------------------------------------
\* processWithRetry: a subscriber goroutine takes the next event and asks the breaker.
Receive(w) ==
    /\ pc[w] = "idle"
    /\ \E e \in fresh : /\ \A other \in fresh : e <= other
                       /\ fresh' = fresh \ {e}
                       /\ event' = [event EXCEPT ![w] = e]
    /\ Allow(w, "call", "enqueue")
    /\ UNCHANGED <<breaker, todo, queue, cmms, dropped, lost, crashes>>

\* A slip to guard against: the worker forgets the event of an open breaker.
EnqueueNothing(w) ==
    /\ pc[w] = "enqueue"
    /\ GoTo(w, "idle")
    /\ Release(w)
    /\ UNCHANGED <<breaker, todo, queue, fresh, cmms, dropped, lost, crashes>>

\* What a call of the route's handler does: took effect or not, error or not.
HandlerSucceeds(e) ==
    /\ applied' = [applied EXCEPT ![e] = @ + 1]
    /\ UNCHANGED unsure

HandlerFails(e, tookEffect) ==
    /\ IF tookEffect
       THEN /\ applied' = [applied EXCEPT ![e] = @ + 1]
            /\ unsure' = [unsure EXCEPT ![e] = @ + 1]
       ELSE UNCHANGED <<applied, unsure>>

CallHandler(w) ==
    /\ pc[w] = "call"
    /\ \/ HandlerSucceeds(event[w]) /\ GoTo(w, "ok")
       \/ \E effect \in BOOLEAN : HandlerFails(event[w], effect) /\ GoTo(w, "failed")
    /\ UNCHANGED <<breaker, event, todo, queue, fresh, failures, dropped, lost, crashes>>

\* failure(): count, and at the threshold store lastOpen, then the state.
CountFailure(w) ==
    /\ pc[w] = "failed"
    /\ failCount' = failCount + 1
    /\ GoTo(w, IF failCount + 1 >= Threshold THEN "opening" ELSE "enqueue")
    /\ UNCHANGED <<cbState, cooled, event, todo, queue, fresh, cmms, dropped, lost, crashes>>

StoreLastOpen(w) ==
    /\ pc[w] = "opening"
    /\ cooled' = FALSE
    /\ GoTo(w, "open")
    /\ UNCHANGED <<cbState, failCount, event, todo, queue, fresh, cmms, dropped, lost, crashes>>

StoreOpen(w) ==
    /\ pc[w] = "open"
    /\ cbState' = "open"
    /\ GoTo(w, "enqueue")
    /\ UNCHANGED <<failCount, cooled, event, todo, queue, fresh, cmms, dropped, lost, crashes>>

\* success(): reset the count, then close a half-open breaker.
ResetFailures(w) ==
    /\ pc[w] = "ok"
    /\ failCount' = 0
    /\ GoTo(w, "closing")
    /\ UNCHANGED <<cbState, cooled, event, todo, queue, fresh, cmms, dropped, lost, crashes>>

CloseBreaker(w) ==
    /\ pc[w] = "closing"
    /\ cbState' = IF cbState = "halfOpen" THEN "closed" ELSE cbState
    /\ GoTo(w, "idle")
    /\ Release(w)
    /\ UNCHANGED <<failCount, cooled, todo, queue, fresh, cmms, dropped, lost, crashes>>

Enqueue(w) ==
    /\ pc[w] = "enqueue"
    /\ queue' = [e \in DOMAIN queue \cup {event[w]} |-> IF e = event[w] THEN 0 ELSE queue[e]]
    /\ GoTo(w, "idle")
    /\ Release(w)
    /\ UNCHANGED <<breaker, todo, fresh, cmms, dropped, lost, crashes>>

-----------------------------------------------------------------------------
\* A slip to guard against: the worker waits until the breaker is closed.
TickWhenClosed ==
    /\ pc[Fallback] = "idle"
    /\ cbState = "closed"
    /\ GoTo(Fallback, "list")
    /\ UNCHANGED <<breaker, event, todo, queue, fresh, cmms, dropped, lost, crashes>>

\* processFallbackQueue: the 30 s ticker, allow(), Pending(), one entry at a time.
Tick ==
    /\ pc[Fallback] = "idle"
    /\ Allow(Fallback, "list", "idle")
    /\ UNCHANGED <<breaker, event, todo, queue, fresh, cmms, dropped, lost, crashes>>

ListPending ==
    /\ pc[Fallback] = "list"
    /\ todo' = DOMAIN queue
    /\ GoTo(Fallback, IF DOMAIN queue = {} THEN "idle" ELSE "pick")
    /\ UNCHANGED <<breaker, event, queue, fresh, cmms, dropped, lost, crashes>>

PickEntry ==
    /\ pc[Fallback] = "pick"
    /\ IF todo = {}
       THEN GoTo(Fallback, "idle") /\ UNCHANGED <<todo, event>>
       ELSE \E e \in todo :
              /\ todo' = todo \ {e}
              /\ event' = [event EXCEPT ![Fallback] = e]
              /\ GoTo(Fallback, "call")
    /\ UNCHANGED <<breaker, queue, fresh, cmms, dropped, lost, crashes>>

RetryHandler ==
    /\ pc[Fallback] = "call"
    /\ \/ HandlerSucceeds(event[Fallback]) /\ GoTo(Fallback, "remove") /\ UNCHANGED failures
       \/ /\ \E effect \in BOOLEAN : HandlerFails(event[Fallback], effect)
          /\ failures' = [failures EXCEPT ![event[Fallback]] = @ + 1]
          /\ GoTo(Fallback, "retry")
    /\ UNCHANGED <<breaker, event, todo, queue, fresh, dropped, lost, crashes>>

MarkRetryEarly ==
    /\ pc[Fallback] = "retry"
    /\ LET e == event[Fallback]
       IN  queue' = Restrict(queue, DOMAIN queue \ {e}) /\ dropped' = dropped \cup {e}
    /\ GoTo(Fallback, "pick")
    /\ Release(Fallback)
    /\ UNCHANGED <<breaker, todo, fresh, cmms, lost, crashes>>

RemoveNothing ==
    /\ pc[Fallback] = "remove"
    /\ GoTo(Fallback, "pick")
    /\ Release(Fallback)
    /\ UNCHANGED <<breaker, todo, queue, fresh, cmms, dropped, lost, crashes>>

MarkRetry ==
    /\ pc[Fallback] = "retry"
    /\ LET e == event[Fallback]
       IN  IF queue[e] + 1 >= MaxRetries
           THEN queue' = Restrict(queue, DOMAIN queue \ {e}) /\ dropped' = dropped \cup {e}
           ELSE queue' = [queue EXCEPT ![e] = @ + 1] /\ UNCHANGED dropped
    /\ GoTo(Fallback, "pick")
    /\ Release(Fallback)
    /\ UNCHANGED <<breaker, todo, fresh, cmms, lost, crashes>>

Remove ==
    /\ pc[Fallback] = "remove"
    /\ queue' = Restrict(queue, DOMAIN queue \ {event[Fallback]})
    /\ GoTo(Fallback, "pick")
    /\ Release(Fallback)
    /\ UNCHANGED <<breaker, todo, fresh, cmms, dropped, lost, crashes>>

-----------------------------------------------------------------------------
\* The process dies and restarts: the directory survives, the rest does not.
InHand == {event[w] : w \in Workers} \ {None}

Crash ==
    /\ crashes < MaxCrashes
    /\ crashes' = crashes + 1
    /\ cbState' = "closed" /\ failCount' = 0 /\ cooled' = TRUE
    /\ pc' = [p \in Procs |-> "idle"]
    /\ event' = [p \in Procs |-> None]
    /\ todo' = {}
    /\ lost' = lost \cup {e \in InHand : applied[e] = 0}
    /\ unsure' = [e \in Events |->
                    unsure[e] + IF pc[Fallback] = "remove" /\ event[Fallback] = e THEN 1 ELSE 0]
    /\ UNCHANGED <<queue, fresh, applied, failures, dropped>>

WorkerStep(w) ==
    \/ CallHandler(w)
    \/ HalfOpenSwap(w)
    \/ CountFailure(w)
    \/ StoreLastOpen(w)
    \/ StoreOpen(w)
    \/ ResetFailures(w)
    \/ CloseBreaker(w)
    \/ Enqueue(w)

FallbackStep ==
    \/ Tick
    \/ HalfOpenSwap(Fallback)
    \/ ListPending
    \/ PickEntry
    \/ RetryHandler
    \/ MarkRetry
    \/ Remove

Next ==
    \/ \E w \in Workers : Receive(w) \/ WorkerStep(w)
    \/ FallbackStep
    \/ CoolDown
    \/ Crash

Spec == Init /\ [][Next]_vars

\* Goroutines that can run do run, the ticker fires, and time passes.
FairSpec ==
    /\ Spec
    /\ \A w \in Workers : WF_vars(WorkerStep(w))
    /\ WF_vars(FallbackStep)
    /\ WF_vars(CoolDown)

-----------------------------------------------------------------------------
\* An event NATS delivered is never forgotten while the process lives: it was
\* executed, or a goroutine or the disk still has it, or it was given up on
\* loudly; only a crash takes what was in memory alone.
NoSilentLoss ==
    \A e \in Events \ fresh :
        applied[e] > 0 \/ e \in DOMAIN queue \/ e \in InHand \/ e \in dropped \/ e \in lost

\* The limit drops only an event that was retried from the queue that often, besides
\* its first attempt.
DroppedOnlyAfterRetries == \A e \in dropped : failures[e] >= MaxRetries

\* A work order is created twice only if a success went unrecorded: an answer
\* that never came, or a crash between the answer and Remove.
DuplicatesExplained == \A e \in Events : applied[e] <= 1 + unsure[e]

\* What is on disk does not stay there: it is executed or given up on, however
\* the breaker moves between its states meanwhile.
QueueDrains == \A e \in Events : e \in DOMAIN queue ~> e \notin DOMAIN queue

\* The dispatcher implements the abstract queue: an event is open while a worker has it in
\* hand or the disk keeps it, and is abandoned at the retry limit or in a crash.
Delivery == INSTANCE AtLeastOnce WITH
    Jobs <- Events,
    taken <- Events \ fresh,
    open <- DOMAIN queue \cup InHand,
    executed <- applied,
    abandoned <- dropped \cup lost

ImplementsDelivery == Delivery!Spec
=============================================================================

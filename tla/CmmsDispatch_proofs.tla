------------------------- MODULE CmmsDispatch_proofs -------------------------
(***************************************************************************)
(* What the dispatcher guarantees for any number of workers, events and    *)
(* crashes and any threshold and retry limit.  An event that can still be  *)
(* executed is in one place (not delivered, in one worker's hand, or on    *)
(* disk), its place is left only with a success or a final drop, and the   *)
(* executions so far are those whose answer was lost.  The breaker decides *)
(* where an event goes and matters to none of it.                          *)
(***************************************************************************)
EXTENDS CmmsDispatch, TLAPS

Busy == {"swap", "call", "failed", "opening", "open", "ok", "closing", "enqueue"}
Replaying == {"call", "retry", "remove"}

\* Who stands where, and with an event or without.
Stations ==
    /\ \A w \in Workers : pc[w] \in Busy \cup {"idle"} /\ (event[w] = None <=> pc[w] = "idle")
    /\ pc[Fallback] \in Replaying \cup {"idle", "swap", "list", "pick"}
    /\ event[Fallback] = None <=> pc[Fallback] \notin Replaying

\* An event is in one place.
OnePlace ==
    /\ fresh \cap DOMAIN queue = {}
    /\ \A w \in Workers : event[w] \notin fresh /\ event[w] \notin DOMAIN queue
    /\ \A v, w \in Workers : event[v] = event[w] /\ event[v] # None => v = w

\* What the fallback worker has read is still on disk: nobody else deletes.
Listed ==
    /\ todo \subseteq DOMAIN queue
    /\ event[Fallback] # None => event[Fallback] \in DOMAIN queue \ todo

\* The entry's count never runs ahead of its failures.
Counted ==
    /\ \A e \in DOMAIN queue : queue[e] <= failures[e]
    /\ pc[Fallback] = "retry" => queue[event[Fallback]] + 1 <= failures[event[Fallback]]

\* A success is in the CMMS before anybody acts upon it.
Executed ==
    /\ \A w \in Workers : pc[w] \in {"ok", "closing"} => applied[event[w]] > 0
    /\ pc[Fallback] = "remove" => applied[event[Fallback]] > 0

\* Every execution of an event that may be executed again went unrecorded.
Pending(e) ==
    \/ e \in fresh
    \/ \E w \in Workers : event[w] = e /\ pc[w] \notin {"ok", "closing"}
    \/ e \in DOMAIN queue /\ ~(pc[Fallback] = "remove" /\ event[Fallback] = e)

Unrecorded == \A e \in Events : Pending(e) => applied[e] <= unsure[e]

Promises == NoSilentLoss /\ DroppedOnlyAfterRetries /\ DuplicatesExplained

IInv ==
    TypeOK /\ Stations /\ OnePlace /\ Listed /\ Counted /\ Executed /\ Unrecorded /\ Promises

-----------------------------------------------------------------------------
\* The invariant holds when the dispatcher starts.
LEMMA InitIInv == Init => IInv
<1> SUFFICES ASSUME Init PROVE IInv
  OBVIOUS
<1> USE DispatchAssumption DEF Init, Procs, None
<1>1. DOMAIN queue = {}
  OBVIOUS
<1>2. TypeOK
  BY <1>1 DEF TypeOK, PCs
<1>3. Stations /\ OnePlace /\ Listed
  BY <1>1 DEF Stations, OnePlace, Listed, Busy, Replaying
<1>4. Counted /\ Executed /\ Unrecorded
  BY <1>1 DEF Counted, Executed, Unrecorded
<1>5. Promises
  BY DEF Promises, NoSilentLoss, DroppedOnlyAfterRetries, DuplicatesExplained
<1> QED  BY <1>2, <1>3, <1>4, <1>5 DEF IInv

\* A step of one goroutine that moves nothing but the breaker and its own pc, and goes
\* from holding an event to holding it still, keeps the invariant.
LEMMA BreakerStep ==
  ASSUME IInv, NEW p \in Procs, NEW label \in PCs, GoTo(p, label),
         UNCHANGED <<event, todo, queue, fresh, cmms, dropped, lost, crashes>>,
         cbState' \in {"closed", "open", "halfOpen"}, failCount' \in Nat, cooled' \in BOOLEAN,
         p = Fallback => /\ pc[p] \notin Replaying
                         /\ label \in {"idle", "swap", "list", "pick"},
         p # Fallback => /\ pc[p] # "idle"
                         /\ label \in Busy
                         /\ label \in {"ok", "closing"} <=> pc[p] \in {"ok", "closing"}
  PROVE  IInv'
<1> USE DispatchAssumption DEF Procs, GoTo, cmms
<1>0. TypeOK /\ Stations /\ Fallback \notin Workers
  BY DEF IInv
<1>1. pc' = [pc EXCEPT ![p] = label] /\ pc \in [Procs -> PCs]
  BY <1>0 DEF TypeOK
<1>2. TypeOK'
  BY <1>0, <1>1 DEF TypeOK
<1>3. Stations'
  BY <1>0, <1>1 DEF Stations, Busy, Replaying
<1>4. OnePlace' /\ Listed'
  BY DEF IInv, OnePlace, Listed
<1>5. pc'[Fallback] \in {"retry", "remove"} <=> pc[Fallback] \in {"retry", "remove"}
  BY <1>0, <1>1 DEF Replaying
<1>6. (pc'[Fallback] = "remove" <=> pc[Fallback] = "remove") /\ (pc'[Fallback] = "retry" <=> pc[Fallback] = "retry")
  BY <1>0, <1>1 DEF Replaying
<1>7. \A w \in Workers : pc'[w] \in {"ok", "closing"} <=> pc[w] \in {"ok", "closing"}
  BY <1>0, <1>1
<1>8. Counted' /\ Executed'
  BY <1>6, <1>7 DEF IInv, Counted, Executed
<1>9. Unrecorded'
  BY <1>6, <1>7 DEF IInv, Unrecorded, Pending
<1>10. Promises'
  BY DEF IInv, Promises, NoSilentLoss, DroppedOnlyAfterRetries, DuplicatesExplained, InHand
<1> QED  BY <1>2, <1>3, <1>4, <1>8, <1>9, <1>10 DEF IInv

\* A worker takes the next event: it leaves fresh for the worker's hand.
LEMMA ReceiveKeeps == ASSUME IInv, NEW w \in Workers, Receive(w) PROVE IInv'
<1> USE DispatchAssumption DEF Procs, breaker, cmms
<1>0. TypeOK /\ Stations /\ OnePlace /\ pc[w] = "idle" /\ w # Fallback
  BY DEF IInv, Receive
<1>1. PICK e \in fresh : fresh' = fresh \ {e} /\ event' = [event EXCEPT ![w] = e]
  BY DEF Receive
<1>2. PICK label \in {"call", "swap", "enqueue"} : pc' = [pc EXCEPT ![w] = label]
  BY DEF Receive, Allow, GoTo
<1>3. UNCHANGED <<cbState, failCount, cooled, todo, queue, applied, failures, unsure, dropped, lost, crashes>>
  BY DEF Receive
<1>4. e \in Events /\ e # None
  BY <1>0 DEF TypeOK, None
<1>5. TypeOK'
  BY <1>0, <1>1, <1>2, <1>3, <1>4 DEF TypeOK, PCs
<1>6. Stations'
  BY <1>0, <1>1, <1>2, <1>4 DEF TypeOK, Stations, Busy, Replaying
<1>7. OnePlace'
  BY <1>0, <1>1, <1>3, <1>4 DEF TypeOK, OnePlace
<1>8. Listed' /\ Counted' /\ Executed'
  BY <1>0, <1>1, <1>2, <1>3 DEF TypeOK, IInv, Listed, Counted, Executed
<1>9. Unrecorded'
  BY <1>0, <1>1, <1>2, <1>3 DEF TypeOK, IInv, Unrecorded, Pending
<1>10. Promises'
  <2>1. InHand \cup {e} \subseteq InHand'
    BY <1>0, <1>1, <1>4 DEF InHand, TypeOK, Stations
  <2> QED  BY <1>1, <1>3, <2>1 DEF IInv, Promises, NoSilentLoss, DroppedOnlyAfterRetries, DuplicatesExplained
<1> QED  BY <1>5, <1>6, <1>7, <1>8, <1>9, <1>10 DEF IInv

\* The handler's answer to a worker: a success or a failure that may have taken effect.
LEMMA CallKeeps == ASSUME IInv, NEW w \in Workers, CallHandler(w) PROVE IInv'
<1> USE DispatchAssumption DEF Procs, breaker
<1> DEFINE e == event[w]
<1>0. TypeOK /\ Stations /\ OnePlace /\ pc[w] = "call" /\ w # Fallback
  BY DEF IInv, CallHandler
<1>1. e \in Events /\ Pending(e)
  BY <1>0 DEF TypeOK, Stations, Pending
<1>2. UNCHANGED <<cbState, failCount, cooled, event, todo, queue, fresh, failures, dropped, lost, crashes>>
  BY DEF CallHandler
<1>3. PICK label \in {"ok", "failed"} : pc' = [pc EXCEPT ![w] = label]
  BY DEF CallHandler, GoTo
<1>4. \/ label = "ok" /\ applied' = [applied EXCEPT ![e] = @ + 1] /\ unsure' = unsure
      \/ label = "failed" /\ applied' = [applied EXCEPT ![e] = @ + 1] /\ unsure' = [unsure EXCEPT ![e] = @ + 1]
      \/ label = "failed" /\ applied' = applied /\ unsure' = unsure
  BY <1>0, <1>3 DEF CallHandler, HandlerSucceeds, HandlerFails, GoTo, TypeOK
<1>5. TypeOK'
  BY <1>0, <1>1, <1>2, <1>3, <1>4 DEF TypeOK, PCs
<1>6. Stations' /\ OnePlace' /\ Listed'
  BY <1>0, <1>2, <1>3 DEF TypeOK, IInv, Stations, OnePlace, Listed, Busy, Replaying
<1>7. Counted' /\ Executed'
  <2>0. event' = event /\ applied \in [Events -> Nat] /\ applied' \in [Events -> Nat]
    BY <1>0, <1>2, <1>5 DEF TypeOK
  <2>1. \A other \in Events : applied[other] > 0 => applied'[other] > 0
    BY <1>1, <1>4, <2>0
  <2>2. ASSUME label = "ok" PROVE applied'[e] > 0
    <3>1. applied' = [applied EXCEPT ![e] = applied[e] + 1]
      BY <1>4, <2>2
    <3>2. applied[e] \in Nat /\ applied'[e] = applied[e] + 1
      BY <1>1, <2>0, <3>1
    <3> QED  BY <3>2
  <2>3. ASSUME NEW v \in Workers, pc'[v] \in {"ok", "closing"} PROVE applied'[event[v]] > 0
    <3>1. CASE v = w
      BY <1>0, <1>3, <2>2, <2>3, <3>1 DEF TypeOK
    <3>2. CASE v # w
      <4>1. pc[v] \in {"ok", "closing"} /\ event[v] \in Events
        BY <1>0, <1>3, <2>3, <3>2 DEF TypeOK, Stations
      <4> QED  BY <2>1, <4>1 DEF IInv, Executed
    <3> QED  BY <3>1, <3>2
  <2>4. ASSUME pc'[Fallback] = "remove" PROVE applied'[event[Fallback]] > 0
    <3>1. pc[Fallback] = "remove" /\ event[Fallback] \in Events
      BY <1>0, <1>3, <2>4 DEF TypeOK, Stations, Replaying
    <3> QED  BY <2>1, <3>1 DEF IInv, Executed
  <2>5. Executed'
    BY <2>0, <2>3, <2>4 DEF Executed
  <2> QED  BY <1>0, <1>2, <1>3, <2>5 DEF TypeOK, IInv, Counted
<1>8. Unrecorded'
  <2>0. /\ applied \in [Events -> Nat] /\ unsure \in [Events -> Nat]
        /\ applied' \in [Events -> Nat] /\ unsure' \in [Events -> Nat]
    BY <1>0, <1>5 DEF TypeOK
  <2>1. ASSUME NEW other \in Events, Pending(other)' PROVE Pending(other)
    BY <1>0, <1>2, <1>3, <2>1 DEF TypeOK, Pending
  <2>2. label = "ok" => ~Pending(e)'
    <3>0. e # None
      BY <1>1, DispatchAssumption DEF None
    <3>1. e \notin fresh /\ e \notin DOMAIN queue /\ \A v \in Workers : event[v] = e => v = w
      BY <1>0, <3>0 DEF OnePlace
    <3>2. SUFFICES ASSUME label = "ok", Pending(e)' PROVE FALSE
      OBVIOUS
    <3>3. event' = event /\ fresh' = fresh /\ queue' = queue
      BY <1>2
    <3>4. PICK v \in Workers : event[v] = e /\ pc'[v] \notin {"ok", "closing"}
      BY <3>1, <3>2, <3>3 DEF Pending
    <3> QED  BY <1>0, <1>3, <3>1, <3>2, <3>4 DEF TypeOK
  <2>3. SUFFICES ASSUME NEW other \in Events, Pending(other)' PROVE applied'[other] <= unsure'[other]
    BY DEF Unrecorded
  <2>4. applied[other] <= unsure[other]
    BY <2>1, <2>3 DEF IInv, Unrecorded
  <2>5. CASE other = e
    <3>1. event' = event
      BY <1>2
    <3>2. label # "ok"
      BY <2>2, <2>3, <2>5, <3>1
    <3> QED  BY <1>1, <1>4, <2>0, <2>4, <2>5, <3>2
  <2>6. CASE other # e
    BY <1>1, <1>4, <2>0, <2>4, <2>6
  <2> QED  BY <2>5, <2>6
<1>9. Promises'
  <2>1. DuplicatesExplained'
    BY <1>0, <1>1, <1>4 DEF IInv, Promises, DuplicatesExplained, Unrecorded, TypeOK
  <2>2. NoSilentLoss'
    BY <1>0, <1>1, <1>2, <1>4 DEF IInv, Promises, NoSilentLoss, InHand, TypeOK
  <2> QED  BY <1>2, <2>1, <2>2 DEF IInv, Promises, DroppedOnlyAfterRetries
<1> QED  BY <1>5, <1>6, <1>7, <1>8, <1>9 DEF IInv

\* A worker lets go of its event: executed, or put on disk.
LEMMA ReleaseKeeps ==
  ASSUME IInv, NEW w \in Workers, CloseBreaker(w) \/ Enqueue(w)
  PROVE  IInv'
<1> USE DispatchAssumption DEF Procs, breaker, cmms
<1> DEFINE e == event[w]
<1>0. TypeOK /\ Stations /\ OnePlace /\ w # Fallback /\ w \in Procs
  BY DEF IInv
<1>1. pc' = [pc EXCEPT ![w] = "idle"] /\ event' = [event EXCEPT ![w] = None]
  BY DEF CloseBreaker, Enqueue, GoTo, Release
<1>2. UNCHANGED <<failCount, cooled, todo, fresh, applied, failures, unsure, dropped, lost, crashes>>
  BY DEF CloseBreaker, Enqueue
<1>3. e \in Events /\ pc[w] \in {"closing", "enqueue"}
  BY <1>0 DEF CloseBreaker, Enqueue, TypeOK, Stations
<1>4. cbState' \in {"closed", "open", "halfOpen"}
  BY <1>0 DEF CloseBreaker, Enqueue, TypeOK
<1>5. \/ pc[w] = "closing" /\ queue' = queue
      \/ pc[w] = "enqueue" /\ queue' = [d \in DOMAIN queue \cup {e} |-> IF d = e THEN 0 ELSE queue[d]]
  BY DEF CloseBreaker, Enqueue
<1>6. TypeOK'
  BY <1>0, <1>1, <1>2, <1>3, <1>4, <1>5 DEF TypeOK, PCs, None
<1>7. Stations'
  BY <1>0, <1>1 DEF TypeOK, Stations, Busy, Replaying
<1>8. OnePlace' /\ Listed'
  BY <1>0, <1>1, <1>2, <1>3, <1>5 DEF TypeOK, IInv, Stations, OnePlace, Listed, None
<1>9. Counted' /\ Executed'
  BY <1>0, <1>1, <1>2, <1>3, <1>5 DEF TypeOK, IInv, Stations, OnePlace, Listed, Counted, Executed, Replaying, None
<1>10. Unrecorded'
  BY <1>0, <1>1, <1>2, <1>3, <1>5 DEF TypeOK, IInv, Unrecorded, Pending, None
<1>11. Promises'
  <2>1. InHand \subseteq InHand' \cup {e}
    BY <1>0, <1>1 DEF InHand, TypeOK
  <2>2. applied[e] > 0 \/ e \in DOMAIN queue'
    BY <1>5 DEF IInv, Executed
  <2>3. DOMAIN queue \subseteq DOMAIN queue'
    BY <1>5
  <2> QED  BY <1>2, <2>1, <2>2, <2>3 DEF IInv, Promises, NoSilentLoss, DroppedOnlyAfterRetries, DuplicatesExplained
<1> QED  BY <1>6, <1>7, <1>8, <1>9, <1>10, <1>11 DEF IInv

\* The fallback worker reads the directory, then takes an entry from its list.
LEMMA ListKeeps == ASSUME IInv, ListPending \/ PickEntry PROVE IInv'
<1> USE DispatchAssumption DEF Procs, breaker, cmms
<1>0. TypeOK /\ Stations /\ OnePlace /\ Listed /\ Fallback \notin Workers
  BY DEF IInv
<1>1. /\ pc[Fallback] \in {"list", "pick"} /\ event[Fallback] = None
      /\ UNCHANGED <<cbState, failCount, cooled, queue, fresh, applied, failures, unsure, dropped, lost, crashes>>
  BY <1>0 DEF ListPending, PickEntry, Stations, Replaying
<1>2. \/ event' = event /\ todo' \subseteq DOMAIN queue /\ pc' = [pc EXCEPT ![Fallback] = "pick"]
      \/ event' = event /\ todo' = {} /\ pc' = [pc EXCEPT ![Fallback] = "idle"]
      \/ \E d \in DOMAIN queue :
            /\ event' = [event EXCEPT ![Fallback] = d] /\ todo' \subseteq DOMAIN queue \ {d}
            /\ pc' = [pc EXCEPT ![Fallback] = "call"]
  <2>1. CASE ListPending
    BY <2>1 DEF ListPending, GoTo
  <2>2. CASE PickEntry
    <3>1. CASE todo = {}
      BY <2>2, <3>1 DEF PickEntry, GoTo
    <3>2. CASE todo # {}
      <4>1. PICK d \in todo : /\ todo' = todo \ {d} /\ event' = [event EXCEPT ![Fallback] = d]
                              /\ pc' = [pc EXCEPT ![Fallback] = "call"]
        BY <2>2, <3>2 DEF PickEntry, GoTo
      <4>2. d \in DOMAIN queue /\ todo' \subseteq DOMAIN queue \ {d}
        BY <1>0, <4>1 DEF Listed
      <4> QED  BY <4>1, <4>2
    <3> QED  BY <3>1, <3>2
  <2> QED  BY <2>1, <2>2
<1>3. DOMAIN queue \subseteq Events /\ None \notin Events
  BY <1>0 DEF TypeOK, None
<1>4. TypeOK'
  BY <1>0, <1>1, <1>2, <1>3 DEF TypeOK, PCs
<1>5. Stations'
  BY <1>0, <1>1, <1>2, <1>3 DEF TypeOK, Stations, Replaying
<1>6. OnePlace' /\ Listed'
  BY <1>0, <1>1, <1>2 DEF TypeOK, OnePlace, Listed
<1>7. /\ \A w \in Workers : pc'[w] = pc[w] /\ event'[w] = event[w]
      /\ pc'[Fallback] \notin {"retry", "remove"} /\ pc[Fallback] \notin {"retry", "remove"}
  BY <1>0, <1>1, <1>2 DEF TypeOK
<1>8. Counted' /\ Executed' /\ Unrecorded'
  BY <1>1, <1>7 DEF IInv, Counted, Executed, Unrecorded, Pending
<1>9. Promises'
  <2>1. InHand' = InHand
    BY <1>7 DEF InHand
  <2> QED  BY <1>1, <2>1 DEF IInv, Promises, NoSilentLoss, DroppedOnlyAfterRetries, DuplicatesExplained
<1> QED  BY <1>4, <1>5, <1>6, <1>8, <1>9 DEF IInv

\* The answer to a retry: a success, or a failure that may have taken effect.
LEMMA RetryKeeps == ASSUME IInv, RetryHandler PROVE IInv'
<1> USE DispatchAssumption DEF Procs, breaker
<1> DEFINE e == event[Fallback]
<1>0. TypeOK /\ Stations /\ OnePlace /\ Listed /\ pc[Fallback] = "call" /\ Fallback \notin Workers
  BY DEF IInv, RetryHandler
<1>1. e \in Events /\ e \in DOMAIN queue /\ Pending(e)
  BY <1>0 DEF TypeOK, Stations, Listed, Pending, Replaying
<1>2. UNCHANGED <<cbState, failCount, cooled, event, todo, queue, fresh, dropped, lost, crashes>>
  BY DEF RetryHandler
<1>3. \/ /\ applied' = [applied EXCEPT ![e] = applied[e] + 1] /\ unsure' = unsure /\ failures' = failures
         /\ pc' = [pc EXCEPT ![Fallback] = "remove"]
      \/ /\ \/ /\ applied' = [applied EXCEPT ![e] = applied[e] + 1]
               /\ unsure' = [unsure EXCEPT ![e] = unsure[e] + 1]
            \/ applied' = applied /\ unsure' = unsure
         /\ failures' = [failures EXCEPT ![e] = failures[e] + 1]
         /\ pc' = [pc EXCEPT ![Fallback] = "retry"]
  BY DEF RetryHandler, HandlerSucceeds, HandlerFails, GoTo
<1>4. TypeOK'
  BY <1>0, <1>1, <1>2, <1>3 DEF TypeOK, PCs
<1>5. Stations' /\ OnePlace' /\ Listed'
  BY <1>0, <1>2, <1>3 DEF TypeOK, Stations, OnePlace, Listed, Busy, Replaying
<1>6. /\ applied \in [Events -> Nat] /\ applied' \in [Events -> Nat] /\ event' = event
      /\ unsure \in [Events -> Nat] /\ unsure' \in [Events -> Nat] /\ queue' = queue /\ fresh' = fresh
      /\ failures \in [Events -> Nat] /\ failures' \in [Events -> Nat]
      /\ \A w \in Workers : pc'[w] = pc[w]
      /\ pc'[Fallback] = "remove" \/ pc'[Fallback] = "retry"
      /\ \A d \in DOMAIN queue : d \in Events /\ queue[d] \in Nat
  BY <1>0, <1>2, <1>3, <1>4 DEF TypeOK
<1>7. \A d \in Events : failures[d] <= failures'[d] /\ applied[d] <= applied'[d] /\ unsure[d] <= unsure'[d]
  BY <1>1, <1>3, <1>6
<1>8. Counted'
  <2>1. \A d \in DOMAIN queue : queue[d] <= failures[d]
    BY DEF IInv, Counted
  <2>2. \A d \in DOMAIN queue : queue[d] <= failures'[d]
    <3> SUFFICES ASSUME NEW d \in DOMAIN queue PROVE queue[d] <= failures'[d]
      OBVIOUS
    <3>1. queue[d] \in Nat /\ failures[d] \in Nat /\ failures'[d] \in Nat
      BY <1>6
    <3>2. queue[d] <= failures[d] /\ failures[d] <= failures'[d]
      BY <1>6, <1>7, <2>1
    <3> QED  BY <3>1, <3>2
  <2>3. ASSUME pc'[Fallback] = "retry" PROVE queue[e] + 1 <= failures'[e]
    <3>1. failures' = [failures EXCEPT ![e] = failures[e] + 1]
      BY <1>0, <1>3, <2>3 DEF TypeOK
    <3>2. failures'[e] = failures[e] + 1
      BY <1>1, <1>6, <3>1
    <3>3. queue[e] \in Nat /\ failures[e] \in Nat /\ queue[e] <= failures[e]
      BY <1>1, <1>6, <2>1
    <3> QED  BY <3>2, <3>3
  <2> QED  BY <1>6, <2>2, <2>3 DEF Counted
<1>9. Executed'
  <2>1. ASSUME NEW v \in Workers, pc'[v] \in {"ok", "closing"} PROVE applied'[event[v]] > 0
    <3>1. applied[event[v]] > 0 /\ event[v] \in Events
      BY <1>0, <1>6, <2>1 DEF IInv, Executed, TypeOK, Stations
    <3>2. /\ applied[event[v]] \in Nat /\ applied'[event[v]] \in Nat
          /\ applied[event[v]] <= applied'[event[v]]
      BY <1>6, <1>7, <3>1
    <3> QED  BY <3>1, <3>2
  <2>2. ASSUME pc'[Fallback] = "remove" PROVE applied'[e] > 0
    <3>1. applied' = [applied EXCEPT ![e] = applied[e] + 1]
      BY <1>0, <1>3, <2>2 DEF TypeOK
    <3>2. applied[e] \in Nat /\ applied'[e] = applied[e] + 1
      BY <1>1, <1>6, <3>1
    <3> QED  BY <3>2
  <2> QED  BY <1>6, <2>1, <2>2 DEF Executed
<1>10. Unrecorded'
  <2>1. SUFFICES ASSUME NEW other \in Events, Pending(other)' PROVE applied'[other] <= unsure'[other]
    BY DEF Unrecorded
  <2>2. Pending(other)
    BY <1>0, <1>6, <2>1 DEF Pending
  <2>3. applied[other] <= unsure[other]
    BY <2>2 DEF IInv, Unrecorded
  <2>4. CASE other # e
    BY <1>1, <1>3, <1>6, <2>3, <2>4
  <2>5. CASE other = e
    <3>1. e \notin fresh /\ \A v \in Workers : event[v] # e
      BY <1>0, <1>1 DEF OnePlace
    <3>2. pc'[Fallback] # "remove"
      BY <1>6, <2>1, <2>5, <3>1 DEF Pending
    <3>3. \/ /\ applied' = [applied EXCEPT ![e] = applied[e] + 1]
             /\ unsure' = [unsure EXCEPT ![e] = unsure[e] + 1]
          \/ applied' = applied /\ unsure' = unsure
      BY <1>0, <1>3, <3>2 DEF TypeOK
    <3> QED  BY <1>1, <1>6, <2>3, <2>5, <3>3
  <2> QED  BY <2>4, <2>5
<1>11. Promises'
  <2>1. DuplicatesExplained'
    <3>1. \A d \in Events : applied[d] <= 1 + unsure[d]
      BY DEF IInv, Promises, DuplicatesExplained
    <3>2. applied[e] <= unsure[e]
      BY <1>1 DEF IInv, Unrecorded
    <3>3. SUFFICES ASSUME NEW d \in Events PROVE applied'[d] <= 1 + unsure'[d]
      BY DEF DuplicatesExplained
    <3>4. CASE d = e
      <4>1. \/ applied'[e] = applied[e] + 1 /\ unsure'[e] = unsure[e]
            \/ applied'[e] = applied[e] + 1 /\ unsure'[e] = unsure[e] + 1
            \/ applied'[e] = applied[e] /\ unsure'[e] = unsure[e]
        BY <1>1, <1>3, <1>6
      <4>2. applied[e] \in Nat /\ unsure[e] \in Nat
        BY <1>1, <1>6
      <4> QED  BY <3>2, <3>4, <4>1, <4>2
    <3>5. CASE d # e
      <4>1. applied'[d] = applied[d] /\ unsure'[d] = unsure[d]
        BY <1>3, <1>6, <3>5
      <4> QED  BY <3>1, <4>1
    <3> QED  BY <3>4, <3>5
  <2>2. InHand' = InHand
    BY <1>6 DEF InHand
  <2>3. NoSilentLoss'
    BY <1>2, <1>6, <1>7, <2>2 DEF IInv, Promises, NoSilentLoss
  <2>4. \A d \in dropped : d \in Events /\ failures[d] >= MaxRetries
    BY <1>0 DEF TypeOK, IInv, Promises, DroppedOnlyAfterRetries
  <2>5. DroppedOnlyAfterRetries'
    <3> SUFFICES ASSUME NEW d \in dropped PROVE failures'[d] >= MaxRetries
      BY <1>2 DEF DroppedOnlyAfterRetries
    <3>1. d \in Events /\ failures[d] >= MaxRetries /\ failures[d] <= failures'[d]
      BY <1>7, <2>4
    <3>2. failures[d] \in Nat /\ failures'[d] \in Nat
      BY <1>6, <3>1
    <3> QED  BY <3>1, <3>2
  <2> QED  BY <2>1, <2>3, <2>5 DEF Promises
<1> QED  BY <1>4, <1>5, <1>8, <1>9, <1>10, <1>11 DEF IInv

\* The worker settles the entry it retried: its count goes up, or the entry goes
\* because it was executed or reached the limit.
LEMMA SettleKeeps == ASSUME IInv, MarkRetry \/ Remove PROVE IInv'
<1> USE DispatchAssumption DEF Procs, breaker, cmms
<1> DEFINE e == event[Fallback]
<1>0. TypeOK /\ Stations /\ OnePlace /\ Listed /\ Counted /\ Executed /\ Fallback \notin Workers
  BY DEF IInv
<1>1. pc[Fallback] \in {"retry", "remove"} /\ e \in DOMAIN queue \ todo /\ e \in Events
  BY <1>0 DEF MarkRetry, Remove, Stations, Listed, TypeOK, Replaying
<1>2. /\ pc' = [pc EXCEPT ![Fallback] = "pick"] /\ event' = [event EXCEPT ![Fallback] = None]
      /\ UNCHANGED <<cbState, failCount, cooled, todo, fresh, applied, failures, unsure, lost, crashes>>
  BY DEF MarkRetry, Remove, GoTo, Release
<1>3. \/ /\ pc[Fallback] = "retry" /\ queue[e] + 1 >= MaxRetries
         /\ queue' = [d \in DOMAIN queue \ {e} |-> queue[d]] /\ dropped' = dropped \cup {e}
      \/ /\ pc[Fallback] = "retry" /\ ~(queue[e] + 1 >= MaxRetries)
         /\ queue' = [queue EXCEPT ![e] = queue[e] + 1] /\ dropped' = dropped
      \/ /\ pc[Fallback] = "remove"
         /\ queue' = [d \in DOMAIN queue \ {e} |-> queue[d]] /\ dropped' = dropped
  <2>1. Restrict(queue, DOMAIN queue \ {e}) = [d \in DOMAIN queue \ {e} |-> queue[d]]
    BY DEF Restrict
  <2> QED  BY <2>1 DEF MarkRetry, Remove
<1>4. /\ \A d \in DOMAIN queue' : d \in DOMAIN queue
      /\ \A d \in DOMAIN queue' : d = e \/ queue'[d] = queue[d]
      /\ \A d \in DOMAIN queue : d = e \/ d \in DOMAIN queue'
      /\ e \in DOMAIN queue' => pc[Fallback] = "retry" /\ queue[e] + 1 < MaxRetries /\ queue'[e] = queue[e] + 1
      /\ queue[e] \in Nat /\ failures[e] \in Nat
  <2>1. queue[e] \in Nat /\ failures[e] \in Nat /\ MaxRetries \in Nat
    <3>1. queue[e] \in 0 .. MaxRetries - 1 /\ failures \in [Events -> Nat]
      BY <1>0, <1>1 DEF TypeOK
    <3>2. MaxRetries \in Nat
      OBVIOUS
    <3>3. failures[e] \in Nat
      BY <1>1, <3>1
    <3>4. queue[e] \in Nat
      BY <3>1, <3>2
    <3> QED  BY <3>2, <3>3, <3>4
  <2> QED  BY <1>1, <1>3, <2>1
<1>5. TypeOK'
  <2>1. \A d \in DOMAIN queue' : queue'[d] \in 0 .. MaxRetries - 1
    BY <1>0, <1>4 DEF TypeOK
  <2>2. dropped' \subseteq Events
    BY <1>0, <1>1, <1>3 DEF TypeOK
  <2> QED  BY <1>0, <1>2, <1>4, <2>1, <2>2 DEF TypeOK, PCs, None
<1>6. Stations'
  BY <1>0, <1>2 DEF TypeOK, Stations, Busy, Replaying
<1>7. OnePlace' /\ Listed'
  BY <1>0, <1>1, <1>2, <1>4 DEF TypeOK, OnePlace, Listed
<1>8. /\ \A w \in Workers : pc'[w] = pc[w] /\ event'[w] = event[w]
      /\ pc'[Fallback] = "pick"
  BY <1>0, <1>2 DEF TypeOK
<1>9. Counted' /\ Executed'
  <2>1. \A d \in DOMAIN queue' : queue'[d] <= failures[d]
    BY <1>0, <1>4 DEF Counted
  <2> QED  BY <1>0, <1>2, <1>8, <2>1 DEF Counted, Executed
<1>10. Unrecorded'
  <2>1. ASSUME NEW d \in Events, Pending(d)' PROVE Pending(d)
    BY <1>1, <1>2, <1>4, <1>8, <2>1 DEF Pending
  <2> QED  BY <1>2, <2>1 DEF IInv, Unrecorded
<1>11. Promises'
  <2>1. InHand' = InHand
    BY <1>8 DEF InHand
  <2>2. applied[e] > 0 \/ e \in dropped' \/ e \in DOMAIN queue'
    BY <1>0, <1>1, <1>3 DEF Executed
  <2>3. dropped \subseteq dropped'
    BY <1>3
  <2>4. NoSilentLoss'
    BY <1>2, <1>4, <2>1, <2>2, <2>3 DEF IInv, Promises, NoSilentLoss
  <2>5. ASSUME NEW d \in dropped' PROVE failures[d] >= MaxRetries
    <3>1. CASE d \in dropped
      BY <3>1 DEF IInv, Promises, DroppedOnlyAfterRetries
    <3>2. CASE d \notin dropped
      <4>1. d = e /\ pc[Fallback] = "retry" /\ queue[e] + 1 >= MaxRetries
        BY <1>3, <2>5, <3>2
      <4>2. queue[e] + 1 <= failures[e]
        BY <1>0, <4>1 DEF Counted
      <4> QED  BY <1>4, <4>1, <4>2
    <3> QED  BY <3>1, <3>2
  <2> QED  BY <1>2, <2>4, <2>5 DEF IInv, Promises, DroppedOnlyAfterRetries, DuplicatesExplained
<1> QED  BY <1>5, <1>6, <1>7, <1>9, <1>10, <1>11 DEF IInv

\* A crash forgets hands and lists; what was executed without a record is counted.
LEMMA CrashKeeps == ASSUME IInv, Crash PROVE IInv'
<1> USE DispatchAssumption DEF Procs
<1>0. TypeOK /\ Stations /\ OnePlace /\ Listed /\ Counted /\ Executed /\ Fallback \notin Workers
  BY DEF IInv
<1>1. /\ pc' = [p \in Procs |-> "idle"] /\ event' = [p \in Procs |-> None] /\ todo' = {}
      /\ cbState' = "closed" /\ failCount' = 0 /\ cooled' = TRUE
      /\ crashes < MaxCrashes /\ crashes' = crashes + 1
      /\ UNCHANGED <<queue, fresh, applied, failures, dropped>>
      /\ lost' = lost \cup {e \in InHand : applied[e] = 0}
      /\ unsure' = [e \in Events |->
                      unsure[e] + IF pc[Fallback] = "remove" /\ event[Fallback] = e THEN 1 ELSE 0]
  BY DEF Crash
<1>2. InHand \subseteq Events
  BY <1>0 DEF InHand, TypeOK
<1>3. unsure' \in [Events -> Nat] /\ \A d \in Events : unsure[d] <= unsure'[d]
  BY <1>0, <1>1 DEF TypeOK
<1>4. TypeOK'
  <2>1. crashes' \in 0 .. MaxCrashes
    BY <1>0, <1>1 DEF TypeOK
  <2>3. lost' \subseteq Events
    BY <1>0, <1>1, <1>2 DEF TypeOK
  <2>2. pc' \in [Procs -> PCs] /\ event' \in [Procs -> Events \cup {None}]
    BY <1>1 DEF PCs
  <2> QED  BY <1>0, <1>1, <1>3, <2>1, <2>2, <2>3 DEF TypeOK
<1>5. Stations' /\ OnePlace' /\ Listed'
  BY <1>0, <1>1 DEF TypeOK, Stations, OnePlace, Listed, Busy, Replaying, None
<1>6. Counted' /\ Executed'
  BY <1>0, <1>1 DEF Counted, Executed
<1>7. \A d \in Events : applied[d] \in Nat /\ unsure[d] \in Nat /\ unsure'[d] \in Nat /\ applied[d] <= 1 + unsure[d]
  BY <1>0, <1>3 DEF TypeOK, IInv, Promises, DuplicatesExplained
<1>8. Unrecorded'
  <2>1. SUFFICES ASSUME NEW d \in Events, Pending(d)' PROVE applied[d] <= unsure'[d]
    BY <1>1 DEF Unrecorded
  <2>2. d \in fresh \/ d \in DOMAIN queue
    BY <1>1, <2>1 DEF Pending, None
  <2>3. CASE Pending(d)
    <3>1. applied[d] <= unsure[d]
      BY <2>3 DEF IInv, Unrecorded
    <3> QED  BY <1>3, <1>7, <3>1
  <2>4. CASE ~Pending(d)
    <3>1. pc[Fallback] = "remove" /\ event[Fallback] = d
      BY <2>2, <2>4 DEF Pending
    <3>2. unsure'[d] = unsure[d] + 1
      BY <1>1, <3>1
    <3> QED  BY <1>7, <3>2
  <2> QED  BY <2>3, <2>4
<1>9. Promises'
  <2>1. DuplicatesExplained'
    <3>1. \A d \in Events : applied[d] <= 1 + unsure'[d]
      BY <1>3, <1>7
    <3> QED  BY <1>1, <3>1 DEF DuplicatesExplained
  <2>2. \A d \in InHand : applied[d] > 0 \/ d \in lost'
    BY <1>1, <1>2, <1>7
  <2>3. NoSilentLoss'
    BY <1>1, <2>2 DEF IInv, Promises, NoSilentLoss
  <2> QED  BY <1>1, <2>1, <2>3 DEF IInv, Promises, DroppedOnlyAfterRetries
<1> QED  BY <1>4, <1>5, <1>6, <1>8, <1>9 DEF IInv

\* Every step of the dispatcher keeps the invariant.
LEMMA NextKeeps == ASSUME IInv, [Next]_vars PROVE IInv'
<1> USE DispatchAssumption
<1>0. TypeOK /\ Stations /\ Fallback \notin Workers
  BY DEF IInv
<1>1. ASSUME NEW w \in Workers, Receive(w) PROVE IInv'
  BY <1>1, ReceiveKeeps
<1>2. ASSUME NEW w \in Workers, WorkerStep(w) PROVE IInv'
  <2>0. w \in Procs /\ w # Fallback
    BY <1>0, <1>2 DEF Procs
  <2>1. CASE CallHandler(w)
    BY <2>1, CallKeeps
  <2>2. CASE CloseBreaker(w) \/ Enqueue(w)
    BY <2>2, ReleaseKeeps
  <2>3. CASE HalfOpenSwap(w)
    <3>1. PICK label \in {"call", "enqueue"} : GoTo(w, label)
      BY <2>0, <2>3 DEF HalfOpenSwap
    <3> QED  BY <1>0, <2>0, <2>3, <3>1, BreakerStep DEF HalfOpenSwap, TypeOK, PCs, Busy
  <2>4. CASE CountFailure(w)
    <3>1. PICK label \in {"opening", "enqueue"} : GoTo(w, label)
      BY <2>4 DEF CountFailure
    <3>2. failCount' \in Nat
      BY <1>0, <2>4 DEF CountFailure, TypeOK
    <3> QED  BY <1>0, <2>0, <2>4, <3>1, <3>2, BreakerStep DEF CountFailure, TypeOK, PCs, Busy
  <2>5. CASE StoreLastOpen(w)
    BY <1>0, <2>0, <2>5, BreakerStep DEF StoreLastOpen, TypeOK, PCs, Busy
  <2>6. CASE StoreOpen(w)
    BY <1>0, <2>0, <2>6, BreakerStep DEF StoreOpen, TypeOK, PCs, Busy
  <2>7. CASE ResetFailures(w)
    BY <1>0, <2>0, <2>7, BreakerStep DEF ResetFailures, TypeOK, PCs, Busy
  <2> QED  BY <1>2, <2>1, <2>2, <2>3, <2>4, <2>5, <2>6, <2>7 DEF WorkerStep
<1>3. ASSUME FallbackStep PROVE IInv'
  <2>0. Fallback \in Procs
    BY DEF Procs
  <2>1. CASE Tick
    <3>1. PICK label \in {"idle", "swap", "list"} : GoTo(Fallback, label)
      BY <2>1 DEF Tick, Allow
    <3> QED  BY <1>0, <2>0, <2>1, <3>1, BreakerStep DEF Tick, breaker, TypeOK, PCs, Replaying
  <2>2. CASE HalfOpenSwap(Fallback)
    <3>1. PICK label \in {"idle", "list"} : GoTo(Fallback, label)
      BY <2>2 DEF HalfOpenSwap
    <3> QED  BY <1>0, <2>0, <2>2, <3>1, BreakerStep DEF HalfOpenSwap, TypeOK, PCs, Replaying
  <2>3. CASE ListPending \/ PickEntry
    BY <2>3, ListKeeps
  <2>4. CASE RetryHandler
    BY <2>4, RetryKeeps
  <2>5. CASE MarkRetry \/ Remove
    BY <2>5, SettleKeeps
  <2> QED  BY <1>3, <2>1, <2>2, <2>3, <2>4, <2>5 DEF FallbackStep
<1>4. ASSUME CoolDown \/ UNCHANGED vars PROVE IInv'
  <2>1. /\ UNCHANGED <<cbState, failCount, pc, event, todo, queue, fresh, applied, failures, unsure, dropped, lost, crashes>>
        /\ cooled' \in BOOLEAN
    BY <1>0, <1>4 DEF CoolDown, vars, cmms, TypeOK
  <2>2. TypeOK' /\ Stations' /\ OnePlace' /\ Listed' /\ Counted' /\ Executed'
    BY <1>0, <2>1 DEF IInv, TypeOK, Stations, OnePlace, Listed, Counted, Executed
  <2>3. Unrecorded' /\ Promises'
    BY <2>1 DEF IInv, Unrecorded, Pending, Promises, NoSilentLoss, InHand,
                DroppedOnlyAfterRetries, DuplicatesExplained
  <2> QED  BY <2>2, <2>3 DEF IInv
<1>5. ASSUME Crash PROVE IInv'
  BY <1>5, CrashKeeps
<1> QED  BY <1>1, <1>2, <1>3, <1>4, <1>5 DEF Next

-----------------------------------------------------------------------------
\* The invariant holds for as long as the dispatcher runs.
THEOREM Invariant == Spec => []IInv
<1>1. IInv /\ [Next]_vars => IInv'
  BY NextKeeps
<1> QED  BY InitIInv, <1>1, PTL DEF Spec

\* Breaker, queue and bookkeeping keep their types; a queued entry's count stays below
\* FallbackMaxRetries.
THEOREM TypeCorrect == Spec => []TypeOK
<1>1. IInv => TypeOK
  BY DEF IInv
<1> QED  BY Invariant, <1>1, PTL

\* An event the breaker refused, the CMMS rejected or a worker held is executed, queued,
\* dropped at the limit, or lost to a crash: never forgotten otherwise.
THEOREM NothingLostSilently == Spec => []NoSilentLoss
<1>1. IInv => NoSilentLoss
  BY DEF IInv, Promises
<1> QED  BY Invariant, <1>1, PTL

\* MarkRetry gives up on an event only after FallbackMaxRetries failed retries of it,
\* across crashes too.
THEOREM DropsAreEarned == Spec => []DroppedOnlyAfterRetries
<1>1. IInv => DroppedOnlyAfterRetries
  BY DEF IInv, Promises
<1> QED  BY Invariant, <1>1, PTL

\* A work order is created once more only for each success nobody recorded.
THEOREM DuplicatesAreExplained == Spec => []DuplicatesExplained
<1>1. IInv => DuplicatesExplained
  BY DEF IInv, Promises
<1> QED  BY Invariant, <1>1, PTL

-----------------------------------------------------------------------------
(* The dispatcher as a queue                                               *)

Open == DOMAIN queue \cup InHand

\* The worker that is done with its event was the only one to have it.
LEMMA HandEmpties ==
  ASSUME IInv, NEW w \in Workers, pc[w] # "idle", Release(w)
  PROVE  /\ InHand' = InHand \ {event[w]} /\ event[w] \in InHand
         /\ event[w] \in Events /\ event[w] \notin DOMAIN queue
<1>1. /\ event[w] # None /\ event[w] \in Events /\ event[w] \notin DOMAIN queue
      /\ event \in [Procs -> Events \cup {None}] /\ w \in Procs
      /\ \A v \in Workers : event[v] = event[w] => v = w
  BY DEF IInv, TypeOK, Stations, OnePlace, Procs
<1>2. \A v \in Workers : event'[v] = IF v = w THEN None ELSE event[v]
  BY <1>1 DEF Release, Procs
<1> QED  BY <1>1, <1>2 DEF InHand

\* What the fallback worker has in hand is on disk, and in nobody else's hand.
LEMMA ReplayedIsOpen ==
  ASSUME IInv, pc[Fallback] \in Replaying
  PROVE  /\ event[Fallback] \in DOMAIN queue /\ event[Fallback] \in Events
         /\ event[Fallback] \notin InHand
<1>1. event[Fallback] \in DOMAIN queue /\ DOMAIN queue \subseteq Events
  BY DEF IInv, TypeOK, Stations, Listed
<1> QED  BY <1>1 DEF IInv, OnePlace, InHand

\* The fallback worker has nothing in hand that the disk has not.
LEMMA WorkersHold ==
  ASSUME \A w \in Workers : event'[w] = event[w]
  PROVE  InHand' = InHand
BY DEF InHand

\* The dispatcher implements the abstract queue: an event is executed only while a worker or the
\* disk has it, and once it is recorded, dropped or lost no worker executes it again, however the
\* goroutines, the breaker and crashes interleave.
THEOREM Refinement == Spec => ImplementsDelivery
<1>1. Init => Delivery!Init
  <2> SUFFICES ASSUME Init PROVE Delivery!Init
    OBVIOUS
  <2>1. InHand = {} /\ DOMAIN queue = {} /\ Events \ fresh = {}
    BY DEF Init, InHand, Procs
  <2> QED  BY <2>1 DEF Init, Delivery!Init
<1>2. IInv /\ [Next]_vars => [Delivery!Next]_Delivery!vars
  <2> SUFFICES ASSUME IInv, [Next]_vars PROVE [Delivery!Next]_Delivery!vars
    OBVIOUS
  <2>1. ASSUME UNCHANGED <<fresh, applied, dropped, lost>>, Open' = Open PROVE UNCHANGED Delivery!vars
    BY <2>1 DEF Delivery!vars, Open
  <2>2. ASSUME NEW e \in Open, applied' = [applied EXCEPT ![e] = @ + 1],
               UNCHANGED <<fresh, dropped, lost>>, Open' = Open
        PROVE  Delivery!Next
    <3>1. e \in Events /\ Delivery!Execute(e)
      BY <2>2 DEF Delivery!Execute, Open, InHand, IInv, TypeOK, Procs
    <3> QED  BY <3>1 DEF Delivery!Next
  <2>3. ASSUME NEW events, events \subseteq Open, NEW given, given \subseteq events, Open' = Open \ events,
               \A e \in events \ given : applied[e] > 0, UNCHANGED <<fresh, applied>>,
               dropped' \cup lost' = (dropped \cup lost) \cup given
        PROVE  Delivery!Next
    <3>1. Delivery!Close(events, given)
      BY <2>3 DEF Delivery!Close, Open
    <3>2. events \in SUBSET (DOMAIN queue \cup InHand) /\ given \in SUBSET events
      BY <2>3 DEF Open
    <3> QED  BY <3>1, <3>2 DEF Delivery!Next
  <2>31. ASSUME NEW e \in Open, applied[e] > 0, Open' = Open \ {e}, UNCHANGED <<fresh, applied, dropped, lost>>
         PROVE  Delivery!Next
    <3>1. Delivery!Close({e}, {})
      BY <2>31 DEF Delivery!Close, Open
    <3>2. {e} \in SUBSET (DOMAIN queue \cup InHand) /\ {} \in SUBSET {e}
      BY <2>31 DEF Open
    <3> QED  BY <3>1, <3>2 DEF Delivery!Next
  <2>4. ASSUME NEW w \in Workers, Receive(w) PROVE Delivery!Next
    <3>1. PICK e \in fresh : fresh' = fresh \ {e} /\ event' = [event EXCEPT ![w] = e]
      BY <2>4 DEF Receive
    <3>2. /\ event \in [Procs -> Events \cup {None}] /\ w \in Procs /\ e \in Events /\ e # None
          /\ fresh \subseteq Events /\ event[w] = None
      BY <2>4, DispatchAssumption DEF Receive, IInv, TypeOK, Stations, Procs, None
    <3>3. \A v \in Workers : event'[v] = IF v = w THEN e ELSE event[v]
      BY <3>1, <3>2 DEF Procs
    <3>4. InHand' = InHand \cup {e}
      BY <3>2, <3>3 DEF InHand
    <3>5. UNCHANGED <<queue, applied, dropped, lost>>
      BY <2>4 DEF Receive, cmms
    <3>6. Delivery!Take(e)
      BY <3>1, <3>2, <3>4, <3>5 DEF Delivery!Take
    <3> QED  BY <3>2, <3>6 DEF Delivery!Next
  <2>5. ASSUME NEW e \in Open, \/ HandlerSucceeds(e) \/ \E effect \in BOOLEAN : HandlerFails(e, effect),
               UNCHANGED <<fresh, dropped, lost>>, Open' = Open
        PROVE  [Delivery!Next]_Delivery!vars
    <3>1. applied' = [applied EXCEPT ![e] = @ + 1] \/ applied' = applied
      BY <2>5 DEF HandlerSucceeds, HandlerFails
    <3> QED  BY <2>1, <2>2, <2>5, <3>1
  <2>6. ASSUME NEW w \in Workers, CallHandler(w) PROVE [Delivery!Next]_Delivery!vars
    <3>1. event[w] \in Open
      BY <2>6 DEF CallHandler, IInv, Stations, Open, InHand
    <3>2. UNCHANGED <<event, queue, fresh, dropped, lost>>
      BY <2>6 DEF CallHandler
    <3>3. Open' = Open
      BY <3>2 DEF Open, InHand
    <3>4. HandlerSucceeds(event[w]) \/ \E effect \in BOOLEAN : HandlerFails(event[w], effect)
      BY <2>6 DEF CallHandler
    <3> QED  BY <2>5, <3>1, <3>2, <3>3, <3>4
  <2>7. ASSUME NEW w \in Workers, CloseBreaker(w) PROVE Delivery!Next
    <3>1. /\ InHand' = InHand \ {event[w]} /\ event[w] \in InHand /\ event[w] \notin DOMAIN queue
          /\ UNCHANGED <<queue, fresh, applied, dropped, lost>>
      BY <2>7, HandEmpties DEF CloseBreaker, cmms
    <3>2. applied[event[w]] > 0
      BY <2>7 DEF CloseBreaker, IInv, Executed
    <3>3. event[w] \in Open /\ Open' = Open \ {event[w]}
      BY <3>1 DEF Open
    <3> QED  BY <2>31, <3>1, <3>2, <3>3
  <2>8. ASSUME NEW w \in Workers, Enqueue(w) PROVE UNCHANGED Delivery!vars
    <3>1. /\ InHand' = InHand \ {event[w]} /\ event[w] \in InHand
          /\ UNCHANGED <<fresh, applied, dropped, lost>> /\ DOMAIN queue' = DOMAIN queue \cup {event[w]}
      BY <2>8, HandEmpties DEF Enqueue, cmms
    <3> QED  BY <2>1, <3>1 DEF Open
  <2>9. CASE UNCHANGED <<event, queue, fresh, cmms, dropped, lost>>
    BY <2>1, <2>9 DEF Open, InHand, cmms
  <2>10. CASE PickEntry
    <3>1. \A w \in Workers : event'[w] = event[w]
      BY <2>10, DispatchAssumption DEF PickEntry, IInv, TypeOK, Procs
    <3>2. UNCHANGED <<queue, fresh, applied, dropped, lost>>
      BY <2>10 DEF PickEntry, cmms
    <3> QED  BY <2>1, <3>1, <3>2, WorkersHold DEF Open
  <2>11. CASE RetryHandler
    <3>1. event[Fallback] \in Open
      BY <2>11, ReplayedIsOpen DEF RetryHandler, Replaying, Open
    <3>2. UNCHANGED <<event, queue, fresh, dropped, lost>>
      BY <2>11 DEF RetryHandler
    <3>3. Open' = Open
      BY <3>2 DEF Open, InHand
    <3>4. HandlerSucceeds(event[Fallback]) \/ \E effect \in BOOLEAN : HandlerFails(event[Fallback], effect)
      BY <2>11 DEF RetryHandler
    <3> QED  BY <2>5, <3>1, <3>2, <3>3, <3>4
  <2>12. CASE MarkRetry \/ Remove
    <3> DEFINE e == event[Fallback]
    <3>1. \A w \in Workers : event'[w] = event[w]
      BY <2>12, DispatchAssumption DEF MarkRetry, Remove, Release, IInv, TypeOK, Procs
    <3>2. e \in DOMAIN queue /\ e \notin InHand /\ UNCHANGED <<fresh, applied, lost>>
      BY <2>12, ReplayedIsOpen DEF MarkRetry, Remove, Replaying, cmms
    <3>3. InHand' = InHand
      BY <3>1, WorkersHold
    <3> HIDE DEF e
    <3>4. CASE DOMAIN queue' = DOMAIN queue \ {e} /\ dropped' = dropped \cup {e}
      <4>1. Open' = Open \ {e} /\ {e} \subseteq Open
        BY <3>2, <3>3, <3>4 DEF Open
      <4>2. \A d \in {e} \ {e} : applied[d] > 0
        OBVIOUS
      <4>3. dropped' \cup lost' = (dropped \cup lost) \cup {e}
        BY <3>2, <3>4
      <4> QED  BY <2>3, <3>2, <4>1, <4>2, <4>3
    <3>5. CASE DOMAIN queue' = DOMAIN queue /\ dropped' = dropped
      BY <2>1, <3>2, <3>3, <3>5 DEF Open
    <3>6. CASE DOMAIN queue' = DOMAIN queue \ {e} /\ dropped' = dropped /\ applied[e] > 0
      <4>1. Open' = Open \ {e} /\ e \in Open
        BY <3>2, <3>3, <3>6 DEF Open
      <4> QED  BY <2>31, <3>2, <3>6, <4>1
    <3>7. CASE MarkRetry
      <4>1. \/ DOMAIN queue' = DOMAIN queue \ {e} /\ dropped' = dropped \cup {e}
            \/ DOMAIN queue' = DOMAIN queue /\ dropped' = dropped
        BY <3>7 DEF MarkRetry, Restrict, e
      <4> QED  BY <3>4, <3>5, <4>1
    <3>8. CASE Remove
      <4>1. DOMAIN queue' = DOMAIN queue \ {e} /\ dropped' = dropped /\ applied[e] > 0
        BY <3>8 DEF Remove, Restrict, IInv, Executed, e
      <4> QED  BY <3>6, <4>1
    <3> QED  BY <2>12, <3>7, <3>8
  <2>13. CASE Crash
    <3> DEFINE given == {e \in InHand : applied[e] = 0}
    <3>1. /\ UNCHANGED <<queue, fresh, applied, dropped>> /\ lost' = lost \cup given
          /\ event' = [p \in Procs |-> None]
      BY <2>13 DEF Crash
    <3>2. InHand' = {}
      BY <3>1 DEF InHand, Procs
    <3>3. InHand \cap DOMAIN queue = {}
      BY DEF IInv, OnePlace, InHand
    <3>4. InHand \subseteq Open /\ Open' = Open \ InHand /\ given \subseteq InHand
      BY <3>1, <3>2, <3>3 DEF Open
    <3>5. \A e \in InHand \ given : applied[e] > 0
      <4>1. InHand \subseteq Events
        BY DEF InHand, IInv, TypeOK, Procs
      <4> QED  BY <4>1 DEF IInv, TypeOK
    <3>6. dropped' \cup lost' = (dropped \cup lost) \cup given
      BY <3>1
    <3> HIDE DEF given
    <3> QED  BY <2>3, <3>1, <3>4, <3>5, <3>6
  <2>14. ASSUME NEW p \in Procs,
                \/ HalfOpenSwap(p) \/ CountFailure(p) \/ StoreLastOpen(p) \/ StoreOpen(p) \/ ResetFailures(p)
         PROVE  UNCHANGED <<event, queue, fresh, cmms, dropped, lost>>
    BY <2>14 DEF HalfOpenSwap, CountFailure, StoreLastOpen, StoreOpen, ResetFailures, cmms
  <2>15. CASE Tick \/ ListPending \/ CoolDown \/ UNCHANGED vars
    BY <2>9, <2>15 DEF Tick, ListPending, CoolDown, vars, cmms
  <2> QED  BY <2>4, <2>6, <2>7, <2>8, <2>9, <2>10, <2>11, <2>12, <2>13, <2>14, <2>15
           DEF Next, WorkerStep, FallbackStep, Procs
<1> QED  BY <1>1, <1>2, Invariant, PTL DEF Spec, ImplementsDelivery, Delivery!Spec
=============================================================================

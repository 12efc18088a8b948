------------------------- MODULE SlaTracking_proofs -------------------------
(***************************************************************************)
(* Proofs about SlaTracking: the engine's clock counts exactly the time    *)
(* an order was worked on, and a breach is declared only when that time    *)
(* has used up the target, is announced, and is not undone, for every      *)
(* target, age limit and time bound.                                       *)
(***************************************************************************)
EXTENDS SlaTracking, TLAPS

\* Before StartTracking nothing has been counted or declared.
NothingBeforeStart ==
    ~tracker.started =>
        /\ ~tracked
        /\ ~tracker.isPaused
        /\ tracker.status = "onTrack"
        /\ tracker.escalation = 0
        /\ worked = 0

\* The inductive invariant.
IInv == TypeOK /\ NothingBeforeStart /\ ElapsedIsWorked /\ BreachedWhenSpent

\* recalculate touches the status and the escalation level only, keeps the
\* tracker a tracker, and declares a breach only when nothing remains.
LEMMA RecalculatedKeeps ==
    ASSUME TypeOK, NEW t \in Tracker
    PROVE  /\ Recalculated(t) \in Tracker
           /\ \A f \in {"started", "createdAt", "deadline", "isPaused", "pausedSince", "totalPause"} :
                 Recalculated(t)[f] = t[f]
           /\ Recalculated(t).status = "breached" => ~t.isPaused /\ Elapsed(t) >= Target
           /\ t.isPaused => Recalculated(t).status = "paused"
           /\ ~t.isPaused /\ Elapsed(t) >= Target => Recalculated(t).status = "breached"
           /\ \/ Recalculated(t).escalation = t.escalation
              \/ ~t.isPaused /\ Recalculated(t).escalation = EscalationFor(Target - Elapsed(t))
<1>1. EscalationFor(Remaining(t)) \in Levels
  BY SlaAssumption DEF EscalationFor, Remaining, Elapsed, Tracker, TypeOK, Levels
<1>2. CASE t.isPaused
  BY <1>2 DEF Recalculated, Tracker, Statuses
<1>3. CASE ~t.isPaused /\ Remaining(t) <= 0
  <2>1. Elapsed(t) >= Target
    BY <1>3, SlaAssumption DEF Remaining, Elapsed, Tracker, TypeOK
  <2>2. Recalculated(t) = [t EXCEPT !.status = "breached"]
    BY <1>3 DEF Recalculated
  <2> QED
    BY <2>1, <2>2, <1>3 DEF Tracker, Statuses
<1>4. CASE ~t.isPaused /\ ~(Remaining(t) <= 0)
  <2> DEFINE status == IF EscalationFor(Remaining(t)) = 0 THEN "onTrack" ELSE "atRisk"
  <2>1. Recalculated(t) = [t EXCEPT !.status = status, !.escalation = EscalationFor(Remaining(t))]
    BY <1>4 DEF Recalculated
  <2>2. status \in Statuses /\ status # "breached"
    BY DEF Statuses
  <2> QED
    <3>1. ~(Elapsed(t) >= Target) /\ EscalationFor(Remaining(t)) = EscalationFor(Target - Elapsed(t))
      BY <1>4, SlaAssumption DEF Remaining, Elapsed, Tracker, TypeOK
    <3> HIDE DEF status
    <3> QED
      BY <1>4, <2>1, <2>2, <1>1, <3>1 DEF Tracker
<1> QED
  BY <1>2, <1>3, <1>4 DEF Tracker

\* Going on hold opens a pause at the present; coming back adds it to the total.
LEMMA PausedKeeps ==
    ASSUME TypeOK, NEW t \in Tracker
    PROVE  /\ Paused(t) \in Tracker /\ Resumed(t) \in Tracker
           /\ Paused(t).started = t.started /\ Resumed(t).started = t.started
           /\ Paused(t).escalation = t.escalation /\ Resumed(t).escalation = t.escalation
           /\ Paused(t).isPaused = TRUE /\ Resumed(t).isPaused = FALSE
           /\ Paused(t).pausedSince = now
           /\ Elapsed(t) \in Int
           /\ Elapsed(Paused(t)) = Elapsed(t)
           /\ Elapsed(Resumed(t)) = Elapsed(t) - (now - t.pausedSince)
<1>1. now \in Int /\ t.createdAt \in Int /\ t.totalPause \in Int /\ t.pausedSince \in Int
  BY DEF TypeOK, Tracker
<1>2. PICK total \in Int : total = t.totalPause + (now - t.pausedSince)
  BY <1>1
<1>3. Paused(t) = [t EXCEPT !.isPaused = TRUE, !.pausedSince = now]
  BY DEF Paused
<1>4. Resumed(t) = [t EXCEPT !.isPaused = FALSE, !.totalPause = total, !.pausedSince = 0]
  BY <1>2 DEF Resumed
<1>5. /\ Paused(t) \in Tracker
      /\ Paused(t).started = t.started /\ Paused(t).isPaused = TRUE /\ Paused(t).pausedSince = now
      /\ Paused(t).createdAt = t.createdAt /\ Paused(t).totalPause = t.totalPause
      /\ Paused(t).escalation = t.escalation
  BY <1>1, <1>3 DEF Tracker
<1>6. /\ Resumed(t) \in Tracker
      /\ Resumed(t).started = t.started /\ Resumed(t).isPaused = FALSE
      /\ Resumed(t).createdAt = t.createdAt /\ Resumed(t).totalPause = total
      /\ Resumed(t).escalation = t.escalation
  <2>1. Resumed(t) \in Tracker
    <3> DEFINE running == [t EXCEPT !.isPaused = FALSE]
               closed == [running EXCEPT !.pausedSince = 0]
    <3>1. running \in Tracker
      BY DEF Tracker
    <3>2. Resumed(t) = [closed EXCEPT !.totalPause = total]
      BY <1>4 DEF Tracker
    <3> HIDE DEF running
    <3>3. closed \in Tracker
      BY <3>1 DEF Tracker
    <3> HIDE DEF closed
    <3> QED
      BY <3>2, <3>3 DEF Tracker
  <2>2. Resumed(t).started = t.started /\ Resumed(t).isPaused = FALSE
    BY <1>4 DEF Tracker
  <2>3. Resumed(t).createdAt = t.createdAt /\ Resumed(t).totalPause = total
        /\ Resumed(t).escalation = t.escalation
    BY <1>4 DEF Tracker
  <2> QED
    BY <2>1, <2>2, <2>3
<1>7. Elapsed(t) \in Int /\ Elapsed(Paused(t)) = Elapsed(t)
  BY <1>1, <1>5 DEF Elapsed
<1>8. Elapsed(Resumed(t)) = Elapsed(t) - (now - t.pausedSince)
  BY <1>1, <1>2, <1>6 DEF Elapsed
<1> QED
  BY <1>5, <1>6, <1>7, <1>8

\* The tracker that UpdateStatus hands to recalculate: paused, resumed or as it was.
Turned(s) ==
    IF s = "onHold" /\ ~tracker.isPaused THEN Paused(tracker)
    ELSE IF s # "onHold" /\ tracker.isPaused THEN Resumed(tracker)
    ELSE tracker

\* Pausing and resuming move time between the pause counter and the running pause,
\* and lose none of it.
LEMMA TurnedKeeps ==
    ASSUME IInv, tracker.started, NEW s \in {"active", "onHold"}
    PROVE  LET m == Turned(s) IN
           /\ m \in Tracker /\ m.started
           /\ m.escalation = tracker.escalation
           /\ Elapsed(m) - (IF m.isPaused THEN now - m.pausedSince ELSE 0) = worked
<1> DEFINE m == Turned(s)
<1>1. tracker \in Tracker /\ now \in Int /\ worked \in Int
  BY DEF IInv, TypeOK
<1>2. Elapsed(tracker) - (IF tracker.isPaused THEN now - tracker.pausedSince ELSE 0) = worked
  BY DEF IInv, ElapsedIsWorked
<1>3. CASE s = "onHold" /\ ~tracker.isPaused
  <2>1. m = Paused(tracker)
    BY <1>3 DEF Turned
  <2> HIDE DEF m
  <2>2. m \in Tracker /\ m.started = tracker.started /\ m.escalation = tracker.escalation
    BY <2>1, <1>1, PausedKeeps DEF IInv
  <2>3. m.isPaused = TRUE /\ m.pausedSince = now /\ Elapsed(m) = Elapsed(tracker) /\ Elapsed(tracker) \in Int
    BY <2>1, <1>1, PausedKeeps DEF IInv
  <2>4. Elapsed(m) = worked
    BY <2>3, <1>1, <1>2, <1>3
  <2> QED
    BY <1>1, <2>2, <2>3, <2>4 DEF m
<1>4. CASE s # "onHold" /\ tracker.isPaused
  <2>1. m = Resumed(tracker)
    BY <1>4 DEF Turned
  <2> HIDE DEF m
  <2>2. m \in Tracker /\ m.started = tracker.started /\ m.escalation = tracker.escalation
    BY <2>1, <1>1, PausedKeeps DEF IInv
  <2>3. Elapsed(m) = worked /\ m.isPaused = FALSE
    BY <2>1, <1>1, <1>2, <1>4, PausedKeeps DEF IInv
  <2> QED
    BY <1>1, <2>2, <2>3 DEF m
<1>5. CASE ~(s = "onHold" /\ ~tracker.isPaused) /\ ~(s # "onHold" /\ tracker.isPaused)
  BY <1>1, <1>2, <1>5 DEF Turned
<1> QED
  BY <1>3, <1>4, <1>5

\* UpdateStatus loses no time, and declares a breach exactly of a running tracker
\* that has worked for its target; otherwise the escalation level is that of the time worked.
LEMMA UpdatedKeeps ==
    ASSUME IInv, tracker.started, NEW s \in {"active", "onHold"}
    PROVE  LET u == Updated(tracker, s) IN
           /\ u \in Tracker
           /\ u.started
           /\ Elapsed(u) - (IF u.isPaused THEN now - u.pausedSince ELSE 0) = worked
           /\ u.status = "breached" => worked >= Target
           /\ worked >= Target => u.status \in {"breached", "paused"}
           /\ u.escalation \in {tracker.escalation, EscalationFor(Target - worked)}
<1> DEFINE m == Turned(s)
<1>1. /\ m \in Tracker /\ m.started
      /\ m.escalation = tracker.escalation
      /\ Elapsed(m) - (IF m.isPaused THEN now - m.pausedSince ELSE 0) = worked
  BY TurnedKeeps
<1>2. Updated(tracker, s) = Recalculated(m)
  BY DEF Updated, Turned
<1>3. TypeOK
  BY DEF IInv
<1> HIDE DEF m
<1>4. /\ Recalculated(m) \in Tracker
      /\ \A f \in {"started", "createdAt", "deadline", "isPaused", "pausedSince", "totalPause"} :
            Recalculated(m)[f] = m[f]
      /\ Recalculated(m).status = "breached" => ~m.isPaused /\ Elapsed(m) >= Target
      /\ m.isPaused => Recalculated(m).status = "paused"
      /\ ~m.isPaused /\ Elapsed(m) >= Target => Recalculated(m).status = "breached"
      /\ \/ Recalculated(m).escalation = m.escalation
         \/ ~m.isPaused /\ Recalculated(m).escalation = EscalationFor(Target - Elapsed(m))
  BY <1>1, <1>3, RecalculatedKeeps
<1>5. /\ Recalculated(m).started = m.started
      /\ Recalculated(m).isPaused = m.isPaused
      /\ Recalculated(m).pausedSince = m.pausedSince
      /\ Elapsed(Recalculated(m)) = Elapsed(m)
  BY <1>4 DEF Elapsed
<1>6. Recalculated(m).status = "breached" => worked >= Target
  BY <1>4, <1>1, <1>3 DEF TypeOK, Elapsed, Tracker
<1>7. ~m.isPaused => Elapsed(m) = worked
  BY <1>1, <1>3 DEF TypeOK, Elapsed, Tracker
<1>8. /\ worked >= Target => Recalculated(m).status \in {"breached", "paused"}
      /\ Recalculated(m).escalation \in {tracker.escalation, EscalationFor(Target - worked)}
  BY <1>1, <1>4, <1>7
<1> QED
  BY <1>1, <1>2, <1>4, <1>5, <1>6, <1>8

\* The tracker that StartTracking makes.
LEMMA FreshTracker ==
    \A c, d \in Int :
        LET t == [NotStarted EXCEPT !.started = TRUE, !.createdAt = c, !.deadline = d] IN
        /\ t \in Tracker
        /\ t.started = TRUE /\ t.isPaused = FALSE /\ t.status = "onTrack"
        /\ t.createdAt = c /\ t.totalPause = 0
<1>1. NotStarted \in Tracker
  BY DEF NotStarted, Tracker, Statuses, Levels
<1> QED
  BY <1>1 DEF NotStarted, Tracker, Statuses, Levels

\* The invariant holds before the order exists.
LEMMA InitIInv == Init => IInv
<1> SUFFICES ASSUME Init PROVE IInv
  OBVIOUS
<1>1. NotStarted \in Tracker
  BY DEF NotStarted, Tracker, Statuses, Levels
<1>2. NotStarted.started = FALSE /\ NotStarted.isPaused = FALSE /\ NotStarted.status = "onTrack"
      /\ NotStarted.escalation = 0
  BY DEF NotStarted
<1> QED
  BY <1>1, <1>2 DEF Init, IInv, TypeOK, NothingBeforeStart, ElapsedIsWorked, BreachedWhenSpent, Orders, Statuses

\* Every step keeps the invariant.
LEMMA NextIInv == IInv /\ [Next]_vars => IInv'
<1> SUFFICES ASSUME IInv, [Next]_vars
             PROVE  IInv'
  OBVIOUS
<1> USE DEF IInv
<1>1. CASE StartTracking
  <2>1. now \in Int /\ now + Target + Closed \in Int
    BY SlaAssumption DEF TypeOK
  <2>2. tracker' \in Tracker /\ tracker'.started = TRUE /\ tracker'.isPaused = FALSE /\ tracker'.status = "onTrack"
    BY <1>1, <2>1, FreshTracker DEF StartTracking
  <2>3. tracker'.createdAt = now /\ tracker'.totalPause = 0
    BY <1>1, <2>1, FreshTracker DEF StartTracking
  <2> QED
    BY <1>1, <2>1, <2>2, <2>3 DEF StartTracking, TypeOK, NothingBeforeStart, ElapsedIsWorked, BreachedWhenSpent,
           Elapsed, worker, ledger
<1>2. CASE CompleteWorkOrder
  BY <1>2 DEF CompleteWorkOrder, TypeOK, NothingBeforeStart, ElapsedIsWorked, BreachedWhenSpent,
         Tracker, Statuses, Elapsed, worker, ledger
<1>3. CASE Evict
  BY <1>3 DEF Evict, TypeOK, NothingBeforeStart, ElapsedIsWorked, BreachedWhenSpent, Elapsed, worker, ledger
<1>4. CASE WorkerStep
  <2>1. CASE List
    BY <2>1 DEF List, TypeOK, NothingBeforeStart, ElapsedIsWorked, BreachedWhenSpent, Elapsed, ledger
  <2>2. CASE ReadPrevious
    BY <2>2 DEF ReadPrevious, TypeOK, NothingBeforeStart, ElapsedIsWorked, BreachedWhenSpent, Elapsed, Tracker, ledger
  <2>3. CASE UpdateStatus
    <3>1. CASE tracked
      <4>1. tracker.started /\ listed \in {"active", "onHold"}
        BY <3>1 DEF NothingBeforeStart, TypeOK
      <4>2. tracker' = Updated(tracker, listed)
        BY <2>3, <3>1 DEF UpdateStatus
      <4>3. /\ tracker' \in Tracker
            /\ tracker'.started
            /\ Elapsed(tracker') - (IF tracker'.isPaused THEN now - tracker'.pausedSince ELSE 0) = worked
            /\ tracker'.status = "breached" => worked >= Target
        BY <4>1, <4>2, UpdatedKeeps
      <4> QED
        BY <2>3, <3>1, <4>3 DEF UpdateStatus, TypeOK, NothingBeforeStart, ElapsedIsWorked, BreachedWhenSpent, Elapsed, ledger
    <3>2. CASE ~tracked
      BY <2>3, <3>2 DEF UpdateStatus, TypeOK, NothingBeforeStart, ElapsedIsWorked, BreachedWhenSpent, Elapsed, ledger
    <3> QED
      BY <3>1, <3>2
  <2>4. CASE Compare
    BY <2>4 DEF Compare, TypeOK, NothingBeforeStart, ElapsedIsWorked, BreachedWhenSpent, Elapsed, ledger
  <2>5. CASE Publish
    BY <2>5 DEF Publish, TypeOK, NothingBeforeStart, ElapsedIsWorked, BreachedWhenSpent, Elapsed, ledger
  <2> QED
    BY <1>4, <2>1, <2>2, <2>3, <2>4, <2>5 DEF WorkerStep
<1>5. CASE Tick
  BY <1>5, SlaAssumption DEF Tick, TypeOK, NothingBeforeStart, ElapsedIsWorked, BreachedWhenSpent, Elapsed, Tracker, worker, ledger
<1>6. ASSUME NEW s \in Orders, SetOrderStatus(s)
      PROVE  IInv'
  BY <1>6 DEF SetOrderStatus, TypeOK, NothingBeforeStart, ElapsedIsWorked, BreachedWhenSpent, Elapsed, worker, ledger
<1>7. CASE UNCHANGED vars
  BY <1>7 DEF vars, worker, ledger, TypeOK, NothingBeforeStart, ElapsedIsWorked, BreachedWhenSpent, Elapsed
<1> QED
  BY <1>1, <1>2, <1>3, <1>4, <1>5, <1>6, <1>7 DEF Next

\* The invariant holds in every state.
LEMMA Invariance == Spec => []IInv
  BY InitIInv, NextIInv, PTL DEF Spec

\* Every variable keeps its type.
THEOREM TypeCorrect == Spec => []TypeOK
  BY Invariance, PTL DEF IInv

\* The engine's elapsed time is the time the tracker ran unpaused.
THEOREM ClockExact == Spec => []ElapsedIsWorked
  BY Invariance, PTL DEF IInv

\* A worker's breach means the target is spent.
THEOREM NoEarlyBreach == Spec => []BreachedWhenSpent
  BY Invariance, PTL DEF IInv
-----------------------------------------------------------------------------
(* What the worker announces *)

\* A breach UpdateStatus has found is announced or overtaken, or the worker that found it
\* has it still in hand.
Announcing ==
    found => "breached" \in announced \/ overtaken \/ BreachInHand

\* Before the order is tracked there is no breach, so none in hand.
LEMMA NoneInHand == ASSUME IInv, ~tracker.started PROVE ~BreachInHand
BY DEF IInv, NothingBeforeStart, BreachInHand

\* Every step keeps it: only a completion takes a breach out of the worker's hand.
LEMMA AnnouncingKeeps == ASSUME IInv, Announcing, [Next]_vars PROVE Announcing'
<1>1. CASE StartTracking
  <2>1. ~BreachInHand
    BY <1>1, NoneInHand DEF StartTracking
  <2> QED  BY <1>1, <2>1 DEF StartTracking, Announcing, ledger
<1>2. CASE CompleteWorkOrder
  <2>1. CASE now > tracker.deadline
    <3>1. tracker'.status = "breached"
      BY <1>2, <2>1 DEF CompleteWorkOrder, IInv, TypeOK, Tracker
    <3>2. BreachInHand => BreachInHand'
      BY <1>2, <3>1 DEF CompleteWorkOrder, BreachInHand, worker
    <3> QED  BY <1>2, <3>2 DEF CompleteWorkOrder, Announcing
  <2>2. CASE ~(now > tracker.deadline)
    <3>1. now <= tracker.deadline
      BY <2>2 DEF IInv, TypeOK, Tracker
    <3> QED  BY <1>2, <3>1 DEF CompleteWorkOrder, Announcing
  <2> QED  BY <2>1, <2>2
<1>3. CASE WorkerStep
  <2>1. CASE List \/ ReadPrevious
    BY <2>1 DEF List, ReadPrevious, Announcing, BreachInHand, ledger
  <2>2. CASE UpdateStatus
    BY <2>2 DEF UpdateStatus, Announcing, BreachInHand
  <2>3. CASE Compare
    BY <2>3 DEF Compare, Announcing, BreachInHand, ledger
  <2>4. CASE Publish
    BY <2>4 DEF Publish, Announcing, BreachInHand, ledger
  <2> QED  BY <1>3, <2>1, <2>2, <2>3, <2>4 DEF WorkerStep
<1>4. CASE Evict \/ Tick \/ (\E s \in Orders : SetOrderStatus(s)) \/ UNCHANGED vars
  BY <1>4 DEF Evict, Tick, SetOrderStatus, vars, worker, ledger, Announcing, BreachInHand
<1> QED  BY <1>1, <1>2, <1>3, <1>4 DEF Next

\* A worker that rests has announced the breach it found, unless a completion before the
\* deadline overwrote it in the worker's hand (worker.go: processWorkOrder).
THEOREM BreachIsAnnounced == Spec => []BreachAnnounced
<1>1. Init => Announcing
  BY DEF Init, Announcing
<1>2. Announcing => BreachAnnounced
  BY DEF Announcing, BreachAnnounced, BreachInHand
<1> QED  BY <1>1, <1>2, Invariance, AnnouncingKeeps, PTL DEF Spec

-----------------------------------------------------------------------------
(* The way of a tracker *)

\* The escalation level is one of the time worked, or of less.
Escalated == tracker.escalation <= EscalationFor(Target - worked)

\* More time worked does not lower the level it calls for.
LEMMA EscalationGrows ==
    ASSUME NEW less \in Int, NEW more \in Int, less <= more
    PROVE  /\ EscalationFor(more) \in Levels /\ EscalationFor(less) \in Levels
           /\ EscalationFor(more) <= EscalationFor(less)
BY SlaAssumption DEF EscalationFor, Levels

\* Every step keeps the level below that of the time worked, and until the order is
\* completed goes neither back from a breach nor down a level.
LEMMA StepForward ==
    ASSUME IInv, Escalated, [Next]_vars
    PROVE  /\ Escalated'
           /\ ~completed' => /\ tracker.status = "breached" => tracker'.status \in {"breached", "paused"}
                             /\ tracker'.escalation >= tracker.escalation
<1> USE SlaAssumption
<1>1. tracker \in Tracker /\ tracker.escalation \in Levels /\ worked \in Nat /\ now \in Int
      /\ Target - worked \in Int
  BY DEF IInv, TypeOK, Tracker
<1>2. CASE StartTracking
  <2>1. ~tracker.started /\ worked' = worked
    BY <1>2 DEF StartTracking, ledger
  <2>2. tracker'.escalation = 0 /\ tracker.status # "breached"
    BY <1>2, <2>1 DEF StartTracking, NotStarted, IInv, NothingBeforeStart
  <2>3. tracker.escalation = 0
    BY <2>1 DEF IInv, NothingBeforeStart
  <2> QED  BY <1>1, <2>1, <2>2, <2>3 DEF Escalated, Levels
<1>3. CASE CompleteWorkOrder
  BY <1>1, <1>3 DEF CompleteWorkOrder, Escalated, Tracker
<1>4. CASE UpdateStatus /\ tracked
  <2>1. tracker.started /\ listed \in {"active", "onHold"}
    BY <1>4 DEF IInv, NothingBeforeStart, TypeOK
  <2>2. tracker' = Updated(tracker, listed) /\ UNCHANGED <<completed, worked>>
    BY <1>4 DEF UpdateStatus
  <2>3. /\ tracker' \in Tracker
        /\ worked >= Target => tracker'.status \in {"breached", "paused"}
        /\ tracker'.escalation \in {tracker.escalation, EscalationFor(Target - worked)}
    BY <2>1, <2>2, UpdatedKeeps
  <2>4. EscalationFor(Target - worked) \in Levels
    BY <1>1, EscalationGrows
  <2>5. ~completed /\ tracker.status = "breached" => worked >= Target
    BY DEF IInv, BreachedWhenSpent
  <2> QED  BY <1>1, <2>2, <2>3, <2>4, <2>5 DEF Escalated, Levels
<1>5. CASE Tick
  <2>1. PICK more \in Nat : tracker' = tracker /\ worked' = more /\ worked <= more
    <3>1. worked + 0 \in Nat /\ worked + 1 \in Nat /\ worked <= worked + 0 /\ worked <= worked + 1
      BY <1>1
    <3>2. tracker' = tracker /\ (worked' = worked + 0 \/ worked' = worked + 1)
      BY <1>5 DEF Tick
    <3> QED  BY <3>1, <3>2
  <2>2. Target - more \in Int /\ Target - more <= Target - worked
    BY <1>1, <2>1
  <2>3. /\ EscalationFor(Target - worked) \in Levels /\ EscalationFor(Target - more) \in Levels
        /\ EscalationFor(Target - worked) <= EscalationFor(Target - more)
    BY <1>1, <2>2, EscalationGrows
  <2>4. Escalated' <=> tracker.escalation <= EscalationFor(Target - more)
    BY <2>1 DEF Escalated, EscalationFor
  <2> QED  BY <1>1, <2>1, <2>3, <2>4 DEF Escalated, Levels
<1>6. ASSUME UNCHANGED <<tracker, worked>>
      PROVE  /\ Escalated'
             /\ tracker.status = "breached" => tracker'.status \in {"breached", "paused"}
             /\ tracker'.escalation >= tracker.escalation
  BY <1>1, <1>6 DEF Escalated, EscalationFor, Levels
<1>7. CASE Evict \/ List \/ ReadPrevious \/ (UpdateStatus /\ ~tracked) \/ Compare \/ Publish
           \/ (\E s \in Orders : SetOrderStatus(s)) \/ UNCHANGED vars
  <2>1. UNCHANGED <<tracker, worked>>
    BY <1>7 DEF Evict, List, ReadPrevious, UpdateStatus, Compare, Publish, SetOrderStatus, vars, worker, ledger
  <2> QED  BY <1>6, <2>1
<1> QED  BY <1>2, <1>3, <1>4, <1>5, <1>7 DEF Next, WorkerStep

\* Holding an order does not undo a breach, and no batch lowers the escalation level,
\* however old the status it works with (engine.go: UpdateStatus, recalculate).
THEOREM NeverBack == Spec => NoWayBack
<1>1. Init => Escalated
  BY SlaAssumption DEF Init, Escalated, NotStarted, EscalationFor
<1>2. IInv /\ Escalated /\ [Next]_vars => Escalated'
  BY StepForward
<1>3. IInv /\ Escalated /\ [Next]_vars =>
        [~completed' => /\ tracker.status = "breached" => tracker'.status \in {"breached", "paused"}
                        /\ tracker'.escalation >= tracker.escalation]_vars
  BY StepForward
<1> QED  BY <1>1, <1>2, <1>3, Invariance, PTL DEF Spec, NoWayBack
=============================================================================

---------------------------- MODULE SlaTracking ----------------------------
(***************************************************************************)
(* The SLA clock of one work order: the tracker that the SLA engine keeps  *)
(* in memory (backend/internal/sla/engine.go) and the SLA worker that      *)
(* feeds it the work order's status in batches (worker.go).  Every engine  *)
(* call holds the engine's mutex, but the worker lists work orders, reads  *)
(* the tracker, updates it and publishes in separate steps, and it keeps   *)
(* pointing at a tracker that is evicted or completed meanwhile.  Work     *)
(* orders and their database are external.  Time is counted in ticks.      *)
(***************************************************************************)
EXTENDS Integers, FiniteSets

CONSTANTS
    Target,    \* ResolutionTargetMinutes
    Closed,    \* non-working time between creation and the calendar deadline
    MaxAge,    \* MaxTrackerAge
    MaxTime    \* bound: the last tick

ASSUME SlaAssumption ==
    /\ Target \in Nat \ {0}
    /\ Closed \in Nat
    /\ MaxAge \in Nat
    /\ MaxTime \in Nat

VARIABLES
    now,
    order,      \* WorkOrder.Status in the database, by what the SLA makes of it
    tracked,    \* the engine's map holds the tracker
    tracker,    \* SLATrackerState
    completed,  \* CompleteWorkOrder has run
    pc,         \* the worker: idle, or what it does next in processWorkOrder
    listed,     \* WorkOrderRef.Status of the batch in hand
    prevStatus, \* tracker.Status before UpdateStatus
    announced,  \* SLA events published, or tried in vain
    worked,     \* bookkeeping: ticks during which the tracker ran unpaused
    found,      \* bookkeeping: UpdateStatus has turned the tracker breached
    overtaken   \* bookkeeping: a completion took such a breach away before it was published

worker == <<pc, listed, prevStatus>>
ledger == <<worked, found, overtaken>>

vars == <<now, order, tracked, tracker, completed, worker, announced, ledger>>

Orders == {"absent", "active", "onHold", "completed", "deleted"}
Statuses == {"onTrack", "atRisk", "breached", "paused"}
Levels == 0 .. 3

Tracker == [started : BOOLEAN, createdAt : Int, deadline : Int, isPaused : BOOLEAN, pausedSince : Int,
            totalPause : Int, status : Statuses, escalation : Levels]

TypeOK ==
    /\ now \in Nat
    /\ order \in Orders
    /\ tracked \in BOOLEAN
    /\ tracker \in Tracker
    /\ completed \in BOOLEAN
    /\ pc \in {"idle", "listed", "update", "compare", "publish"}
    /\ listed \in {"active", "onHold"}
    /\ prevStatus \in Statuses
    /\ announced \subseteq {"atRisk", "breached"}
    /\ worked \in Nat
    /\ found \in BOOLEAN /\ overtaken \in BOOLEAN

NotStarted == [started |-> FALSE, createdAt |-> 0, deadline |-> 0, isPaused |-> FALSE, pausedSince |-> 0,
               totalPause |-> 0, status |-> "onTrack", escalation |-> 0]

Init ==
    /\ now = 0
    /\ order = "absent"
    /\ tracked = FALSE
    /\ tracker = NotStarted
    /\ completed = FALSE
    /\ pc = "idle" /\ listed = "active" /\ prevStatus = "onTrack"
    /\ announced = {}
    /\ worked = 0 /\ found = FALSE /\ overtaken = FALSE

-----------------------------------------------------------------------------
(* The engine *)

Elapsed(t) == now - t.createdAt - t.totalPause

Remaining(t) == Target - Elapsed(t)

\* Less than a tenth, a quarter, a half of the target is left.
EscalationFor(remaining) ==
    CASE 10 * remaining < Target -> 3
      [] 10 * remaining >= Target /\ 4 * remaining < Target -> 2
      [] 4 * remaining >= Target /\ 2 * remaining < Target -> 1
      [] 2 * remaining >= Target -> 0

\* recalculate: on breach the escalation level stays what it was.
Recalculated(t) ==
    IF t.isPaused THEN [t EXCEPT !.status = "paused"]
    ELSE IF Remaining(t) <= 0 THEN [t EXCEPT !.status = "breached"]
    ELSE [t EXCEPT !.status = IF EscalationFor(Remaining(t)) = 0 THEN "onTrack" ELSE "atRisk",
                   !.escalation = EscalationFor(Remaining(t))]

\* Slips for mutation: resuming forgets the pause, or counts it twice.
ResumedWithoutPause(t) == [t EXCEPT !.isPaused = FALSE]
ResumedTwice(t) == [t EXCEPT !.isPaused = FALSE, !.totalPause = @ + 2 * (now - t.pausedSince)]

Paused(t) == [t EXCEPT !.isPaused = TRUE, !.pausedSince = now]

Resumed(t) == [t EXCEPT !.isPaused = FALSE, !.totalPause = @ + (now - t.pausedSince), !.pausedSince = 0]

\* A slip to guard against: a tracker at risk is not recalculated any more.
UpdatedUnlessAtRisk(t, status) ==
    IF t.status = "atRisk" THEN t
    ELSE Recalculated(IF status = "onHold" /\ ~t.isPaused THEN Paused(t)
                      ELSE IF status # "onHold" /\ t.isPaused THEN Resumed(t)
                      ELSE t)

\* The tracker after UpdateStatus; only on-hold statuses have a pause rule.
Updated(t, status) ==
    Recalculated(IF status = "onHold" /\ ~t.isPaused THEN Paused(t)
                 ELSE IF status # "onHold" /\ t.isPaused THEN Resumed(t)
                 ELSE t)

StartTracking ==
    /\ order \in {"active", "onHold"}
    /\ ~tracker.started
    /\ tracked' = TRUE
    /\ tracker' = [NotStarted EXCEPT !.started = TRUE, !.createdAt = now, !.deadline = now + Target + Closed]
    /\ UNCHANGED <<now, order, completed, worker, announced, ledger>>

\* The worker has a breach in hand that it has still to compare or publish.
BreachInHand == pc \in {"compare", "publish"} /\ tracker.status = "breached" /\ prevStatus # "breached"

\* The deadline is compared as it was set: pauses do not move it.  The tracker is
\* the one the worker points at, and nothing is published.
CompleteWorkOrder ==
    /\ order = "completed"
    /\ tracked /\ ~completed
    /\ tracker' = [tracker EXCEPT !.status = IF now > tracker.deadline THEN "breached" ELSE "onTrack"]
    /\ completed' = TRUE
    /\ overtaken' = (overtaken \/ (BreachInHand /\ now <= tracker.deadline))
    /\ UNCHANGED <<now, order, tracked, worker, announced, worked, found>>

\* evictStaleTrackers.  isTerminalStatus holds of no status a tracker can have,
\* so only the branch for orphans deletes.
Evict ==
    /\ tracked
    /\ now - tracker.createdAt > MaxAge
    /\ tracker.status \in {"onTrack", "paused"}
    /\ tracked' = FALSE
    /\ UNCHANGED <<now, order, tracker, completed, worker, announced, ledger>>

-----------------------------------------------------------------------------
(* The worker: processBatch, one work order *)

\* GetActiveWorkOrders
List ==
    /\ pc = "idle"
    /\ order \in {"active", "onHold"}
    /\ listed' = order
    /\ pc' = "listed"
    /\ UNCHANGED <<now, order, tracked, tracker, completed, prevStatus, announced, ledger>>

ReadPrevious ==
    /\ pc = "listed"
    /\ IF tracked
       THEN pc' = "update" /\ prevStatus' = tracker.status
       ELSE pc' = "idle" /\ UNCHANGED prevStatus
    /\ UNCHANGED <<now, order, tracked, tracker, completed, listed, announced, ledger>>

UpdateStatus ==
    /\ pc = "update"
    /\ IF tracked
       THEN /\ pc' = "compare"
            /\ tracker' = Updated(tracker, listed)
            /\ found' = (found \/ (tracker'.status = "breached" /\ prevStatus # "breached"))
       ELSE pc' = "idle" /\ UNCHANGED <<tracker, found>>
    /\ UNCHANGED <<now, order, tracked, completed, listed, prevStatus, announced, worked, overtaken>>

\* updated.Status is read through the pointer, after the engine's mutex is released.
Compare ==
    /\ pc = "compare"
    /\ pc' = IF tracker.status # prevStatus THEN "publish" ELSE "idle"
    /\ UNCHANGED <<now, order, tracked, tracker, completed, listed, prevStatus, announced, ledger>>

\* Slips for mutation: only the breach of a healthy tracker is announced; the
\* switch over the status has lost its default.
PublishFromOnTrack ==
    /\ pc = "publish"
    /\ announced' = announced \cup (IF prevStatus = "onTrack" THEN {tracker.status} \cap {"atRisk", "breached"} ELSE {})
    /\ pc' = "idle"
    /\ UNCHANGED <<now, order, tracked, tracker, completed, listed, prevStatus, ledger>>

\* publishStatusChange; an error of the publisher is logged and forgotten.
Publish ==
    /\ pc = "publish"
    /\ announced' = announced \cup (({tracker.status} \cap {"atRisk", "breached"}) \ {prevStatus})
    /\ pc' = "idle"
    /\ UNCHANGED <<now, order, tracked, tracker, completed, listed, prevStatus, ledger>>

-----------------------------------------------------------------------------
(* Time, and the work order in the database *)

Tick ==
    /\ now < MaxTime
    /\ now' = now + 1
    /\ worked' = worked + (IF tracker.started /\ ~tracker.isPaused THEN 1 ELSE 0)
    /\ UNCHANGED <<order, tracked, tracker, completed, worker, announced, found, overtaken>>

SetOrderStatus(s) ==
    /\ \/ order = "absent" /\ s = "active"
       \/ order \in {"active", "onHold"} /\ s \in {"active", "onHold", "completed", "deleted"} \ {order}
    /\ order' = s
    /\ UNCHANGED <<now, tracked, tracker, completed, worker, announced, ledger>>

WorkerStep == List \/ ReadPrevious \/ UpdateStatus \/ Compare \/ Publish

Next ==
    \/ StartTracking \/ CompleteWorkOrder \/ Evict
    \/ WorkerStep
    \/ Tick
    \/ \E s \in Orders : SetOrderStatus(s)

Spec == Init /\ [][Next]_vars

\* runLoop and cleanupLoop are tickers: the worker keeps making batches and
\* the engine keeps cleaning up, while time passes.
Fairness == WF_vars(WorkerStep) /\ WF_vars(Evict) /\ WF_vars(Tick) /\ WF_vars(CompleteWorkOrder)

FairSpec == Spec /\ Fairness

-----------------------------------------------------------------------------
(* Properties *)

\* The engine's elapsed time is exactly the time the tracker ran unpaused,
\* however often the order went on hold and came back.  (CompleteWorkOrder stores
\* an elapsed time of its own, engine.go:561 and 570, which counts an open pause as
\* work; that number is no part of this property.)
ElapsedIsWorked ==
    tracker.started =>
        Elapsed(tracker) - (IF tracker.isPaused THEN now - tracker.pausedSince ELSE 0) = worked

\* Until the order is completed, recalculate declares a breach only when the
\* time worked has used up the target; CompleteWorkOrder judges by the deadline,
\* which pauses do not move, and holds to no such promise.
BreachedWhenSpent == (tracker.status = "breached" /\ ~completed) => worked >= Target

\* A breach that UpdateStatus found is announced by the time the worker rests,
\* whatever is held, evicted or listed anew meanwhile; only a completion that came
\* before the deadline can take the breach away between the engine's unlock and
\* the worker's reads (engine.go:564-568, worker.go:570 and 581).
BreachAnnounced == (pc = "idle" /\ found /\ ~overtaken) => "breached" \in announced

\* What worker.go:569 and the list at worker.go:11 say: a status that UpdateStatus
\* changed is published, here a breach, whoever else writes the tracker meanwhile.
FoundIsAnnounced == (pc = "idle" /\ found) => "breached" \in announced

\* A breached order is on hold or breached until it is completed, and its
\* escalation level never falls: holding an order cannot undo a breach.
NoWayBack ==
    [][~completed' =>
        /\ (tracker.status = "breached" => tracker'.status \in {"breached", "paused"})
        /\ tracker'.escalation >= tracker.escalation]_vars

\* The batches find every breach: an active, tracked order whose target is
\* spent becomes breached, unless it is held, ended or evicted first.
BreachNoticed ==
    (order = "active" /\ tracked /\ ~completed /\ worked >= Target) ~>
        (tracker.status = "breached" \/ order # "active" \/ ~tracked \/ completed)
=============================================================================

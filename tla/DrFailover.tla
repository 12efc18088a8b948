------------------------------ MODULE DrFailover ------------------------------
(***************************************************************************)
(* The failover manager (backend/internal/dr/failover.go): an operator     *)
(* asks for a failover, an administrator approves or rejects it, and the   *)
(* request that approved it moves DNS, the database and NATS one after the *)
(* other, without the lock.  A rollback asks for the moves again.  Every   *)
(* HTTP request is a goroutine of its own and nothing is persisted: the    *)
(* program passes no store (api/server.go:789).  RollbackFailover has no   *)
(* caller in the program; it is the method behind runbook.md section 4.5.  *)
(* The functions that move things publish to NATS, and succeed without     *)
(* doing so when there is no connection.  The program builds the manager   *)
(* (main.go:528, api/router.go:437) before it has one (main.go:530), so    *)
(* Connected is FALSE there; TRUE is the manager as it is meant to run.    *)
(***************************************************************************)
EXTENDS Naturals, FiniteSets

CONSTANTS
    MaxEvents,  \* bound: calls of InitiateFailover that get an event
    Connected,  \* the manager was built with a NATS connection
    Rollbacks,  \* bound: the calls of RollbackFailover that may run at one time
    MaxCrashes  \* bound: ends of the process

ASSUME FailoverAssumption ==
    /\ MaxEvents \in Nat
    /\ Connected \in BOOLEAN
    /\ MaxCrashes \in Nat

Events == 1 .. MaxEvents
Kinds == {"dns", "db", "nats"}

VARIABLES
    seq,            \* eventIDSeq, over all processes
    activeFailover, \* its event, or 0
    status,         \* FailoverEvent.Status; "none" before it exists, "lost" after a crash
    exec,           \* executeFailover of each event: what it does next
    back,           \* each call of RollbackFailover: its event and what it does next
    inProgress,     \* HealthStatus.FailoverInProgress
    \* bookkeeping
    done,           \* the moves the execution of each event has asked for
    runs,           \* how often each event was executed
    crashes

vars == <<seq, activeFailover, status, exec, back, inProgress, done, runs, crashes>>

Statuses == {"none", "pending", "approved", "rejected", "in_progress", "completed",
             "failed", "rolled_back", "lost"}
Steps == {"no", "start", "end", "failed"} \cup Kinds
BackSteps == {"no", "end", "marked"} \cup Kinds
NoCall == [event |-> 0, at |-> "no"]

TypeOK ==
    /\ seq \in 0 .. MaxEvents
    /\ activeFailover \in 0 .. seq
    /\ status \in [Events -> Statuses]
    /\ exec \in [Events -> Steps]
    /\ back \in [Rollbacks -> [event : 0 .. MaxEvents, at : BackSteps]]
    /\ inProgress \in BOOLEAN
    /\ done \in [Events -> SUBSET Kinds]
    /\ runs \in [Events -> Nat]
    /\ crashes \in 0 .. MaxCrashes

Init ==
    /\ seq = 0
    /\ activeFailover = 0
    /\ status = [e \in Events |-> "none"]
    /\ exec = [e \in Events |-> "no"]
    /\ back = [c \in Rollbacks |-> NoCall]
    /\ inProgress = FALSE
    /\ done = [e \in Events |-> {}]
    /\ runs = [e \in Events |-> 0]
    /\ crashes = 0

Executing(e) == exec[e] \notin {"no", "start"}

-----------------------------------------------------------------------------
(* The operations of administrators *)

\* The administrator's confirmation is always required (DefaultFailoverConfig).
InitiateFailover ==
    /\ seq < MaxEvents
    /\ activeFailover # 0 => status[activeFailover] # "in_progress"
    /\ seq' = seq + 1
    /\ activeFailover' = seq + 1
    /\ status' = [status EXCEPT ![seq + 1] = "pending"]
    /\ UNCHANGED <<exec, back, inProgress, done, runs, crashes>>

\* A slip to guard against: the status is not looked at.
ApproveAny(e) ==
    /\ e = activeFailover
    /\ status' = [status EXCEPT ![e] = "approved"]
    /\ exec' = [exec EXCEPT ![e] = "start"]
    /\ UNCHANGED <<seq, activeFailover, back, inProgress, done, runs, crashes>>

\* The lock is given up before executeFailover takes it again.
ApproveFailover(e) ==
    /\ e = activeFailover /\ status[e] = "pending"
    /\ status' = [status EXCEPT ![e] = "approved"]
    /\ exec' = [exec EXCEPT ![e] = "start"]
    /\ UNCHANGED <<seq, activeFailover, back, inProgress, done, runs, crashes>>

RejectFailover(e) ==
    /\ e = activeFailover /\ status[e] = "pending"
    /\ status' = [status EXCEPT ![e] = "rejected"]
    /\ UNCHANGED <<seq, activeFailover, exec, back, inProgress, done, runs, crashes>>

-----------------------------------------------------------------------------
(* executeFailover *)

Begin(e) ==
    /\ exec[e] = "start"
    /\ exec' = [exec EXCEPT ![e] = "dns"]
    /\ status' = [status EXCEPT ![e] = "in_progress"]
    /\ inProgress' = TRUE
    /\ runs' = [runs EXCEPT ![e] = @ + 1]
    /\ UNCHANGED <<seq, activeFailover, back, done, crashes>>

\* publishNATSMessage.  Without a connection nothing is published and no error is given.
\* The message is the action and a timestamp: the region the caller names is left out.
Published(e, k) == done' = IF Connected THEN [done EXCEPT ![e] = @ \cup {k}] ELSE done

After(k) == CASE k = "dns" -> "db" [] k = "db" -> "nats" [] k = "nats" -> "end"

Succeed(e) ==
    /\ exec[e] \in Kinds
    /\ Published(e, exec[e])
    /\ exec' = [exec EXCEPT ![e] = After(exec[e])]
    /\ UNCHANGED <<seq, activeFailover, status, back, inProgress, runs, crashes>>

\* A slip to guard against: no report of a failed step.
FailUnmarked(e) ==
    /\ Connected
    /\ exec[e] \in Kinds
    /\ exec' = [exec EXCEPT ![e] = "no"]
    /\ UNCHANGED <<seq, activeFailover, status, back, inProgress, done, runs, crashes>>

\* The first half of failFailover writes the event without the lock.
Fail(e) ==
    /\ Connected
    /\ exec[e] \in Kinds
    /\ exec' = [exec EXCEPT ![e] = "failed"]
    /\ status' = [status EXCEPT ![e] = "failed"]
    /\ UNCHANGED <<seq, activeFailover, back, inProgress, done, runs, crashes>>

\* A slip to guard against: the flag of the health monitor stays.
FailFailoverFlagged(e) ==
    /\ exec[e] = "failed"
    /\ exec' = [exec EXCEPT ![e] = "no"]
    /\ activeFailover' = e
    /\ UNCHANGED <<seq, status, back, inProgress, done, runs, crashes>>

FailFailover(e) ==
    /\ exec[e] = "failed"
    /\ exec' = [exec EXCEPT ![e] = "no"]
    /\ inProgress' = FALSE
    /\ activeFailover' = e
    /\ UNCHANGED <<seq, status, back, done, runs, crashes>>

Complete(e) ==
    /\ exec[e] = "end"
    /\ exec' = [exec EXCEPT ![e] = "no"]
    /\ status' = [status EXCEPT ![e] = "completed"]
    /\ inProgress' = FALSE
    /\ activeFailover' = e
    /\ UNCHANGED <<seq, back, done, runs, crashes>>

-----------------------------------------------------------------------------
(* RollbackFailover, whatever the status of the event and whoever else is at it *)

RollbackFailover(c, e) ==
    /\ e = activeFailover /\ back[c].at = "no"
    /\ back' = [back EXCEPT ![c] = [event |-> e, at |-> "db"]]
    /\ UNCHANGED <<seq, activeFailover, status, exec, inProgress, done, runs, crashes>>

AfterBack(k) == CASE k = "db" -> "nats" [] k = "nats" -> "dns" [] k = "dns" -> "end"

\* What a rollback publishes is what the failover published before.
Undo(c) ==
    /\ back[c].at \in Kinds
    /\ back' = [back EXCEPT ![c].at = AfterBack(@)]
    /\ UNCHANGED <<seq, activeFailover, status, exec, inProgress, done, runs, crashes>>

\* A step that fails ends the rollback and leaves the event as it is.
UndoFails(c) ==
    /\ Connected
    /\ back[c].at \in Kinds
    /\ back' = [back EXCEPT ![c] = NoCall]
    /\ UNCHANGED <<seq, activeFailover, status, exec, inProgress, done, runs, crashes>>

\* The event is written without the lock, here as well.
MarkRolledBack(c) ==
    /\ back[c].at = "end"
    /\ back' = [back EXCEPT ![c].at = "marked"]
    /\ status' = [status EXCEPT ![back[c].event] = "rolled_back"]
    /\ UNCHANGED <<seq, activeFailover, exec, inProgress, done, runs, crashes>>

RolledBack(c) ==
    /\ back[c].at = "marked"
    /\ back' = [back EXCEPT ![c] = NoCall]
    /\ inProgress' = FALSE
    /\ activeFailover' = back[c].event
    /\ UNCHANGED <<seq, status, exec, done, runs, crashes>>

\* The process ends; there is no store.
Crash ==
    /\ crashes < MaxCrashes
    /\ crashes' = crashes + 1
    /\ activeFailover' = 0
    /\ status' = [e \in Events |-> IF e <= seq THEN "lost" ELSE status[e]]
    /\ exec' = [e \in Events |-> "no"]
    /\ back' = [c \in Rollbacks |-> NoCall]
    /\ inProgress' = FALSE
    /\ UNCHANGED <<seq, done, runs>>

ExecStep(e) == Begin(e) \/ Succeed(e) \/ Fail(e) \/ FailFailover(e) \/ Complete(e)
BackStep(c) == Undo(c) \/ UndoFails(c) \/ MarkRolledBack(c) \/ RolledBack(c)

Next ==
    \/ InitiateFailover
    \/ \E e \in Events : ApproveFailover(e) \/ RejectFailover(e) \/ ExecStep(e)
    \/ \E c \in Rollbacks : BackStep(c) \/ \E e \in Events : RollbackFailover(c, e)
    \/ Crash

Spec == Init /\ [][Next]_vars

\* A request that can go on goes on: the moves return or fail.
FairSpec ==
    /\ Spec
    /\ \A e \in Events : WF_vars(ExecStep(e))
    /\ \A c \in Rollbacks : WF_vars(BackStep(c))

-----------------------------------------------------------------------------
(* Properties *)

\* An approval is used once, whoever else approves, rejects, rolls back or asks anew.
ApprovedOnce == \A e \in Events : runs[e] <= 1

\* What an administrator rejected is never approved or executed; only a
\* rollback or a crash makes another status of it.
RejectedNeverRuns ==
    [][\A e \in Events : status[e] = "rejected" => status'[e] \in {"rejected", "rolled_back", "lost"}]_vars

\* The health report shows a failover only while one is under way.
NoStuckFlag == inProgress => \E e \in Events : Executing(e)

\* A failover never blocks the next one for good.
FailoverEnds ==
    \A e \in Events : activeFailover = e /\ status[e] = "in_progress" ~> status[e] # "in_progress"

\* What runbook.md:178-183 promises after an approval: DNS, the database and NATS are
\* moved.  A failover that reports completion has at least asked for it.
CompletedSwitched == \A e \in Events : status[e] = "completed" => done[e] = Kinds

\* "Active failover: the failover being executed" (failover.go:91), which keeps a second
\* one from beginning (failover.go:206-208): what executes is the active one, and alone.
ActiveIsExecuting == \A e \in Events : Executing(e) => activeFailover = e
=============================================================================

---------------------------- MODULE ApprovalFlow ----------------------------
(***************************************************************************)
(* One request of the self-healing agent's ApprovalManager                 *)
(* (backend/internal/agent/approval.go).  Operators approve or reject it   *)
(* from any goroutine, other goroutines block in WaitApproval, a janitor   *)
(* runs CleanupExpired.  The manager decides under am.mu, but sends the    *)
(* result on the request's channel after unlocking and forgets the channel *)
(* in a second critical section; each critical section is one action here. *)
(* Requests share nothing but the map, so one request is enough.           *)
(***************************************************************************)
EXTENDS Naturals, Sequences, FiniteSets

CONSTANTS
    Deciders,  \* goroutines that call Approve or Reject, once each
    Waiters    \* goroutines that call WaitApproval, once each

ASSUME CallersAssumption == Deciders \cap Waiters = {}

Callers == Deciders \cup Waiters

VARIABLES
    status,      \* ApprovalRequest.Status ("absent" before RequestApproval)
    listed,      \* the ID is in am.requests
    chanListed,  \* the ID is in am.decisionCh
    channel,     \* contents of the channel made with capacity 1
    overdue,     \* time.Now() has passed ExpiresAt
    pc,          \* where each caller is
    result       \* what WaitApproval returns, fixed once it is known

vars == <<status, listed, chanListed, channel, overdue, pc, result>>

Terminal == {"approved", "rejected", "expired"}
Capacity == 1
Results == {"none", "approved", "rejected", "fallback", "timeout", "late", "cancelled", "missing"}

TypeOK ==
    /\ status \in Terminal \cup {"absent", "pending"}
    /\ listed \in BOOLEAN
    /\ chanListed \in BOOLEAN
    /\ channel \in Seq({"approved", "rejected", "fallback"})
    /\ overdue \in BOOLEAN
    /\ pc \in [Callers -> {"idle", "found", "selecting", "expiring", "sending", "forgetting", "done"}]
    /\ result \in [Waiters -> Results]

Init ==
    /\ status = "absent"
    /\ listed = FALSE
    /\ chanListed = FALSE
    /\ channel = <<>>
    /\ overdue = FALSE
    /\ pc = [c \in Callers |-> "idle"]
    /\ result = [w \in Waiters |-> "none"]

-----------------------------------------------------------------------------
RequestApproval ==
    /\ status = "absent"
    /\ status' = "pending"
    /\ listed' = TRUE
    /\ chanListed' = TRUE
    /\ UNCHANGED <<channel, overdue, pc, result>>

Deadline ==
    /\ status # "absent"
    /\ ~overdue
    /\ overdue' = TRUE
    /\ UNCHANGED <<status, listed, chanListed, channel, pc, result>>

\* A slip to guard against: a second decision overwrites the first.
ConcludeAgain(c, s) ==
    /\ listed
    /\ status # "absent"
    /\ status' = s
    /\ pc' = [pc EXCEPT ![c] = "sending"]

\* The critical section resolveRequest and expireRequest share: only a pending
\* request changes, and the goroutine that changed it owes the channel a send.
Conclude(c, s) ==
    /\ listed
    /\ status = "pending"
    /\ status' = s
    /\ pc' = [pc EXCEPT ![c] = IF chanListed THEN "sending" ELSE "done"]

Resolve(d, s) ==
    /\ pc[d] = "idle"
    /\ Conclude(d, s)
    /\ UNCHANGED <<listed, chanListed, channel, overdue, result>>

\* "not found" or "already <status>": the operator gets an error.
ResolveRefused(d) ==
    /\ pc[d] = "idle"
    /\ ~(listed /\ status = "pending")
    /\ pc' = [pc EXCEPT ![d] = "done"]
    /\ UNCHANGED <<status, listed, chanListed, channel, overdue, result>>

Message == IF status = "expired" THEN "fallback" ELSE status

\* ch <- ApprovalResult{...}, outside the lock; it blocks while the buffer is full.
Send(c) ==
    /\ pc[c] = "sending"
    /\ Len(channel) < Capacity
    /\ channel' = Append(channel, Message)
    /\ pc' = [pc EXCEPT ![c] = "forgetting"]
    /\ UNCHANGED <<status, listed, chanListed, overdue, result>>

Forget(c) ==
    /\ pc[c] = "forgetting"
    /\ chanListed' = FALSE
    /\ pc' = [pc EXCEPT ![c] = "done"]
    /\ UNCHANGED <<status, listed, channel, overdue, result>>

-----------------------------------------------------------------------------
Return(w, r) ==
    /\ pc' = [pc EXCEPT ![w] = "done"]
    /\ result' = [result EXCEPT ![w] = r]

WaitLookup(w) ==
    /\ pc[w] = "idle"
    /\ IF chanListed
       THEN pc' = [pc EXCEPT ![w] = "found"] /\ UNCHANGED result
       ELSE Return(w, "missing")
    /\ UNCHANGED <<status, listed, chanListed, channel, overdue>>

\* getRequest, then time.Until(req.ExpiresAt).
WaitCheck(w) ==
    /\ pc[w] = "found"
    /\ \/ ~listed /\ Return(w, "missing")
       \/ /\ listed /\ overdue
          /\ pc' = [pc EXCEPT ![w] = "expiring"]
          /\ result' = [result EXCEPT ![w] = "late"]
       \/ /\ listed /\ ~overdue
          /\ pc' = [pc EXCEPT ![w] = "selecting"]
          /\ UNCHANGED result
    /\ UNCHANGED <<status, listed, chanListed, channel, overdue>>

\* The three arms of the select; any arm that is ready may be the one taken.
WaitCancelled(w) ==
    /\ pc[w] = "selecting"
    /\ Return(w, "cancelled")
    /\ UNCHANGED <<status, listed, chanListed, channel, overdue>>

WaitTimeout(w) ==
    /\ pc[w] = "selecting"
    /\ overdue
    /\ pc' = [pc EXCEPT ![w] = "expiring"]
    /\ result' = [result EXCEPT ![w] = "timeout"]
    /\ UNCHANGED <<status, listed, chanListed, channel, overdue>>

WaitReceive(w) ==
    /\ pc[w] = "selecting"
    /\ channel # <<>>
    /\ Return(w, Head(channel))
    /\ channel' = Tail(channel)
    /\ UNCHANGED <<status, listed, chanListed, overdue>>

\* A slip to guard against: giving up without expiring the request.
GiveUpOnly(w) ==
    /\ pc[w] = "expiring"
    /\ pc' = [pc EXCEPT ![w] = "done"]
    /\ UNCHANGED <<status, listed, chanListed, channel, overdue, result>>

Expire(w) ==
    /\ pc[w] = "expiring"
    /\ \/ Conclude(w, "expired")
       \/ /\ ~(listed /\ status = "pending")
          /\ pc' = [pc EXCEPT ![w] = "done"]
          /\ UNCHANGED status
    /\ UNCHANGED <<listed, chanListed, channel, overdue, result>>

\* CleanupExpired drops the entries of a request that is no longer pending.
CleanupExpired ==
    /\ listed
    /\ status # "pending"
    /\ listed' = FALSE
    /\ chanListed' = FALSE
    /\ UNCHANGED <<status, channel, overdue, pc, result>>

DeciderStep(d) ==
    \/ \E s \in {"approved", "rejected"} : Resolve(d, s)
    \/ ResolveRefused(d)
    \/ Send(d)
    \/ Forget(d)

WaiterStep(w) ==
    \/ WaitLookup(w)
    \/ WaitCheck(w)
    \/ WaitTimeout(w)
    \/ WaitReceive(w)
    \/ Expire(w)
    \/ Send(w)
    \/ Forget(w)

Next ==
    \/ RequestApproval
    \/ Deadline
    \/ CleanupExpired
    \/ \E d \in Deciders : DeciderStep(d)
    \/ \E w \in Waiters : WaiterStep(w) \/ WaitCancelled(w)

Spec == Init /\ [][Next]_vars

\* Goroutines that can run do run, and the deadline of a request comes.
FairSpec ==
    /\ Spec
    /\ WF_vars(Deadline)
    /\ \A d \in Deciders : WF_vars(DeciderStep(d))
    /\ \A w \in Waiters : WF_vars(WaiterStep(w))

-----------------------------------------------------------------------------
\* Nobody ever blocks on the decision channel: a goroutine that owes it a
\* message finds the buffer empty, although the send happens after the unlock.
SendNeverBlocks == \A c \in Callers : pc[c] = "sending" => Len(channel) < Capacity

\* WaitApproval returns Approved only for a request an operator approved, also
\* when expiry, rejection and clean-up run at the same time.
ApprovalGenuine ==
    \A w \in Waiters : pc[w] = "done" /\ result[w] = "approved" => status = "approved"

\* One approval releases at most one waiter, so it starts the fix at most once.
ApprovedOnce ==
    \A v, w \in Waiters :
        pc[v] = "done" /\ pc[w] = "done" /\ result[v] = "approved" /\ result[w] = "approved" => v = w

\* A waiter that gave up on time has closed the request behind it: no operator
\* can approve, later, what the agent no longer waits for.
TimeoutCloses ==
    \A w \in Waiters : pc[w] = "done" /\ result[w] \in {"timeout", "late"} => status \in Terminal

\* A verdict is never replaced by another one: expiry does not undo an
\* approval, and a late approval does not undo expiry.
VerdictFinal == [][(status \in Terminal) => (status' = status)]_vars

\* Every Approve, Reject and WaitApproval that starts comes back.
CallersReturn == \A c \in Callers : pc[c] # "idle" ~> pc[c] = "done"

\* The request implements the abstract promise.
Promise == INSTANCE OneVerdict WITH
    verdict <- IF status \in Terminal THEN status ELSE "none",
    told <- [w \in Waiters |->
                IF pc[w] # "done" THEN "nothing"
                ELSE IF result[w] = "approved" THEN "approved" ELSE "refused"]

ImplementsPromise == Promise!Spec
=============================================================================

------------------------- MODULE ApprovalFlow_proofs -------------------------
(***************************************************************************)
(* What holds of an approval request for any number of operators and       *)
(* waiters.  The point of the inductive invariant is that the one message  *)
(* of a request is in exactly one place, although the goroutine that made  *)
(* the verdict sends it only after it released the manager's lock.         *)
(***************************************************************************)
EXTENDS ApprovalFlow, SequenceTheorems, TLAPS

Received == {"approved", "rejected", "fallback"}

Read(w) == pc[w] = "done" /\ result[w] \in Received

\* A request nobody decided has produced no message and is still in both maps.
Undecided ==
    /\ status \notin Terminal =>
         /\ channel = <<>>
         /\ \A c \in Callers : pc[c] \notin {"sending", "forgetting"}
         /\ \A w \in Waiters : ~Read(w)
    /\ status = "pending" => listed /\ chanListed
    /\ status = "absent" => ~listed /\ ~chanListed

\* The message of a decided request is on its way, buffered or read.
OneMessage ==
    /\ channel = <<>> \/ channel = <<Message>>
    /\ \A c \in Callers : pc[c] = "sending" =>
         /\ channel = <<>>
         /\ \A d \in Callers : pc[d] = "sending" => d = c
         /\ \A w \in Waiters : ~Read(w)
    /\ channel # <<>> => \A w \in Waiters : ~Read(w)
    /\ \A v, w \in Waiters : Read(v) /\ Read(w) => v = w
    /\ \A w \in Waiters : Read(w) => result[w] = Message

\* A waiter that gave up knows its answer, and leaves no pending request.
GivingUp ==
    \A w \in Waiters :
        /\ pc[w] \in {"expiring", "sending", "forgetting"} => result[w] \in {"timeout", "late"}
        /\ pc[w] \in {"sending", "forgetting", "done"} /\ result[w] \in {"timeout", "late"} => status \in Terminal
        /\ pc[w] \in {"found", "selecting", "expiring"} => status # "absent"
        /\ pc[w] = "done" => result[w] # "none"
        /\ pc[w] \in {"idle", "found", "selecting"} => result[w] = "none"

IInv == TypeOK /\ Undecided /\ OneMessage /\ GivingUp

LEMMA InitIInv == Init => IInv
<1> SUFFICES ASSUME Init PROVE IInv
  OBVIOUS
<1> USE DEF Init, Callers, Terminal, Results, Received, Read
<1>1. TypeOK
  BY EmptySeq DEF TypeOK
<1>2. Undecided /\ OneMessage
  BY DEF Undecided, OneMessage
<1>3. GivingUp
  BY DEF GivingUp
<1> QED
  BY <1>1, <1>2, <1>3 DEF IInv

LEMMA NextIInv == IInv /\ [Next]_vars => IInv'
<1> SUFFICES ASSUME IInv, [Next]_vars PROVE IInv'
  OBVIOUS
<1> USE CallersAssumption DEF Callers, Capacity, Terminal, Results, Received, Message
<1>1. CASE RequestApproval
  BY <1>1 DEF IInv, TypeOK, Undecided, OneMessage, GivingUp, Read, RequestApproval
<1>2. CASE Deadline
  BY <1>2 DEF IInv, TypeOK, Undecided, OneMessage, GivingUp, Read, Deadline
<1>3. CASE CleanupExpired
  BY <1>3 DEF IInv, TypeOK, Undecided, OneMessage, GivingUp, Read, CleanupExpired
<1>4. ASSUME NEW d \in Deciders, NEW s \in {"approved", "rejected"}, Resolve(d, s) PROVE IInv'
  <2> USE <1>4 DEF Resolve, Conclude
  <2>1. TypeOK'
    BY DEF IInv, TypeOK
  <2>2. Undecided'
    BY DEF IInv, TypeOK, Undecided, OneMessage, Read
  <2>3. OneMessage'
    BY DEF IInv, TypeOK, Undecided, OneMessage, GivingUp, Read
  <2>4. GivingUp'
    BY DEF IInv, TypeOK, Undecided, GivingUp
  <2> QED
    BY <2>1, <2>2, <2>3, <2>4 DEF IInv
<1>5. ASSUME NEW d \in Deciders, ResolveRefused(d) PROVE IInv'
  <2> USE <1>5 DEF ResolveRefused
  <2>1. TypeOK'
    BY DEF IInv, TypeOK
  <2>2. Undecided'
    BY DEF IInv, TypeOK, Undecided, OneMessage, Read
  <2>3. OneMessage'
    BY DEF IInv, TypeOK, Undecided, OneMessage, GivingUp, Read
  <2>4. GivingUp'
    BY DEF IInv, TypeOK, Undecided, GivingUp
  <2> QED
    BY <2>1, <2>2, <2>3, <2>4 DEF IInv
<1>6. ASSUME NEW c \in Callers, Send(c) PROVE IInv'
  <2> USE <1>6 DEF Send
  <2>0. channel = <<>> /\ status \in Terminal
    BY DEF IInv, TypeOK, Undecided, OneMessage
  <2>1. TypeOK'
    BY <2>0 DEF IInv, TypeOK
  <2>2. Undecided'
    BY DEF IInv, TypeOK, Undecided, OneMessage, Read
  <2>3. OneMessage'
    BY <2>0 DEF IInv, TypeOK, OneMessage, GivingUp, Read
  <2>4. GivingUp'
    BY DEF IInv, TypeOK, Undecided, GivingUp
  <2> QED
    BY <2>1, <2>2, <2>3, <2>4 DEF IInv
<1>7. ASSUME NEW c \in Callers, Forget(c) PROVE IInv'
  <2> USE <1>7 DEF Forget
  <2>0. status \in Terminal
    BY DEF IInv, TypeOK, Undecided, GivingUp
  <2>1. TypeOK'
    BY DEF IInv, TypeOK
  <2>2. Undecided'
    BY <2>0 DEF IInv, TypeOK, Undecided, OneMessage, Read
  <2>3. OneMessage'
    BY DEF IInv, TypeOK, OneMessage, GivingUp, Read
  <2>4. GivingUp'
    BY <2>0 DEF IInv, TypeOK, GivingUp
  <2> QED
    BY <2>1, <2>2, <2>3, <2>4 DEF IInv
<1>8. ASSUME NEW w \in Waiters, WaitLookup(w) PROVE IInv'
  BY <1>8 DEF IInv, TypeOK, Undecided, OneMessage, GivingUp, Read, WaitLookup, Return
<1>9. ASSUME NEW w \in Waiters, WaitCheck(w) PROVE IInv'
  BY <1>9 DEF IInv, TypeOK, Undecided, OneMessage, GivingUp, Read, WaitCheck, Return
<1>10. ASSUME NEW w \in Waiters, WaitCancelled(w) PROVE IInv'
  BY <1>10 DEF IInv, TypeOK, Undecided, OneMessage, GivingUp, Read, WaitCancelled, Return
<1>11. ASSUME NEW w \in Waiters, WaitTimeout(w) PROVE IInv'
  BY <1>11 DEF IInv, TypeOK, Undecided, OneMessage, GivingUp, Read, WaitTimeout
<1>12. ASSUME NEW w \in Waiters, WaitReceive(w) PROVE IInv'
  <2> USE <1>12 DEF WaitReceive, Return
  <2>1. TypeOK'
    BY DEF IInv, TypeOK
  <2>2. Undecided'
    BY DEF IInv, TypeOK, Undecided, OneMessage, Read
  <2>3. OneMessage'
    BY DEF IInv, TypeOK, Undecided, OneMessage, GivingUp, Read
  <2>4. GivingUp'
    BY DEF IInv, TypeOK, Undecided, GivingUp
  <2> QED
    BY <2>1, <2>2, <2>3, <2>4 DEF IInv
<1>13. ASSUME NEW w \in Waiters, Expire(w) PROVE IInv'
  <2> USE <1>13 DEF Expire, Conclude
  <2>1. TypeOK'
    BY DEF IInv, TypeOK
  <2>2. Undecided'
    BY DEF IInv, TypeOK, Undecided, OneMessage, GivingUp, Read
  <2>3. OneMessage'
    BY DEF IInv, TypeOK, Undecided, OneMessage, GivingUp, Read
  <2>4. GivingUp'
    BY DEF IInv, TypeOK, Undecided, GivingUp
  <2> QED
    BY <2>1, <2>2, <2>3, <2>4 DEF IInv
<1>14. CASE UNCHANGED vars
  BY <1>14 DEF IInv, TypeOK, Undecided, OneMessage, GivingUp, Read, vars
<1> QED
  BY <1>1, <1>2, <1>3, <1>4, <1>5, <1>6, <1>7, <1>8, <1>9, <1>10, <1>11, <1>12, <1>13, <1>14
     DEF Next, DeciderStep, WaiterStep

LEMMA Invariance == Spec => []IInv
  BY InitIInv, NextIInv, PTL DEF Spec

\* Every variable keeps the shape the code gives it.
THEOREM TypeCorrect == Spec => []TypeOK
<1>1. IInv => TypeOK
  BY DEF IInv
<1> QED
  BY <1>1, Invariance, PTL

\* No goroutine ever blocks on the decision channel.
THEOREM NoBlockedSend == Spec => []SendNeverBlocks
<1>1. IInv => SendNeverBlocks
  BY DEF IInv, OneMessage, SendNeverBlocks, Capacity
<1> QED
  BY <1>1, Invariance, PTL

\* WaitApproval returns Approved only for an approved request.
THEOREM Genuine == Spec => []ApprovalGenuine
<1>1. IInv => ApprovalGenuine
  BY DEF IInv, OneMessage, ApprovalGenuine, Read, Received, Message
<1> QED
  BY <1>1, Invariance, PTL

\* An approval releases at most one waiter.
THEOREM ReleasedOnce == Spec => []ApprovedOnce
<1>1. IInv => ApprovedOnce
  BY DEF IInv, OneMessage, ApprovedOnce, Read, Received
<1> QED
  BY <1>1, Invariance, PTL

\* A waiter that timed out left no request that could still be approved.
THEOREM GaveUpClosed == Spec => []TimeoutCloses
<1>1. IInv => TimeoutCloses
  BY DEF IInv, GivingUp, TimeoutCloses
<1> QED
  BY <1>1, Invariance, PTL

\* The first verdict is the only one.
THEOREM FirstVerdictWins == Spec => VerdictFinal
<1>1. [Next]_vars => [(status \in Terminal) => (status' = status)]_vars
  <2> SUFFICES ASSUME Next, status \in Terminal PROVE status' = status
    OBVIOUS
  <2> QED
    BY DEF Next, DeciderStep, WaiterStep, RequestApproval, Deadline, CleanupExpired, Resolve,
           ResolveRefused, Conclude, Send, Forget, WaitLookup, WaitCheck, WaitCancelled,
           WaitTimeout, WaitReceive, Expire, Return, Terminal
<1> QED
  BY <1>1, PTL DEF Spec, VerdictFinal

\* The locks, the channel and the timers implement the abstract promise.  Only
\* three kinds of step are visible through the mapping: the critical section
\* that decides, the return of "approved", and the return of anything else.
THEOREM Refinement == Spec => ImplementsPromise
<1>1. Init => Promise!Init
  BY DEF Init, Promise!Init, Terminal, Callers
<1>2. IInv /\ [Next]_vars => [Promise!Next]_Promise!vars
  <2> SUFFICES ASSUME IInv, [Next]_vars PROVE [Promise!Next]_Promise!vars
    OBVIOUS
  <2> USE CallersAssumption DEF Callers, Terminal
  <2> DEFINE Told(w) == IF pc[w] # "done" THEN "nothing"
                        ELSE IF result[w] = "approved" THEN "approved" ELSE "refused"
             Verdict == IF status \in Terminal THEN status ELSE "none"
  <2>1. ASSUME Verdict' = Verdict, \A w \in Waiters : Told(w)' = Told(w)
        PROVE  UNCHANGED Promise!vars
    BY <2>1 DEF Promise!vars
  <2>2. ASSUME NEW v \in Terminal, Verdict = "none", Verdict' = v, \A w \in Waiters : Told(w)' = Told(w)
        PROVE  Promise!Next
    BY <2>2 DEF Promise!Next, Promise!Decide, Promise!Verdicts
  <2>3. ASSUME NEW w \in Waiters, Verdict' = Verdict, Told(w) = "nothing", Told(w)' = "refused",
               \A x \in Waiters \ {w} : Told(x)' = Told(x)
        PROVE  Promise!Next
    <3>1. Promise!TellRefused(w)
      BY <2>3 DEF Promise!TellRefused
    <3> QED
      BY <3>1 DEF Promise!Next
  <2>4. ASSUME NEW w \in Waiters, Verdict' = Verdict, Verdict = "approved", Told(w) = "nothing",
               Told(w)' = "approved", \A x \in Waiters : Told(x) # "approved",
               \A x \in Waiters \ {w} : Told(x)' = Told(x)
        PROVE  Promise!Next
    <3>1. Promise!TellApproved(w)
      BY <2>4 DEF Promise!TellApproved
    <3> QED
      BY <3>1 DEF Promise!Next
  <2>5. CASE RequestApproval \/ Deadline \/ CleanupExpired \/ UNCHANGED vars
    BY <2>1, <2>5 DEF RequestApproval, Deadline, CleanupExpired, vars
  <2>6. ASSUME NEW d \in Deciders, NEW v \in {"approved", "rejected"}, Resolve(d, v) PROVE Promise!Next
    BY <2>2, <2>6 DEF Resolve, Conclude, IInv, TypeOK
  <2>7. ASSUME NEW d \in Deciders, ResolveRefused(d) PROVE UNCHANGED Promise!vars
    BY <2>1, <2>7 DEF ResolveRefused, IInv, TypeOK
  <2>8. ASSUME NEW c \in Callers, Send(c) PROVE UNCHANGED Promise!vars
    BY <2>1, <2>8 DEF Send, IInv, TypeOK
  <2>9. ASSUME NEW c \in Callers, Forget(c) PROVE [Promise!Next]_Promise!vars
    <3>1. CASE c \in Deciders
      BY <2>1, <2>9, <3>1 DEF Forget, IInv, TypeOK
    <3>2. CASE c \in Waiters
      BY <2>3, <2>9, <3>2 DEF Forget, IInv, TypeOK, GivingUp
    <3> QED
      BY <3>1, <3>2
  <2>10. ASSUME NEW w \in Waiters, WaitLookup(w) \/ WaitCheck(w) \/ WaitTimeout(w)
         PROVE  [Promise!Next]_Promise!vars
    <3>1. CASE pc'[w] = "done"
      BY <2>3, <2>10, <3>1 DEF WaitLookup, WaitCheck, WaitTimeout, Return, IInv, TypeOK
    <3>2. CASE pc'[w] # "done"
      BY <2>1, <2>10, <3>2 DEF WaitLookup, WaitCheck, WaitTimeout, Return, IInv, TypeOK
    <3> QED
      BY <3>1, <3>2
  <2>11. ASSUME NEW w \in Waiters, WaitCancelled(w) PROVE Promise!Next
    BY <2>3, <2>11 DEF WaitCancelled, Return, IInv, TypeOK
  <2>12. ASSUME NEW w \in Waiters, WaitReceive(w) PROVE Promise!Next
    <3>1. Head(channel) = Message /\ \A x \in Waiters : ~Read(x)
      BY <2>12 DEF WaitReceive, IInv, OneMessage
    <3>2. CASE Message = "approved"
      BY <2>4, <2>12, <3>1, <3>2 DEF WaitReceive, Return, Message, Read, Received, IInv, TypeOK
    <3>3. CASE Message # "approved"
      BY <2>3, <2>12, <3>1, <3>3 DEF WaitReceive, Return, IInv, TypeOK
    <3> QED
      BY <3>2, <3>3
  <2>13. ASSUME NEW w \in Waiters, Expire(w) PROVE [Promise!Next]_Promise!vars
    <3>1. CASE Conclude(w, "expired")
      BY <2>2, <2>13, <3>1 DEF Expire, Conclude, IInv, TypeOK, Undecided
    <3>2. CASE ~Conclude(w, "expired")
      BY <2>3, <2>13, <3>2 DEF Expire, IInv, TypeOK, GivingUp
    <3> QED
      BY <3>1, <3>2
  <2> QED
    BY <2>5, <2>6, <2>7, <2>8, <2>9, <2>10, <2>11, <2>12, <2>13 DEF Next, DeciderStep, WaiterStep
<1> QED
  BY <1>1, <1>2, Invariance, PTL DEF Spec, ImplementsPromise, Promise!Spec
=============================================================================

---------------------------- MODULE Cluster_proofs ----------------------------
(***************************************************************************)
(* What the two components that deal with several places guarantee: the    *)
(* failover manager, which moves the system between regions, and the       *)
(* manager of device state, which every pod caches.                        *)
(*                                                                         *)
(* The failover manager, for every number of events, crashes and rollbacks *)
(* at one time: the invariant ties the status of an event to what its      *)
(* request is doing.  An event that waits or was rejected is executed by   *)
(* nobody, an execution that has not begun is the first, and a rollback is *)
(* of an event that exists.                                                *)
(***************************************************************************)
EXTENDS DrFailover, DeviceState, FiniteSetTheorems, TLAPS

Fresh == \A e \in Events : e > seq => status[e] = "none" /\ exec[e] = "no" /\ runs[e] = 0

Waiting == \A e \in Events : status[e] \in {"pending", "none"} => exec[e] = "no" /\ runs[e] = 0

Rejected == \A e \in Events : status[e] = "rejected" => exec[e] = "no"

FirstRun == \A e \in Events : exec[e] = "start" => runs[e] = 0

OfAnEvent == \A c \in Rollbacks : back[c].at # "no" => back[c].event \in 1 .. seq

IInv == TypeOK /\ Fresh /\ Waiting /\ Rejected /\ FirstRun /\ OfAnEvent /\ ApprovedOnce /\ NoStuckFlag

\* The invariant holds before the first request.
LEMMA InitIInv == Init => IInv
<1> SUFFICES ASSUME Init PROVE IInv
  OBVIOUS
<1>1. TypeOK
  <2>1. seq \in 0 .. MaxEvents /\ activeFailover \in 0 .. seq /\ crashes \in 0 .. MaxCrashes
    BY FailoverAssumption DEF Init
  <2>2. status \in [Events -> Statuses] /\ exec \in [Events -> Steps]
    BY DEF Init, Statuses, Steps
  <2>3. back \in [Rollbacks -> [event : 0 .. MaxEvents, at : BackSteps]]
    BY FailoverAssumption DEF Init, NoCall, BackSteps
  <2>4. inProgress \in BOOLEAN /\ done \in [Events -> SUBSET Kinds] /\ runs \in [Events -> Nat]
    BY DEF Init
  <2> QED  BY <2>1, <2>2, <2>3, <2>4 DEF TypeOK
<1>2. Fresh /\ Waiting /\ Rejected /\ FirstRun /\ OfAnEvent /\ ApprovedOnce /\ NoStuckFlag
  BY DEF Init, NoCall, Fresh, Waiting, Rejected, FirstRun, OfAnEvent, ApprovedOnce, NoStuckFlag
<1> QED  BY <1>1, <1>2 DEF IInv

\* Operations of administrators keep the invariant.
LEMMA AdminKeeps ==
  ASSUME IInv, InitiateFailover \/ \E e \in Events : ApproveFailover(e) \/ RejectFailover(e)
  PROVE  IInv'
<1> USE FailoverAssumption
<1> USE DEF IInv, TypeOK, Fresh, Waiting, Rejected, FirstRun, OfAnEvent, ApprovedOnce,
            NoStuckFlag, Executing, Events, Kinds, Statuses, Steps
<1>1. CASE InitiateFailover
  BY <1>1 DEF InitiateFailover
<1>2. ASSUME NEW e \in Events, ApproveFailover(e) PROVE IInv'
  BY <1>2 DEF ApproveFailover
<1>3. ASSUME NEW e \in Events, RejectFailover(e) PROVE IInv'
  BY <1>3 DEF RejectFailover
<1> QED  BY <1>1, <1>2, <1>3

\* Steps of an execution keep the invariant.
LEMMA ExecKeeps ==
  ASSUME IInv, NEW e \in Events, ExecStep(e)
  PROVE  IInv'
<1> USE FailoverAssumption
<1> USE DEF IInv, TypeOK, Fresh, Waiting, Rejected, FirstRun, OfAnEvent, ApprovedOnce,
            NoStuckFlag, Executing, Events, Kinds, Statuses, Steps
<1>1. CASE Begin(e)
  BY <1>1 DEF Begin
<1>2. CASE Succeed(e)
  BY <1>2 DEF Succeed, Published, After
<1>3. CASE Fail(e)
  BY <1>3 DEF Fail
<1>4. CASE FailFailover(e)
  <2>0. e <= seq
    BY <1>4 DEF FailFailover
  <2>1. TypeOK'
    <3>1. (/\ status \in [Events -> Statuses]
           /\ exec \in [Events -> Steps])'
      BY <1>4 DEF FailFailover
    <3>2. (seq \in 0 .. MaxEvents /\ activeFailover \in 0 .. seq)'
      BY <1>4, <2>0 DEF FailFailover
    <3>3. (/\ inProgress \in BOOLEAN /\ done \in [Events -> SUBSET Kinds]
           /\ runs \in [Events -> Nat] /\ crashes \in 0 .. MaxCrashes)'
      BY <1>4 DEF FailFailover
    <3>4. (back \in [Rollbacks -> [event : 0 .. MaxEvents, at : BackSteps]])'
      BY <1>4 DEF FailFailover
    <3> QED  BY <3>1, <3>2, <3>3, <3>4
  <2>2. (Fresh /\ Waiting /\ Rejected /\ FirstRun /\ ApprovedOnce)'
    BY <1>4, <2>0 DEF FailFailover
  <2>3. (OfAnEvent /\ NoStuckFlag)'
    BY <1>4 DEF FailFailover
  <2> QED  BY <2>1, <2>2, <2>3
<1>5. CASE Complete(e)
  <2>0. e <= seq
    BY <1>5 DEF Complete
  <2>1. TypeOK'
    <3>1. (/\ status \in [Events -> Statuses]
           /\ exec \in [Events -> Steps])'
      BY <1>5 DEF Complete
    <3>2. (seq \in 0 .. MaxEvents /\ activeFailover \in 0 .. seq)'
      BY <1>5, <2>0 DEF Complete
    <3>3. (/\ inProgress \in BOOLEAN /\ done \in [Events -> SUBSET Kinds]
           /\ runs \in [Events -> Nat] /\ crashes \in 0 .. MaxCrashes)'
      BY <1>5 DEF Complete
    <3>4. (back \in [Rollbacks -> [event : 0 .. MaxEvents, at : BackSteps]])'
      BY <1>5 DEF Complete
    <3> QED  BY <3>1, <3>2, <3>3, <3>4
  <2>2. (Fresh /\ Waiting /\ Rejected /\ FirstRun /\ ApprovedOnce)'
    BY <1>5, <2>0 DEF Complete
  <2>3. (OfAnEvent /\ NoStuckFlag)'
    BY <1>5 DEF Complete
  <2> QED  BY <2>1, <2>2, <2>3
<1> QED  BY <1>1, <1>2, <1>3, <1>4, <1>5 DEF ExecStep

\* A rollback, at its start and at every step, keeps the invariant: it touches no execution.
LEMMA BackKeeps ==
  ASSUME IInv, NEW c \in Rollbacks, BackStep(c) \/ \E e \in Events : RollbackFailover(c, e)
  PROVE  IInv'
<1> USE FailoverAssumption
<1>0. /\ TypeOK /\ OfAnEvent
      /\ back[c] \in [event : 0 .. MaxEvents, at : BackSteps]
  BY DEF IInv, TypeOK
<1>1. UNCHANGED <<seq, exec, done, runs, crashes>>
  BY DEF BackStep, Undo, UndoFails, MarkRolledBack, RolledBack, RollbackFailover
<1>2. TypeOK' /\ OfAnEvent'
  <2>1. \A entry \in [event : 0 .. MaxEvents, at : BackSteps] :
           (back' = [back EXCEPT ![c] = entry] /\ (entry.at # "no" => entry.event \in 1 .. seq))
              => /\ (back \in [Rollbacks -> [event : 0 .. MaxEvents, at : BackSteps]])'
                 /\ OfAnEvent'
    BY <1>0, <1>1 DEF TypeOK, OfAnEvent
  <2>2. \E entry \in [event : 0 .. MaxEvents, at : BackSteps] :
           back' = [back EXCEPT ![c] = entry] /\ (entry.at # "no" => entry.event \in 1 .. seq)
    <3>1. ASSUME NEW e \in Events, RollbackFailover(c, e)
          PROVE  /\ [event |-> e, at |-> "db"] \in [event : 0 .. MaxEvents, at : BackSteps]
                 /\ back' = [back EXCEPT ![c] = [event |-> e, at |-> "db"]] /\ e \in 1 .. seq
      BY <1>0, <3>1 DEF RollbackFailover, TypeOK, Events, BackSteps, Kinds
    <3>2. ASSUME UndoFails(c) \/ RolledBack(c)
          PROVE  /\ NoCall \in [event : 0 .. MaxEvents, at : BackSteps] /\ NoCall.at = "no"
                 /\ back' = [back EXCEPT ![c] = NoCall]
      BY <3>2 DEF UndoFails, RolledBack, NoCall, BackSteps
    <3>3. ASSUME Undo(c) \/ MarkRolledBack(c)
          PROVE  \E at \in BackSteps : /\ back' = [back EXCEPT ![c].at = at]
                                       /\ back[c].event \in 1 .. seq
      <4>1. \A k \in Kinds : AfterBack(k) \in BackSteps
        BY DEF Kinds, AfterBack, BackSteps
      <4>2. back[c].at # "no"
        BY <3>3 DEF Undo, MarkRolledBack, Kinds
      <4>3. "marked" \in BackSteps
        BY DEF BackSteps
      <4> QED  BY <1>0, <3>3, <4>1, <4>2, <4>3 DEF Undo, MarkRolledBack, OfAnEvent
    <3>4. ASSUME NEW at \in BackSteps, back' = [back EXCEPT ![c].at = at]
          PROVE  /\ [back[c] EXCEPT !.at = at] \in [event : 0 .. MaxEvents, at : BackSteps]
                 /\ back' = [back EXCEPT ![c] = [back[c] EXCEPT !.at = at]]
                 /\ [back[c] EXCEPT !.at = at].event = back[c].event
      BY <1>0, <3>4
    <3>5. CASE \E e \in Events : RollbackFailover(c, e)
      <4>1. PICK e \in Events : RollbackFailover(c, e)
        BY <3>5
      <4> QED  BY <3>1, <4>1
    <3>6. CASE UndoFails(c) \/ RolledBack(c)
      BY <3>2, <3>6
    <3>7. CASE Undo(c) \/ MarkRolledBack(c)
      <4>1. PICK at \in BackSteps : back' = [back EXCEPT ![c].at = at] /\ back[c].event \in 1 .. seq
        BY <3>3, <3>7
      <4> QED  BY <3>4, <4>1
    <3> QED  BY <3>5, <3>6, <3>7 DEF BackStep
  <2>3. (activeFailover \in 0 .. seq)'
    <3>1. CASE RolledBack(c)
      <4>1. back[c].event \in 1 .. seq /\ activeFailover' = back[c].event
        BY <1>0, <3>1 DEF RolledBack, OfAnEvent
      <4> QED  BY <1>0, <1>1, <4>1 DEF TypeOK
    <3>2. CASE activeFailover' = activeFailover
      BY <1>0, <1>1, <3>2 DEF TypeOK
    <3> QED  BY <3>1, <3>2 DEF BackStep, Undo, UndoFails, MarkRolledBack, RollbackFailover
  <2>4. (status \in [Events -> Statuses] /\ inProgress \in BOOLEAN)'
    BY <1>0 DEF TypeOK, Statuses, BackStep, Undo, UndoFails, MarkRolledBack, RolledBack, RollbackFailover
  <2> QED  BY <1>0, <1>1, <2>1, <2>2, <2>3, <2>4 DEF TypeOK
<1>3. \A e \in Events : status'[e] = status[e] \/ (status'[e] = "rolled_back" /\ e <= seq)
  <2>1. CASE MarkRolledBack(c)
    <3>1. status' = [status EXCEPT ![back[c].event] = "rolled_back"] /\ back[c].event \in 1 .. seq
      BY <1>0, <2>1 DEF MarkRolledBack, OfAnEvent
    <3> QED  BY <1>0, <3>1 DEF TypeOK
  <2>2. CASE status' = status
    BY <2>2
  <2> QED  BY <2>1, <2>2 DEF BackStep, Undo, UndoFails, RolledBack, RollbackFailover
<1>4. inProgress' = inProgress \/ inProgress' = FALSE
  BY DEF BackStep, Undo, UndoFails, MarkRolledBack, RolledBack, RollbackFailover
<1>5. (Fresh /\ Waiting /\ Rejected /\ FirstRun /\ ApprovedOnce)'
  <2>1. Fresh'
    BY <1>0, <1>1, <1>3 DEF IInv, TypeOK, Fresh, Events
  <2> QED  BY <1>1, <1>3, <2>1 DEF IInv, Waiting, Rejected, FirstRun, ApprovedOnce
<1>6. NoStuckFlag'
  BY <1>1, <1>4 DEF IInv, NoStuckFlag, Executing
<1> QED  BY <1>2, <1>5, <1>6 DEF IInv

\* The end of the process keeps the invariant.
LEMMA CrashKeeps ==
  ASSUME IInv, Crash
  PROVE  IInv'
<1> USE FailoverAssumption
<1> USE DEF IInv, TypeOK, Fresh, Waiting, Rejected, FirstRun, OfAnEvent, ApprovedOnce,
            NoStuckFlag, Executing, Events, Kinds, Statuses, Steps
<1>1. TypeOK'
  <2>1. (/\ seq \in 0 .. MaxEvents /\ activeFailover \in 0 .. seq /\ crashes \in 0 .. MaxCrashes)'
    BY DEF Crash
  <2>2. (status \in [Events -> Statuses] /\ exec \in [Events -> Steps])'
    BY DEF Crash
  <2>3. (back \in [Rollbacks -> [event : 0 .. MaxEvents, at : BackSteps]])'
    BY DEF Crash, NoCall, BackSteps
  <2>4. (/\ inProgress \in BOOLEAN /\ done \in [Events -> SUBSET Kinds] /\ runs \in [Events -> Nat])'
    BY DEF Crash
  <2> QED  BY <2>1, <2>2, <2>3, <2>4
<1>2. (Fresh /\ Waiting /\ Rejected /\ FirstRun /\ ApprovedOnce)'
  BY DEF Crash
<1>3. (OfAnEvent /\ NoStuckFlag)'
  BY DEF Crash, NoCall
<1> QED  BY <1>1, <1>2, <1>3

\* The invariant is inductive.
LEMMA NextIInv == IInv /\ [Next]_vars => IInv'
<1> SUFFICES ASSUME IInv, [Next]_vars PROVE IInv'
  OBVIOUS
<1>1. CASE UNCHANGED vars
  BY <1>1 DEF vars, IInv, TypeOK, Fresh, Waiting, Rejected, FirstRun, OfAnEvent, ApprovedOnce,
              NoStuckFlag, Executing
<1>2. CASE Next
  BY <1>2, AdminKeeps, ExecKeeps, BackKeeps, CrashKeeps DEF Next
<1> QED  BY <1>1, <1>2

\* Every reachable state satisfies the invariant.
THEOREM Inductive == Spec => []IInv
  BY InitIInv, NextIInv, PTL DEF Spec

\* Every reachable state is well formed.
THEOREM TypeSafe == Spec => []TypeOK
<1>1. IInv => TypeOK
  BY DEF IInv
<1> QED  BY <1>1, Inductive, PTL

\* However administrators interleave, an approved failover is executed once
\* (ApproveFailover and the lock it gives up before executeFailover).
THEOREM OneExecution == Spec => []ApprovedOnce
<1>1. IInv => ApprovedOnce
  BY DEF IInv
<1> QED  BY <1>1, Inductive, PTL

\* The health report says "failover in progress" only while one is
\* (SetFailoverInProgress on every way out of an execution).
THEOREM FlagCleared == Spec => []NoStuckFlag
<1>1. IInv => NoStuckFlag
  BY DEF IInv
<1> QED  BY <1>1, Inductive, PTL

\* What was rejected is not executed afterwards (RejectFailover, ApproveFailover).
THEOREM RejectionFinal == Spec => RejectedNeverRuns
<1>1. IInv /\ [Next]_vars =>
        [\A e \in Events : status[e] = "rejected" => status'[e] \in {"rejected", "rolled_back", "lost"}]_vars
  <2> SUFFICES ASSUME IInv, Next, NEW f \in Events, status[f] = "rejected"
               PROVE  status'[f] \in {"rejected", "rolled_back", "lost"}
    OBVIOUS
  <2>0. exec[f] = "no" /\ f <= seq /\ seq \in Nat /\ status \in [Events -> Statuses]
    BY FailoverAssumption DEF IInv, TypeOK, Rejected, Fresh, Events
  <2>1. CASE InitiateFailover
    BY <2>0, <2>1 DEF InitiateFailover, Events
  <2>2. ASSUME NEW e \in Events, ApproveFailover(e) \/ RejectFailover(e)
        PROVE  status'[f] \in {"rejected", "rolled_back", "lost"}
    BY <2>0, <2>2 DEF ApproveFailover, RejectFailover
  <2>3. ASSUME NEW e \in Events, ExecStep(e)
        PROVE  status'[f] \in {"rejected", "rolled_back", "lost"}
    BY <2>0, <2>3 DEF ExecStep, Begin, Succeed, Fail, FailFailover, Complete, Kinds
  <2>4. ASSUME NEW c \in Rollbacks, BackStep(c) \/ \E e \in Events : RollbackFailover(c, e)
        PROVE  status'[f] \in {"rejected", "rolled_back", "lost"}
    BY <2>0, <2>4 DEF BackStep, Undo, UndoFails, MarkRolledBack, RolledBack, RollbackFailover
  <2>5. CASE Crash
    BY <2>0, <2>5 DEF Crash
  <2> QED  BY <2>1, <2>2, <2>3, <2>4, <2>5 DEF Next
<1> QED  BY <1>1, Inductive, PTL DEF Spec, RejectedNeverRuns
-----------------------------------------------------------------------------
(* Device state: what holds for any number of goroutines on any pods.  A    *)
(* pod that serves the device with no goroutine of its own has the last     *)
(* revision as soon as its watcher has delivered all.                       *)

Delivered(p) == position[p] > Len(revisions)

Positions == \A p \in Pods : position[p] <= Len(revisions) + 1

ReadersAgree == \A p \in Readers : Delivered(p) => Cached(p) = Latest

\* Who works on an object has a pointer to it.
Pointers == \A g \in Goroutines : pc[g] \in {"fill", "mutate", "put", "store"} => ref[g] # Nil

\* The object behind a goroutine's pointer.
Got(g) == heap[PodOf[g]][ref[g]]

DeviceBase == DeviceTypeOK /\ Positions /\ ReadersAgree /\ Pointers

ProgramCounters == {"idle", "get", "fetch", "fill", "mutate", "put", "store", "delete", "evict"}

\* There are more objects than pointers, so nobody points to a new one.
LEMMA NewObjectIsFree ==
  ASSUME DeviceTypeOK, NEW p \in Pods
  PROVE  /\ NewObject(p) \in Objects /\ NewObject(p) # Nil
         /\ NewObject(p) # cache[p]
         /\ \A g \in Goroutines : PodOf[g] = p => NewObject(p) # ref[g]
<1> DEFINE n == Cardinality(Goroutines)
           refs == {ref[g] : g \in Goroutines}
<1>1. n \in Nat /\ IsFiniteSet(Goroutines)
  BY StateAssumption, FS_CardinalityType
<1>2. IsFiniteSet(refs) /\ Cardinality(refs) <= n /\ Cardinality(refs) \in Nat
  <2>1. ref \in Surjection(Goroutines, refs)
    BY DEF DeviceTypeOK, Surjection
  <2>2. IsFiniteSet(refs) /\ Cardinality(refs) <= n
    BY <1>1, <2>1, FS_Surjection
  <2> QED  BY <2>2, FS_CardinalityType
<1>3. /\ IsFiniteSet(refs \cup {cache[p]}) /\ Cardinality(refs \cup {cache[p]}) <= n + 1
      /\ Cardinality(refs \cup {cache[p]}) \in Nat
  <2>1. /\ IsFiniteSet(refs \cup {cache[p]})
        /\ Cardinality(refs \cup {cache[p]}) = IF cache[p] \in refs THEN Cardinality(refs) ELSE Cardinality(refs) + 1
    BY <1>2, FS_AddElement
  <2> QED  BY <1>1, <1>2, <2>1
<1>4. Cardinality(Objects) = n + 2
  <2>1. Cardinality(1 .. n + 2) = (n + 2) - 1 + 1
    BY <1>1, FS_Interval
  <2> QED  BY <1>1, <2>1 DEF Objects
<1>5. ~(Objects \subseteq refs \cup {cache[p]})
  <2>1. SUFFICES ASSUME Objects \subseteq refs \cup {cache[p]} PROVE FALSE
    OBVIOUS
  <2>2. Cardinality(Objects) <= Cardinality(refs \cup {cache[p]})
    BY <1>3, <2>1, FS_Subset
  <2> QED  BY <1>1, <1>3, <1>4, <2>2
<1>6. \E o \in Objects : o # cache[p] /\ \A k \in Goroutines : PodOf[k] = p => o # ref[k]
  BY <1>5
<1>7. Nil \notin Objects
  BY <1>1 DEF Objects, Nil
<1> QED  BY <1>6, <1>7 DEF NewObject

\* What somebody points to survives; the rest is blank.
LEMMA CollectKeeps ==
  ASSUME NEW h \in [Pods -> [Objects -> Device]], Collect(h)
  PROVE  /\ heap' \in [Pods -> [Objects -> Device]]
         /\ \A p \in Pods : \A o \in Objects :
               (o = cache'[p] \/ \E g \in Goroutines : PodOf[g] = p /\ o = ref'[g]) => heap'[p][o] = h[p][o]
<1>1. Blank \in Device
  BY StateAssumption DEF Blank, Device
<1> QED  BY <1>1 DEF Collect

\* So does what the caches point to.
LEMMA CollectKeepsCached ==
  ASSUME NEW h \in [Pods -> [Objects -> Device]], Collect(h),
         cache' \in [Pods -> Objects \cup {Nil}]
  PROVE  \A p \in Pods : cache'[p] # Nil => heap'[p][cache'[p]] = h[p][cache'[p]]
BY CollectKeeps

\* The last revision is one, when there is one.
LEMMA LatestType ==
  ASSUME DeviceTypeOK PROVE Latest \in Device \cup {Deleted}
BY DEF DeviceTypeOK, Latest, Last

\* A new revision is the last.
LEMMA AppendIsLatest ==
  ASSUME DeviceTypeOK, NEW entry \in Device \cup {Deleted}, revisions' = Append(revisions, entry)
  PROVE  /\ revisions' \in Seq(Device \cup {Deleted})
         /\ Latest' = entry /\ Len(revisions') = Len(revisions) + 1
BY DEF DeviceTypeOK, Latest, Last

\* What a goroutine does leaves the readers alone; of a new revision their watchers have
\* not been told.
LEMMA ReadersKeep ==
  ASSUME DeviceBase, UNCHANGED position,
         revisions' = revisions \/ \E entry \in Device \cup {Deleted} : revisions' = Append(revisions, entry),
         \A p \in Readers : Cached(p)' = Cached(p)
  PROVE  Positions' /\ ReadersAgree'
<1>0. DeviceTypeOK /\ Readers \subseteq Pods
  BY DEF DeviceBase, Readers
<1>1. CASE revisions' = revisions
  BY <1>1 DEF DeviceBase, Positions, ReadersAgree, Delivered, Latest
<1>2. CASE \E entry \in Device \cup {Deleted} : revisions' = Append(revisions, entry)
  <2>1. Len(revisions') = Len(revisions) + 1 /\ Len(revisions) \in Nat
    BY <1>0, <1>2, AppendIsLatest DEF DeviceTypeOK
  <2>2. \A p \in Pods : position'[p] = position[p] /\ position[p] \in Nat /\ position[p] <= Len(revisions) + 1
    BY <1>0 DEF DeviceBase, Positions, DeviceTypeOK
  <2> QED  BY <1>0, <2>1, <2>2 DEF Positions, ReadersAgree, Delivered
<1> QED  BY <1>1, <1>2

\* What a method makes of a device is a device.
LEMMA MutatedType ==
  ASSUME DeviceTypeOK, NEW c, NEW dev \in Device PROVE Mutated(c, dev) \in Device
<1>1. now \in 0 .. MaxTime
  BY DEF DeviceTypeOK
<1> QED  BY <1>1 DEF Mutated, Device

\* The clock, the reaper's look and the start of a call touch no cache.
LEMMA CallsKeep ==
  ASSUME DeviceBase,
         \/ Tick
         \/ \E g \in Goroutines : ReaperCheck(g) \/ GetCached(g) \/ \E c \in Offered : BeginCall(g, c)
  PROVE  DeviceBase' /\ UNCHANGED <<revisions, cache, heap, position, payload, unsaved>>
<1>0. DeviceTypeOK
  BY DEF DeviceBase
<1>1. UNCHANGED <<revisions, cache, heap, position, payload, unsaved>>
  BY DEF Tick, ReaperCheck, GetCached, BeginCall
<1>2. DeviceTypeOK' /\ Pointers'
  <2>1. CASE Tick
    BY <1>0, <2>1, StateAssumption DEF Tick, DeviceTypeOK, DeviceBase, Pointers
  <2>2. ASSUME NEW g \in Goroutines, ReaperCheck(g) \/ \E c \in Offered : BeginCall(g, c)
        PROVE  DeviceTypeOK' /\ Pointers'
    <3>1. PICK at \in {"get", "delete"}, c \in Calls :
             /\ pc' = [pc EXCEPT ![g] = at] /\ call' = [call EXCEPT ![g] = c]
             /\ UNCHANGED <<now, revisions, cache, heap, position, ref, payload, unsaved>>
      BY <2>2 DEF ReaperCheck, BeginCall, Calls
    <3>2. DeviceTypeOK'
      BY <1>0, <3>1 DEF DeviceTypeOK
    <3>3. Pointers'
      BY <1>0, <3>1 DEF DeviceTypeOK, DeviceBase, Pointers
    <3> QED  BY <3>2, <3>3
  <2>3. ASSUME NEW g \in Goroutines, GetCached(g) PROVE DeviceTypeOK' /\ Pointers'
    BY <1>0, <2>3, StateAssumption DEF GetCached, DeviceTypeOK, DeviceBase, Pointers
  <2> QED  BY <2>1, <2>2, <2>3
<1>3. \A p \in Readers : Cached(p)' = Cached(p)
  BY <1>1 DEF Cached
<1> QED  BY <1>1, <1>2, <1>3, ReadersKeep DEF DeviceBase

\* A goroutine that returns points to nothing.
LEMMA FinishKeeps ==
  ASSUME DeviceBase, NEW g \in Goroutines, Finish(g)
  PROVE  /\ pc' \in [Goroutines -> ProgramCounters] /\ call' \in [Goroutines -> Calls]
         /\ ref' \in [Goroutines -> Objects \cup {Nil}] /\ payload' \in [Goroutines -> Device]
         /\ Pointers' /\ pc'[g] = "idle"
<1>1. DeviceTypeOK /\ Blank \in Device /\ "none" \in Calls
  BY StateAssumption DEF DeviceBase, Blank, Device, Calls
<1>2. Pointers'
  BY <1>1 DEF DeviceBase, DeviceTypeOK, Pointers, Finish
<1> QED  BY <1>1, <1>2 DEF Finish, DeviceTypeOK, ProgramCounters

\* A miss gets an object of its own: what the bucket has, or a new device.
LEMMA FetchKeeps ==
  ASSUME DeviceBase, NEW g \in Goroutines, FetchFromKV(g)
  PROVE  DeviceBase' /\ \A q \in Pods : Cached(q)' = Cached(q)
<1>0. DeviceTypeOK /\ PodOf[g] \in Pods
  BY StateAssumption DEF DeviceBase
<1>1. PICK p \in Pods, o \in Objects : p = PodOf[g] /\ o = NewObject(p)
  BY <1>0, NewObjectIsFree
<1>2. o # cache[p] /\ o # Nil
  BY <1>0, <1>1, NewObjectIsFree
<1>3. UNCHANGED <<now, revisions, cache, position, unsaved>>
  BY DEF FetchFromKV
<1>4. Blank \in Device /\ Latest \in Device \cup {Deleted}
  BY <1>0, LatestType, StateAssumption DEF Blank, Device
<1>5. CASE heap' = heap /\ Finish(g)
  <2>1. DeviceTypeOK' /\ Pointers'
    BY <1>0, <1>3, <1>5, FinishKeeps DEF DeviceTypeOK, ProgramCounters
  <2>2. \A q \in Pods : Cached(q)' = Cached(q)
    BY <1>3, <1>5 DEF Cached
  <2> QED  BY <1>3, <2>1, <2>2, ReadersKeep DEF Readers, DeviceBase
<1>6. CASE \E entry \in {Latest, Deleted} :
             /\ ref' = [ref EXCEPT ![g] = o]
             /\ heap' = [heap EXCEPT ![p][o] = IF entry = Deleted THEN Blank ELSE entry]
             /\ pc' = [pc EXCEPT ![g] = IF entry = Deleted THEN "mutate" ELSE "fill"]
             /\ UNCHANGED <<call, payload>>
  <2>1. PICK entry \in {Latest, Deleted} :
             /\ ref' = [ref EXCEPT ![g] = o]
             /\ heap' = [heap EXCEPT ![p][o] = IF entry = Deleted THEN Blank ELSE entry]
             /\ pc' = [pc EXCEPT ![g] = IF entry = Deleted THEN "mutate" ELSE "fill"]
             /\ UNCHANGED <<call, payload>>
    BY <1>6
  <2>2. DeviceTypeOK'
    BY <1>0, <1>1, <1>3, <1>4, <2>1 DEF DeviceTypeOK
  <2>3. Pointers'
    BY <1>0, <1>2, <2>1 DEF DeviceBase, DeviceTypeOK, Pointers
  <2>4. \A q \in Pods : Cached(q)' = Cached(q)
    <3> SUFFICES ASSUME NEW q \in Pods PROVE Cached(q)' = Cached(q)
      OBVIOUS
    <3>1. cache[q] # Nil => heap'[q][cache[q]] = heap[q][cache[q]]
      BY <1>0, <1>2, <2>1 DEF DeviceTypeOK
    <3> QED  BY <1>3, <3>1 DEF Cached
  <2> QED  BY <1>3, <2>2, <2>3, <2>4, ReadersKeep DEF Readers, DeviceBase
<1> QED  BY <1>1, <1>5, <1>6 DEF FetchFromKV

\* A goroutine stores its pointer in its own pod's cache.
LEMMA StoreKeeps ==
  ASSUME DeviceBase, NEW g \in Goroutines, FillCache(g) \/ StorePointer(g)
  PROVE  /\ DeviceBase' /\ Cached(PodOf[g])' = Got(g)
         /\ \A q \in Pods \ {PodOf[g]} : Cached(q)' = Cached(q)
<1>0. DeviceTypeOK /\ heap \in [Pods -> [Objects -> Device]]
  BY DEF DeviceBase, DeviceTypeOK
<1>1. PICK p \in Pods : p = PodOf[g]
  BY StateAssumption
<1>2. PICK o \in Objects : o = ref[g] /\ o # Nil
  BY <1>0 DEF DeviceBase, Pointers, DeviceTypeOK, FillCache, StorePointer
<1>3. /\ cache' = [cache EXCEPT ![p] = o] /\ Collect(heap)
      /\ UNCHANGED <<now, revisions, position, unsaved>>
      /\ (pc' = [pc EXCEPT ![g] = "mutate"] /\ UNCHANGED <<call, ref, payload>>) \/ Finish(g)
  BY <1>1, <1>2 DEF FillCache, StorePointer
<1>4. /\ heap' \in [Pods -> [Objects -> Device]] /\ cache' \in [Pods -> Objects \cup {Nil}]
      /\ \A q \in Pods : cache'[q] # Nil => heap'[q][cache'[q]] = heap[q][cache'[q]]
  <2>1. cache' \in [Pods -> Objects \cup {Nil}]
    BY <1>0, <1>3 DEF DeviceTypeOK
  <2> QED  BY <1>0, <1>3, <2>1, CollectKeeps, CollectKeepsCached
<1>5. /\ pc' \in [Goroutines -> ProgramCounters] /\ call' \in [Goroutines -> Calls]
      /\ ref' \in [Goroutines -> Objects \cup {Nil}] /\ payload' \in [Goroutines -> Device]
      /\ Pointers'
  <2>1. CASE pc' = [pc EXCEPT ![g] = "mutate"] /\ UNCHANGED <<call, ref, payload>>
    BY <1>0, <1>2, <2>1 DEF DeviceTypeOK, DeviceBase, Pointers, ProgramCounters
  <2> QED  BY <1>3, <2>1, FinishKeeps
<1>6. DeviceTypeOK'
  BY <1>0, <1>3, <1>4, <1>5 DEF DeviceTypeOK, ProgramCounters
<1>7. Cached(p)' = Got(g) /\ \A q \in Pods \ {p} : Cached(q)' = Cached(q)
  BY <1>0, <1>1, <1>2, <1>3, <1>4 DEF Cached, DeviceTypeOK, Got
<1>8. \A q \in Readers : Cached(q)' = Cached(q)
  BY <1>1, <1>7 DEF Readers
<1> QED  BY <1>1, <1>3, <1>5, <1>6, <1>7, <1>8, ReadersKeep DEF DeviceBase

\* A return without a put: the caches are as they were.
LEMMA ReturnKeeps ==
  ASSUME DeviceBase, NEW g \in Goroutines, Finish(g), Collect(heap),
         UNCHANGED <<now, revisions, cache, position>>, unsaved' \subseteq Pods
  PROVE  DeviceBase' /\ pc'[g] = "idle" /\ \A q \in Pods : Cached(q)' = Cached(q)
<1>0. DeviceTypeOK /\ heap \in [Pods -> [Objects -> Device]] /\ cache' \in [Pods -> Objects \cup {Nil}]
  BY DEF DeviceBase, DeviceTypeOK
<1>1. \A q \in Pods : Cached(q)' = Cached(q)
  BY <1>0, CollectKeepsCached DEF Cached
<1>2. DeviceTypeOK' /\ Pointers' /\ pc'[g] = "idle"
  BY <1>0, FinishKeeps, CollectKeeps DEF DeviceTypeOK, ProgramCounters
<1> QED  BY <1>1, <1>2, ReadersKeep DEF DeviceBase, Readers

\* The object behind the pointer is changed, and a copy of it made.
LEMMA MutateKeeps ==
  ASSUME DeviceBase, NEW g \in Goroutines, Mutate(g)
  PROVE  /\ DeviceBase'
         /\ \/ pc'[g] = "idle" /\ \A q \in Pods : Cached(q)' = Cached(q)
            \/ pc'[g] = "put" /\ Got(g)' = payload'[g]
<1>0. DeviceTypeOK /\ heap \in [Pods -> [Objects -> Device]]
  BY DEF DeviceBase, DeviceTypeOK
<1>1. PICK p \in Pods : p = PodOf[g]
  BY StateAssumption
<1>2. PICK o \in Objects : o = ref[g] /\ o # Nil
  BY <1>0 DEF DeviceBase, Pointers, Mutate, DeviceTypeOK
<1>3. PICK dev \in Device : dev = heap[p][o]
  BY <1>0
<1>4. CASE Skips(call[g], dev)
  <2>1. Finish(g) /\ UNCHANGED cache /\ Collect(heap) /\ UNCHANGED <<now, revisions, position, unsaved>>
    BY <1>1, <1>2, <1>3, <1>4 DEF Mutate
  <2>2. unsaved' \subseteq Pods
    BY <1>0, <2>1 DEF DeviceTypeOK
  <2> QED  BY <2>1, <2>2, ReturnKeeps
<1>5. CASE ~Skips(call[g], dev)
  <2>1. PICK new \in Device : new = Mutated(call[g], dev)
    BY <1>0, MutatedType
  <2>2. /\ heap' = [heap EXCEPT ![p][o] = new]
        /\ payload' = [payload EXCEPT ![g] = new]
        /\ pc' = [pc EXCEPT ![g] = "put"]
        /\ UNCHANGED <<cache, call, ref, now, revisions, position, unsaved>>
    BY <1>1, <1>2, <1>3, <1>5, <2>1 DEF Mutate
  <2>3. DeviceTypeOK'
    BY <1>0, <2>2 DEF DeviceTypeOK
  <2>4. Pointers'
    BY <1>0, <1>2, <2>2 DEF DeviceTypeOK, DeviceBase, Pointers
  <2>5. \A q \in Readers : Cached(q)' = Cached(q)
    BY <1>0, <1>1, <2>2 DEF Cached, Readers
  <2>6. pc'[g] = "put" /\ Got(g)' = payload'[g]
    BY <1>0, <1>1, <1>2, <2>2 DEF DeviceTypeOK, Got
  <2> QED  BY <2>2, <2>3, <2>4, <2>5, <2>6, ReadersKeep DEF DeviceBase
<1> QED  BY <1>4, <1>5

\* After a put or a delete marker no watcher has delivered all.
LEMMA PutKeeps ==
  ASSUME DeviceBase, NEW g \in Goroutines, Put(g) \/ DeleteFromKV(g)
  PROVE  /\ DeviceBase'
         /\ Put(g) => pc'[g] = "store" /\ Latest' = payload[g]
         /\ DeleteFromKV(g) => pc'[g] = "evict" /\ (PodOf[g] \in unsaved' \/ Latest' = Deleted)
<1>0. DeviceTypeOK /\ PodOf[g] \in Pods
  BY StateAssumption DEF DeviceBase
<1>1. UNCHANGED <<now, cache, heap, position, call, ref, payload>>
  BY DEF Put, DeleteFromKV
<1>2. /\ revisions' = revisions \/ \E entry \in Device \cup {Deleted} : revisions' = Append(revisions, entry)
      /\ unsaved' \subseteq Pods
  BY <1>0 DEF Put, DeleteFromKV, DeviceTypeOK
<1>3. revisions' \in Seq(Device \cup {Deleted})
  BY <1>0, <1>2, AppendIsLatest DEF DeviceTypeOK
<1>4. DeviceTypeOK'
  BY <1>0, <1>1, <1>2, <1>3 DEF DeviceTypeOK, Put, DeleteFromKV
<1>5. \A q \in Pods : Cached(q)' = Cached(q)
  BY <1>1 DEF Cached
<1>6. Positions' /\ ReadersAgree'
  BY <1>1, <1>2, <1>5, ReadersKeep DEF Readers
<1>7. Pointers'
  BY <1>0, <1>1 DEF Put, DeleteFromKV, DeviceBase, Pointers, DeviceTypeOK
<1>8. Put(g) => pc'[g] = "store" /\ Latest' = payload[g]
  BY <1>0, AppendIsLatest DEF Put, DeviceTypeOK
<1>9. DeleteFromKV(g) => pc'[g] = "evict" /\ (PodOf[g] \in unsaved' \/ Latest' = Deleted)
  BY <1>0, AppendIsLatest DEF DeleteFromKV, DeviceTypeOK
<1> QED  BY <1>4, <1>6, <1>7, <1>8, <1>9 DEF DeviceBase

\* The entry of the goroutine's own pod goes.
LEMMA EvictKeeps ==
  ASSUME DeviceBase, NEW g \in Goroutines, DeleteFromCache(g)
  PROVE  DeviceBase' /\ pc'[g] = "idle" /\ Cached(PodOf[g])' = Deleted
<1>0. DeviceTypeOK /\ heap \in [Pods -> [Objects -> Device]]
  BY DEF DeviceBase, DeviceTypeOK
<1>1. PICK p \in Pods : p = PodOf[g]
  BY StateAssumption
<1>2. /\ cache' = [cache EXCEPT ![p] = Nil] /\ Finish(g) /\ Collect(heap)
      /\ UNCHANGED <<now, revisions, position, unsaved>>
  BY <1>1 DEF DeleteFromCache
<1>3. cache' \in [Pods -> Objects \cup {Nil}]
  BY <1>0, <1>2 DEF DeviceTypeOK
<1>4. DeviceTypeOK' /\ Pointers' /\ pc'[g] = "idle"
  BY <1>0, <1>2, <1>3, FinishKeeps, CollectKeeps DEF DeviceTypeOK, ProgramCounters
<1>5. Cached(p)' = Deleted /\ \A q \in Pods \ {p} : Cached(q)' = Cached(q)
  BY <1>0, <1>2, <1>3, CollectKeepsCached DEF Cached, DeviceTypeOK
<1>6. \A q \in Readers : Cached(q)' = Cached(q)
  BY <1>1, <1>5 DEF Readers
<1> QED  BY <1>1, <1>2, <1>4, <1>5, <1>6, ReadersKeep DEF DeviceBase

\* What a watcher delivers last is the last revision; what a call holds is not touched.
LEMMA WatchKeeps ==
  ASSUME DeviceBase, NEW p \in Pods, Watch(p)
  PROVE  /\ DeviceBase' /\ (Delivered(p)' => Cached(p)' = Latest')
         /\ \A q \in Pods \ {p} : Cached(q)' = Cached(q) /\ position'[q] = position[q]
         /\ \A g \in Goroutines : ref[g] # Nil => Got(g)' = Got(g)
<1>1. /\ DeviceTypeOK /\ heap \in [Pods -> [Objects -> Device]] /\ Readers \subseteq Pods
      /\ revisions \in Seq(Device \cup {Deleted}) /\ Len(revisions) \in Nat /\ position[p] \in Nat \ {0}
  BY DEF DeviceBase, DeviceTypeOK, Readers
<1>2. PICK o \in Objects : /\ o = NewObject(p) /\ o # Nil /\ o # cache[p]
                           /\ \A g \in Goroutines : PodOf[g] = p => o # ref[g]
  BY <1>1, NewObjectIsFree
<1>3. PICK entry \in Device \cup {Deleted} : entry = revisions[position[p]]
  BY <1>1 DEF Watch
<1>4. /\ position[p] <= Len(revisions) /\ position' = [position EXCEPT ![p] = @ + 1]
      /\ UNCHANGED <<now, revisions, pc, call, ref, payload, unsaved>>
  BY DEF Watch
<1>5. PICK h \in [Pods -> [Objects -> Device]] :
         /\ Collect(h)
         /\ h = IF entry = Deleted THEN heap ELSE [heap EXCEPT ![p][o] = entry]
         /\ cache' = [cache EXCEPT ![p] = IF entry = Deleted THEN Nil ELSE o]
  <2>1. CASE entry = Deleted
    BY <1>1, <1>3, <2>1 DEF Watch
  <2>2. CASE entry # Deleted
    <3>1. [heap EXCEPT ![p][o] = entry] \in [Pods -> [Objects -> Device]]
      BY <1>1, <2>2
    <3> QED  BY <1>2, <1>3, <2>2, <3>1 DEF Watch
  <2> QED  BY <2>1, <2>2
<1>6. /\ heap' \in [Pods -> [Objects -> Device]] /\ cache' \in [Pods -> Objects \cup {Nil}]
      /\ \A q \in Pods : cache'[q] # Nil => heap'[q][cache'[q]] = h[q][cache'[q]]
  <2>1. cache' \in [Pods -> Objects \cup {Nil}]
    BY <1>1, <1>5 DEF DeviceTypeOK
  <2> QED  BY <1>5, <2>1, CollectKeeps, CollectKeepsCached
<1>7. DeviceTypeOK'
  <2>1. position' \in [Pods -> Nat \ {0}]
    BY <1>1, <1>4 DEF DeviceTypeOK
  <2> QED  BY <1>1, <1>4, <1>6, <2>1 DEF DeviceTypeOK
<1>8. Cached(p)' = entry /\ \A q \in Pods \ {p} : Cached(q)' = Cached(q)
  <2>1. Cached(p)' = entry
    BY <1>1, <1>2, <1>5, <1>6 DEF Cached, DeviceTypeOK
  <2>2. ASSUME NEW q \in Pods \ {p} PROVE Cached(q)' = Cached(q)
    <3>1. cache'[q] = cache[q] /\ h[q] = heap[q]
      BY <1>1, <1>5 DEF DeviceTypeOK
    <3> QED  BY <1>6, <3>1 DEF Cached
  <2> QED  BY <2>1, <2>2
<1>9. /\ position'[p] = position[p] + 1 /\ \A q \in Pods \ {p} : position'[q] = position[q]
      /\ Latest' = Latest
  BY <1>1, <1>4 DEF DeviceTypeOK, Latest
<1>10. Delivered(p)' => Cached(p)' = Latest'
  BY <1>1, <1>3, <1>4, <1>8, <1>9 DEF Delivered, Latest, Last
<1>11. Positions' /\ Pointers'
  BY <1>1, <1>4, <1>9 DEF DeviceBase, Positions, Pointers
<1>12. ReadersAgree'
  BY <1>1, <1>4, <1>8, <1>9, <1>10 DEF DeviceBase, ReadersAgree, Delivered, Readers
<1>13. ASSUME NEW g \in Goroutines, ref[g] # Nil PROVE Got(g)' = Got(g)
  <2>1. PICK q \in Pods, r \in Objects : q = PodOf[g] /\ r = ref[g]
    BY <1>1, <1>13, StateAssumption DEF DeviceTypeOK
  <2>2. h[q][r] = heap[q][r]
    BY <1>1, <1>2, <1>5, <2>1
  <2>3. heap'[q][r] = h[q][r]
    BY <1>4, <1>5, <2>1, CollectKeeps
  <2> QED  BY <1>4, <2>1, <2>2, <2>3 DEF Got
<1> QED  BY <1>7, <1>8, <1>9, <1>10, <1>11, <1>12, <1>13 DEF DeviceBase

\* A watcher that starts has the last revision before it, if there is one.
LEMMA WatchStarts ==
  ASSUME DeviceTypeOK
  PROVE  /\ WatchStart \in Nat \ {0} /\ WatchStart <= Len(revisions) + 1
         /\ WatchStart > Len(revisions) => revisions = << >>
<1>1. revisions \in Seq(Device \cup {Deleted}) /\ Len(revisions) \in Nat
  BY DEF DeviceTypeOK
<1>2. revisions # << >> => Len(revisions) > 0
  BY <1>1
<1> QED  BY <1>1, <1>2 DEF WatchStart

\* A new channel of a watcher starts with the last revision.
LEMMA ReconnectKeeps ==
  ASSUME DeviceBase, NEW p \in Pods, Reconnect(p)
  PROVE  /\ DeviceBase'
         /\ \A q \in Pods : Cached(q)' = Cached(q) /\ (Delivered(q)' => Delivered(q))
<1>1. /\ DeviceTypeOK /\ Readers \subseteq Pods
      /\ position \in [Pods -> Nat \ {0}] /\ Len(revisions) \in Nat
  BY DEF DeviceBase, DeviceTypeOK, Readers
<1>2. /\ position' = [position EXCEPT ![p] = WatchStart]
      /\ UNCHANGED <<now, revisions, cache, heap, pc, call, ref, payload, unsaved>>
  BY DEF Reconnect
<1>3. DeviceTypeOK'
  BY <1>1, <1>2, WatchStarts DEF DeviceTypeOK
<1>4. \A q \in Pods : Cached(q)' = Cached(q)
  BY <1>2 DEF Cached
<1>5. ASSUME NEW q \in Pods, Delivered(q)' PROVE Delivered(q)
  <2>1. CASE q = p
    <3>1. Len(revisions) = 0
      BY <1>1, <1>2, <1>5, <2>1, WatchStarts DEF Delivered
    <3> QED  BY <1>1, <3>1 DEF Delivered
  <2>2. CASE q # p
    BY <1>1, <1>2, <1>5, <2>2 DEF Delivered
  <2> QED  BY <2>1, <2>2
<1>6. Positions' /\ Pointers'
  BY <1>1, <1>2, WatchStarts DEF DeviceBase, Positions, Pointers
<1>7. ReadersAgree'
  BY <1>1, <1>2, <1>4, <1>5 DEF DeviceBase, ReadersAgree, Latest, Readers
<1> QED  BY <1>3, <1>4, <1>5, <1>6, <1>7 DEF DeviceBase

\* A pod that starts again has loaded the last revision, or the watcher will bring it.
LEMMA RestartKeeps ==
  ASSUME DeviceBase, NEW p \in Pods, Restart(p)
  PROVE  /\ DeviceBase' /\ (Delivered(p)' => Cached(p)' = Latest')
         /\ \A q \in Pods \ {p} : Cached(q)' = Cached(q) /\ position'[q] = position[q]
         /\ \A g \in Goroutines : PodOf[g] # p /\ ref[g] # Nil => Got(g)' = Got(g)
<1>1. /\ DeviceTypeOK /\ Readers \subseteq Pods
      /\ position \in [Pods -> Nat \ {0}] /\ Len(revisions) \in Nat
      /\ heap \in [Pods -> [Objects -> Device]]
  BY DEF DeviceBase, DeviceTypeOK, Readers
<1>2. Blank \in Device /\ "none" \in Calls /\ 1 \in Objects /\ Nil \notin Objects
  <2>1. Cardinality(Goroutines) \in Nat
    BY StateAssumption, FS_CardinalityType
  <2>2. Blank \in Device /\ "none" \in Calls
    BY StateAssumption DEF Blank, Device, Calls
  <2> QED  BY <2>1, <2>2 DEF Nil, Objects
<1>3. /\ position' = [position EXCEPT ![p] = WatchStart]
      /\ UNCHANGED <<now, revisions>> /\ unsaved' = unsaved \ {p}
      /\ \A g \in Goroutines : /\ pc'[g] = IF PodOf[g] = p THEN "idle" ELSE pc[g]
                               /\ ref'[g] = IF PodOf[g] = p THEN Nil ELSE ref[g]
  BY DEF Restart
<1>4. PICK h \in [Pods -> [Objects -> Device]], o \in {1, Nil} :
         /\ Collect(h)
         /\ \A q \in Pods \ {p} : h[q] = heap[q]
         /\ cache' = [cache EXCEPT ![p] = o]
         /\ o # Nil => Latest # Deleted
  <2>1. CASE Latest # Deleted /\ cache' = [cache EXCEPT ![p] = 1] /\ Collect([heap EXCEPT ![p][1] = Latest])
    <3>1. [heap EXCEPT ![p][1] = Latest] \in [Pods -> [Objects -> Device]]
      BY <1>1, <1>2, <2>1, LatestType
    <3>2. \A q \in Pods \ {p} : [heap EXCEPT ![p][1] = Latest][q] = heap[q]
      BY <1>1
    <3> QED  BY <2>1, <3>1, <3>2
  <2>2. CASE cache' = [cache EXCEPT ![p] = Nil] /\ Collect(heap)
    BY <1>1, <2>2
  <2> QED  BY <2>1, <2>2 DEF Restart
<1>5. /\ heap' \in [Pods -> [Objects -> Device]] /\ cache' \in [Pods -> Objects \cup {Nil}]
      /\ \A q \in Pods : cache'[q] # Nil => heap'[q][cache'[q]] = h[q][cache'[q]]
  <2>1. cache' \in [Pods -> Objects \cup {Nil}]
    BY <1>1, <1>2, <1>4 DEF DeviceTypeOK
  <2> QED  BY <1>4, <2>1, CollectKeeps, CollectKeepsCached
<1>6. DeviceTypeOK'
  <2>1. position' \in [Pods -> Nat \ {0}]
    BY <1>1, <1>3, WatchStarts
  <2>2. /\ pc' \in [Goroutines -> {"idle", "get", "fetch", "fill", "mutate", "put", "store", "delete", "evict"}]
        /\ call' \in [Goroutines -> Calls] /\ ref' \in [Goroutines -> Objects \cup {Nil}]
        /\ payload' \in [Goroutines -> Device]
    BY <1>1, <1>2 DEF Restart, DeviceTypeOK
  <2> QED  BY <1>1, <1>3, <1>5, <2>1, <2>2 DEF DeviceTypeOK
<1>7. \A q \in Pods \ {p} : Cached(q)' = Cached(q) /\ position'[q] = position[q]
  <2>1. \A q \in Pods \ {p} : cache'[q] = cache[q] /\ position'[q] = position[q]
    BY <1>1, <1>3, <1>4 DEF DeviceTypeOK
  <2> QED  BY <1>4, <1>5, <2>1 DEF Cached
<1>8. Latest' = Latest
  BY <1>3 DEF Latest
<1>9. Delivered(p)' => Cached(p)' = Latest'
  <2> SUFFICES ASSUME Delivered(p)' PROVE Cached(p)' = Latest'
    OBVIOUS
  <2>1. revisions = << >>
    BY <1>1, <1>3, WatchStarts DEF Delivered
  <2>2. Latest = Deleted
    BY <2>1 DEF Latest
  <2>3. cache'[p] = Nil
    BY <1>1, <1>4, <2>2 DEF DeviceTypeOK
  <2> QED  BY <1>8, <2>2, <2>3 DEF Cached
<1>10. Positions' /\ Pointers'
  BY <1>1, <1>3, WatchStarts DEF DeviceBase, Positions, Pointers
<1>11. ReadersAgree'
  BY <1>1, <1>3, <1>7, <1>8, <1>9 DEF DeviceBase, ReadersAgree, Delivered, Readers
<1>12. ASSUME NEW g \in Goroutines, PodOf[g] # p, ref[g] # Nil PROVE Got(g)' = Got(g)
  <2>1. PICK q \in Pods, r \in Objects : q = PodOf[g] /\ r = ref[g] /\ r = ref'[g]
    BY <1>1, <1>3, <1>12, StateAssumption DEF DeviceTypeOK
  <2>2. heap'[q][r] = h[q][r]
    BY <1>4, <2>1, CollectKeeps
  <2> QED  BY <1>4, <1>12, <2>1, <2>2 DEF Got
<1> QED  BY <1>6, <1>7, <1>9, <1>10, <1>11, <1>12 DEF DeviceBase

\* Nothing is cached, and there is nothing to cache.
LEMMA InitDeviceBase == DeviceInit => DeviceBase
<1> SUFFICES ASSUME DeviceInit PROVE DeviceBase
  OBVIOUS
<1>1. DeviceTypeOK
  BY StateAssumption DEF DeviceInit, DeviceTypeOK, Blank, Device, Calls
<1>2. Positions /\ ReadersAgree /\ Pointers
  BY StateAssumption DEF DeviceInit, Positions, ReadersAgree, Pointers, Cached, Latest, Readers
<1> QED  BY <1>1, <1>2 DEF DeviceBase

\* Every step keeps it.
LEMMA NextKeepsBase == ASSUME DeviceBase, [DeviceNext]_deviceVars PROVE DeviceBase'
<1>1. CASE Tick
  BY <1>1, CallsKeep
<1>2. ASSUME NEW g \in Goroutines,
             ReaperCheck(g) \/ (\E c \in Offered : BeginCall(g, c)) \/ MethodStep(g)
      PROVE  DeviceBase'
  <2>1. CASE ReaperCheck(g) \/ GetCached(g) \/ \E c \in Offered : BeginCall(g, c)
    BY <2>1, CallsKeep
  <2>2. CASE FetchFromKV(g)
    BY <2>2, FetchKeeps
  <2>3. CASE FillCache(g) \/ StorePointer(g)
    BY <2>3, StoreKeeps
  <2>4. CASE Mutate(g)
    BY <2>4, MutateKeeps
  <2>5. CASE Put(g) \/ DeleteFromKV(g)
    BY <2>5, PutKeeps
  <2>6. CASE PutFails(g)
    <3>1. unsaved' \subseteq Pods
      BY <2>6, StateAssumption DEF PutFails, DeviceBase, DeviceTypeOK
    <3> QED  BY <2>6, <3>1, ReturnKeeps DEF PutFails
  <2>7. CASE DeleteFromCache(g)
    BY <2>7, EvictKeeps
  <2> QED  BY <1>2, <2>1, <2>2, <2>3, <2>4, <2>5, <2>6, <2>7 DEF MethodStep
<1>3. ASSUME NEW p \in Pods, Watch(p) \/ Reconnect(p) \/ Restart(p) PROVE DeviceBase'
  BY <1>3, WatchKeeps, ReconnectKeeps, RestartKeeps
<1>4. CASE UNCHANGED deviceVars
  BY <1>4 DEF deviceVars, DeviceBase, DeviceTypeOK, Positions, ReadersAgree, Pointers, Delivered, Cached, Latest
<1> QED  BY <1>1, <1>2, <1>3, <1>4 DEF DeviceNext

\* It holds for as long as there are calls, failures, new channels and deaths of pods.
THEOREM DeviceInvariant == DeviceSpec => []DeviceBase
<1>1. DeviceBase /\ [DeviceNext]_deviceVars => DeviceBase'
  BY NextKeepsBase
<1> QED  BY InitDeviceBase, <1>1, PTL DEF DeviceSpec

\* A pod that writes nothing has the last revision whenever its watcher has delivered
\* all, whoever writes on the other pods and however their caches differ.
THEOREM ReadersHaveTheLatest == DeviceSpec => []ReadersAgree
<1>1. DeviceBase => ReadersAgree
  BY DEF DeviceBase
<1> QED  BY DeviceInvariant, <1>1, PTL

-----------------------------------------------------------------------------
(* Device state with one writer.  Nobody stores a pointer over a revision   *)
(* that came in between: unless the goroutine is between its put and its    *)
(* store, its pod has the last revision too once its watcher has delivered  *)
(* all.                                                                     *)

OneWriter == \E g : Goroutines = {g}

WriterAgrees ==
    \A g \in Goroutines :
       pc[g] \notin {"put", "store", "evict"} /\ Delivered(PodOf[g]) /\ PodOf[g] \notin unsaved
          => Cached(PodOf[g]) = Latest

\* What the goroutine is about to store is what the bucket has.
InCall ==
    \A g \in Goroutines :
       /\ pc[g] \in {"fill", "store"} => Got(g) = Latest
       /\ pc[g] = "put" => Got(g) = payload[g]
       /\ pc[g] = "evict" => PodOf[g] \in unsaved \/ Latest = Deleted

WriterInv == WriterAgrees /\ InCall

\* The goroutine's own steps.
LEMMA MethodKeepsWriter ==
  ASSUME DeviceBase, DeviceBase', WriterInv, NEW g, Goroutines = {g},
         Tick \/ ReaperCheck(g) \/ (\E c \in Offered : BeginCall(g, c)) \/ MethodStep(g)
  PROVE  WriterInv'
<1>0. /\ PodOf[g] \in Pods /\ DeviceTypeOK /\ g \in Goroutines
      /\ pc \in [Goroutines -> ProgramCounters] /\ ref \in [Goroutines -> Objects \cup {Nil}]
  BY StateAssumption DEF DeviceBase, DeviceTypeOK, ProgramCounters
<1>1. CASE Tick \/ ReaperCheck(g) \/ GetCached(g) \/ \E c \in Offered : BeginCall(g, c)
  <2>1. UNCHANGED <<revisions, cache, heap, position, payload, unsaved>>
    BY <1>0, <1>1, CallsKeep
  <2>2. (pc' = pc /\ ref' = ref) \/ (pc[g] \in {"idle", "get"} /\ pc'[g] \in {"get", "delete", "fetch", "mutate"})
    BY <1>0, <1>1 DEF Tick, ReaperCheck, GetCached, BeginCall
  <2>3. Cached(PodOf[g])' = Cached(PodOf[g]) /\ Latest' = Latest /\ (Delivered(PodOf[g])' <=> Delivered(PodOf[g]))
    BY <2>1 DEF Cached, Latest, Delivered
  <2>4. WriterAgrees'
    BY <1>0, <2>1, <2>2, <2>3 DEF WriterInv, WriterAgrees
  <2>5. InCall'
    BY <1>0, <2>1, <2>2, <2>3 DEF WriterInv, InCall, Got
  <2> QED  BY <2>4, <2>5 DEF WriterInv
<1>2. CASE FetchFromKV(g)
  <2>1. UNCHANGED <<revisions, position, unsaved>> /\ pc[g] = "fetch"
    BY <1>2 DEF FetchFromKV
  <2>2. Cached(PodOf[g])' = Cached(PodOf[g])
    BY <1>0, <1>2, FetchKeeps
  <2>3. WriterAgrees'
    BY <1>0, <2>1, <2>2 DEF WriterInv, WriterAgrees, Delivered, Latest
  <2>4. CASE pc'[g] = "fill"
    <3>1. PICK o \in Objects : o = NewObject(PodOf[g])
      BY <1>0, NewObjectIsFree
    <3>2. /\ ref' = [ref EXCEPT ![g] = o]
          /\ heap' = [heap EXCEPT ![PodOf[g]][o] = Latest]
      BY <1>0, <1>2, <2>4, <3>1 DEF FetchFromKV, Finish
    <3>3. Got(g)' = Latest
      BY <1>0, <3>2 DEF Got, DeviceTypeOK
    <3> QED  BY <1>0, <2>1, <2>3, <2>4, <3>3 DEF WriterInv, InCall, Latest
  <2>5. CASE pc'[g] # "fill"
    <3>1. pc'[g] \in {"mutate", "idle"}
      BY <1>0, <1>2, <2>5 DEF FetchFromKV, Finish
    <3> QED  BY <1>0, <2>3, <3>1 DEF WriterInv, InCall
  <2> QED  BY <2>4, <2>5
<1>3. CASE FillCache(g) \/ StorePointer(g)
  <2>1. Cached(PodOf[g])' = Got(g)
    BY <1>0, <1>3, StoreKeeps
  <2>2. Got(g) = Latest /\ Latest' = Latest /\ pc'[g] \in {"mutate", "idle"}
    BY <1>0, <1>3 DEF FillCache, StorePointer, Finish, WriterInv, InCall, Latest
  <2> QED  BY <1>0, <2>1, <2>2 DEF WriterInv, WriterAgrees, InCall
<1>4. CASE Mutate(g)
  <2>1. pc[g] = "mutate" /\ UNCHANGED <<revisions, position, unsaved>>
    BY <1>4 DEF Mutate
  <2>2. \/ pc'[g] = "idle" /\ Cached(PodOf[g])' = Cached(PodOf[g])
        \/ pc'[g] = "put" /\ Got(g)' = payload'[g]
    BY <1>0, <1>4, MutateKeeps
  <2> QED  BY <1>0, <2>1, <2>2 DEF WriterInv, WriterAgrees, InCall, Delivered, Latest
<1>5. CASE Put(g)
  <2>1. pc'[g] = "store" /\ Latest' = payload[g]
    BY <1>0, <1>5, PutKeeps
  <2>2. Got(g) = payload[g] /\ Got(g)' = Got(g)
    BY <1>0, <1>5 DEF Put, WriterInv, InCall, Got
  <2> QED  BY <1>0, <2>1, <2>2 DEF WriterInv, WriterAgrees, InCall
<1>6. CASE DeleteFromKV(g)
  <2>1. pc'[g] = "evict" /\ (PodOf[g] \in unsaved' \/ Latest' = Deleted)
    BY <1>0, <1>6, PutKeeps
  <2> QED  BY <1>0, <2>1 DEF WriterInv, WriterAgrees, InCall
<1>7. CASE PutFails(g)
  <2>1. pc'[g] = "idle" /\ unsaved' = unsaved \cup {PodOf[g]}
    BY <1>0, <1>7 DEF PutFails, Finish
  <2> QED  BY <1>0, <2>1 DEF WriterInv, WriterAgrees, InCall
<1>8. CASE DeleteFromCache(g)
  <2>1. pc'[g] = "idle" /\ Cached(PodOf[g])' = Deleted
    BY <1>0, <1>8, EvictKeeps
  <2>2. UNCHANGED <<revisions, unsaved>> /\ (PodOf[g] \in unsaved \/ Latest = Deleted)
    BY <1>0, <1>8 DEF DeleteFromCache, WriterInv, InCall
  <2> QED  BY <1>0, <2>1, <2>2 DEF WriterInv, WriterAgrees, InCall, Latest
<1> QED  BY <1>1, <1>2, <1>3, <1>4, <1>5, <1>6, <1>7, <1>8 DEF MethodStep

\* The steps of the watchers and the deaths of pods.
LEMMA PodsKeepWriter ==
  ASSUME DeviceBase, DeviceBase', WriterInv, NEW g, Goroutines = {g}, NEW p \in Pods,
         Watch(p) \/ Reconnect(p) \/ Restart(p)
  PROVE  WriterInv'
<1>0. PodOf[g] \in Pods /\ g \in Goroutines
  BY StateAssumption
<1>1. Latest' = Latest /\ revisions' = revisions
  BY DEF Watch, Reconnect, Restart, Latest
<1>2. CASE Watch(p)
  <2>1. UNCHANGED <<pc, payload, ref, unsaved>>
    BY <1>2 DEF Watch
  <2>2. /\ Delivered(p)' => Cached(p)' = Latest'
        /\ \A q \in Pods \ {p} : Cached(q)' = Cached(q) /\ position'[q] = position[q]
        /\ ref[g] # Nil => Got(g)' = Got(g)
    BY <1>0, <1>2, WatchKeeps
  <2>3. pc[g] \in {"fill", "mutate", "put", "store"} => ref[g] # Nil
    BY <1>0 DEF DeviceBase, Pointers
  <2>4. InCall'
    BY <1>0, <1>1, <2>1, <2>2, <2>3 DEF WriterInv, InCall
  <2>5. WriterAgrees'
    BY <1>0, <1>1, <2>1, <2>2 DEF WriterInv, WriterAgrees, Delivered
  <2> QED  BY <2>4, <2>5 DEF WriterInv
<1>3. CASE Reconnect(p)
  <2>1. \A q \in Pods : Cached(q)' = Cached(q) /\ (Delivered(q)' => Delivered(q))
    BY <1>3, ReconnectKeeps
  <2>2. UNCHANGED <<pc, payload, ref, heap, unsaved>>
    BY <1>3 DEF Reconnect
  <2> QED  BY <1>0, <1>1, <2>1, <2>2 DEF WriterInv, WriterAgrees, InCall, Got
<1>4. CASE Restart(p)
  <2>1. /\ Delivered(p)' => Cached(p)' = Latest'
        /\ \A q \in Pods \ {p} : Cached(q)' = Cached(q) /\ position'[q] = position[q]
        /\ PodOf[g] # p /\ ref[g] # Nil => Got(g)' = Got(g)
    BY <1>0, <1>4, RestartKeeps
  <2>2. /\ pc'[g] = IF PodOf[g] = p THEN "idle" ELSE pc[g]
        /\ payload'[g] = IF PodOf[g] = p THEN Blank ELSE payload[g]
        /\ unsaved' = unsaved \ {p}
    BY <1>0, <1>4 DEF Restart
  <2>3. pc[g] \in {"fill", "mutate", "put", "store"} => ref[g] # Nil
    BY <1>0 DEF DeviceBase, Pointers
  <2>4. InCall'
    BY <1>0, <1>1, <2>1, <2>2, <2>3 DEF WriterInv, InCall
  <2>5. WriterAgrees'
    BY <1>0, <1>1, <2>1, <2>2 DEF WriterInv, WriterAgrees, Delivered
  <2> QED  BY <2>4, <2>5 DEF WriterInv
<1> QED  BY <1>2, <1>3, <1>4

\* Every step keeps what holds of one writer.
LEMMA NextKeepsWriter ==
  ASSUME DeviceBase, DeviceBase', OneWriter, WriterInv, [DeviceNext]_deviceVars PROVE WriterInv'
<1>0. PICK g : Goroutines = {g}
  BY DEF OneWriter
<1>1. CASE UNCHANGED deviceVars
  BY <1>1 DEF deviceVars, WriterInv, WriterAgrees, InCall, Delivered, Cached, Latest, Got
<1>2. CASE \E p \in Pods : Watch(p) \/ Reconnect(p) \/ Restart(p)
  BY <1>0, <1>2, PodsKeepWriter
<1>3. CASE \/ Tick
           \/ \E k \in Goroutines : ReaperCheck(k) \/ (\E c \in Offered : BeginCall(k, c)) \/ MethodStep(k)
  BY <1>0, <1>3, MethodKeepsWriter
<1> QED  BY <1>1, <1>2, <1>3 DEF DeviceNext

\* Where one goroutine serves the device, the watch keeps every pod's cache equal to the
\* bucket, through failed puts, deletions, new channels and deaths of pods.
THEOREM OneWriterConverges == OneWriter => (DeviceSpec => []Converged)
<1>1. DeviceInit => WriterInv
  BY StateAssumption DEF DeviceInit, WriterInv, WriterAgrees, InCall, Cached, Latest
<1>2. DeviceBase /\ WriterInv => Converged
  <2> SUFFICES ASSUME DeviceBase, WriterInv, NEW p \in Pods, Quiet(p), p \notin unsaved
               PROVE  Cached(p) = Latest
    BY DEF Converged
  <2>1. Delivered(p)
    BY DEF Quiet, Delivered
  <2>2. CASE p \in Readers
    BY <2>1, <2>2 DEF DeviceBase, ReadersAgree
  <2>3. CASE p \notin Readers
    <3>1. PICK g \in Goroutines : PodOf[g] = p
      BY <2>3 DEF Readers
    <3> QED  BY <2>1, <3>1 DEF WriterInv, WriterAgrees, Quiet
  <2> QED  BY <2>2, <2>3
<1>3. /\ DeviceBase /\ DeviceBase' /\ OneWriter /\ WriterInv /\ [DeviceNext]_deviceVars
      => (OneWriter /\ WriterInv)'
  BY NextKeepsWriter DEF OneWriter
<1> QED  BY DeviceInvariant, <1>1, <1>2, <1>3, PTL DEF DeviceSpec
=============================================================================

------------------------ MODULE WebhookDelivery_proofs ------------------------
(***************************************************************************)
(* What the delivery log says of a delivery is right, for any number of    *)
(* deliveries, goroutines, retries and crashes.  Several goroutines may    *)
(* hold copies of one row and overwrite each other's outcome; a copy never *)
(* runs ahead of its row by more than the attempt it is making.            *)
(***************************************************************************)
EXTENDS WebhookDelivery, FiniteSetTheorems, TLAPS

\* A copy was made of a row that was inserted, which may have been deleted since, and
\* counts at most so many attempts more than the row.
Behind(copy, more) ==
    /\ copy.log \in 1 .. created
    /\ Exists(copy.log) => copy.attempt <= rows[copy.log].attempt + more

CopiesBehind ==
    /\ \A copy \in batch : Behind(copy, 0)
    /\ \A s \in Senders : pc[s] # "idle" => Behind(held[s], IF pc[s] = "bad" THEN 1 ELSE 0)

\* A goroutine that is about to record a success has seen one.
AnswersSeen == \A s \in Senders : pc[s] = "ok" => held[s].log \in accepted

\* Rows are inserted in order, and a manual retry has read one.
Inserted ==
    /\ \A l \in Logs : Exists(l) => l <= created
    /\ retrying <= created

IInv == TypeOK /\ CopiesBehind /\ AnswersSeen /\ Inserted /\ SuccessGenuine /\ CancelledOnlyWhenSpent

-----------------------------------------------------------------------------
\* The invariant holds before the first delivery.
LEMMA InitIInv == Init => IInv
<1> SUFFICES ASSUME Init PROVE IInv
  OBVIOUS
<1> USE WebhookAssumption DEF Init
<1>1. TypeOK
  BY DEF TypeOK, Row, NoRow, Copy, Nothing, Statuses
<1>2. CopiesBehind /\ AnswersSeen
  BY DEF CopiesBehind, AnswersSeen
<1>3. Inserted
  BY DEF Inserted, Exists, NoRow
<1>4. SuccessGenuine /\ CancelledOnlyWhenSpent
  BY DEF SuccessGenuine, CancelledOnlyWhenSpent, NoRow
<1> QED  BY <1>1, <1>2, <1>3, <1>4 DEF IInv

\* Excuse, Accepts keep the bookkeeping in type.
LEMMA BookkeepingType ==
  ASSUME TypeOK, NEW ls, NEW l, Excuse(ls) \/ Accepts(l)
  PROVE  reasons' \in [Logs -> Int]
BY DEF TypeOK, Excuse, Accepts

\* A step that touches no row, makes no copy later than its row and hands no goroutine
\* anything but what it had, a copy of the batch, or nothing, keeps the invariant.
LEMMA HandsKeep ==
  ASSUME IInv, TypeOK',
         UNCHANGED <<rows, created>>,
         accepted \subseteq accepted',
         retrying' <= created,
         \A copy \in batch' : copy \in batch \/ Behind(copy, 0),
         \A s \in Senders : \/ pc'[s] = "idle"
                            \/ pc'[s] = pc[s] /\ held'[s] = held[s]
                            \/ pc'[s] # "ok" /\ Behind(held'[s], IF pc'[s] = "bad" THEN 1 ELSE 0)
                            \/ pc'[s] = "ok" /\ Behind(held'[s], 0) /\ held'[s].log \in accepted'
  PROVE  IInv'
<1>1. CopiesBehind'
  <2>1. ASSUME NEW copy \in batch' PROVE Behind(copy, 0)'
    BY <2>1 DEF IInv, CopiesBehind, Behind, Exists
  <2>2. ASSUME NEW s \in Senders, pc'[s] # "idle"
        PROVE  Behind(held[s], IF pc[s] = "bad" THEN 1 ELSE 0)'
    BY <2>2 DEF IInv, CopiesBehind, Behind, Exists
  <2> QED  BY <2>1, <2>2 DEF CopiesBehind
<1>2. AnswersSeen'
  BY DEF IInv, AnswersSeen
<1>3. Inserted' /\ SuccessGenuine' /\ CancelledOnlyWhenSpent'
  BY DEF IInv, Inserted, SuccessGenuine, CancelledOnlyWhenSpent, Exists
<1> QED  BY <1>1, <1>2, <1>3 DEF IInv

\* A row gets an outcome, or is set back to pending: its count goes up, never down, so
\* the copies stay behind it; the outcome is one its writer may give.
LEMMA UpdateKeeps ==
  ASSUME IInv, TypeOK', NEW l \in 1 .. created, NEW status \in Statuses,
         NEW next \in {"null", "later", "due"}, Update(l, status, next),
         UNCHANGED <<created, batch, accepted>>,
         retrying' <= created,
         \A s \in Senders : pc'[s] = "idle" \/ (pc'[s] = pc[s] /\ held'[s] = held[s]),
         status # "absent",
         status = "success" => l \in accepted,
         status = "cancelled" /\ Exists(l) => rows[l].attempt + 1 >= MaxRetries
  PROVE  IInv'
<1> USE WebhookAssumption
<1>0. TypeOK /\ l \in Logs
  BY DEF IInv, TypeOK, Logs
<1>1. \A k \in Logs : /\ rows[k].attempt \in Nat /\ rows'[k].attempt \in Nat
                      /\ Exists(k)' <=> Exists(k)
                      /\ rows[k].attempt <= rows'[k].attempt
  <2> SUFFICES ASSUME NEW k \in Logs
               PROVE  /\ rows[k].attempt \in Nat /\ rows'[k].attempt \in Nat
                      /\ Exists(k)' <=> Exists(k)
                      /\ rows[k].attempt <= rows'[k].attempt
    OBVIOUS
  <2>1. rows[k] \in Row /\ rows[l] \in Row
    BY <1>0 DEF TypeOK
  <2>2. rows'[k] = IF Exists(l) /\ k = l
                   THEN [status |-> status, attempt |-> rows[l].attempt + 1, next |-> next]
                   ELSE rows[k]
    BY <1>0 DEF Update, TypeOK
  <2> QED  BY <2>1, <2>2 DEF Row, Exists
<1>2. ASSUME NEW copy \in Copy, NEW more \in {0, 1}, Behind(copy, more) PROVE Behind(copy, more)'
  <2>1. copy.log \in Logs /\ copy.attempt \in Nat
    BY <1>0, <1>2 DEF Behind, Logs, TypeOK, Copy
  <2>2. /\ rows[copy.log].attempt \in Nat /\ rows'[copy.log].attempt \in Nat
        /\ Exists(copy.log)' <=> Exists(copy.log)
        /\ rows[copy.log].attempt <= rows'[copy.log].attempt
    BY <1>1, <2>1
  <2>3. copy.log \in 1 .. created' /\ (Exists(copy.log) => copy.attempt <= rows[copy.log].attempt + more)
    BY <1>2 DEF Behind
  <2> QED  BY <2>1, <2>2, <2>3 DEF Behind, Exists
<1>3. CopiesBehind'
  <2>1. ASSUME NEW copy \in batch PROVE Behind(copy, 0)'
    BY <1>0, <1>2, <2>1 DEF IInv, CopiesBehind, TypeOK
  <2>2. ASSUME NEW s \in Senders, pc'[s] # "idle"
        PROVE  Behind(held[s], IF pc[s] = "bad" THEN 1 ELSE 0)'
    <3>1. pc'[s] = pc[s] /\ held'[s] = held[s] /\ held[s] \in Copy /\ pc[s] # "idle"
      BY <1>0, <2>2 DEF TypeOK
    <3>2. CASE pc[s] = "bad"
      <4>1. Behind(held[s], 1)
        BY <2>2, <3>1, <3>2 DEF IInv, CopiesBehind
      <4>2. Behind(held[s], 1)'
        BY <1>2, <3>1, <4>1 DEF Behind, Exists
      <4> QED  BY <3>1, <3>2, <4>2
    <3>3. CASE pc[s] # "bad"
      <4>1. Behind(held[s], 0)
        BY <2>2, <3>1, <3>3 DEF IInv, CopiesBehind
      <4>2. Behind(held[s], 0)'
        BY <1>2, <3>1, <4>1 DEF Behind, Exists
      <4> QED  BY <3>1, <3>3, <4>2
    <3> QED  BY <3>2, <3>3
  <2> QED  BY <2>1, <2>2 DEF CopiesBehind
<1>4. AnswersSeen'
  BY DEF IInv, AnswersSeen
<1>5. Inserted'
  BY <1>1 DEF IInv, Inserted
<1>6. SuccessGenuine' /\ CancelledOnlyWhenSpent'
  <2> SUFFICES ASSUME NEW k \in Logs
               PROVE  /\ rows'[k].status = "success" => k \in accepted
                      /\ rows'[k].status = "cancelled" => rows'[k].attempt >= MaxRetries
    BY DEF SuccessGenuine, CancelledOnlyWhenSpent
  <2>1. CASE Exists(l) /\ k = l
    <3>1. rows'[k] = [status |-> status, attempt |-> rows[l].attempt + 1, next |-> next]
      BY <1>0, <2>1 DEF Update, TypeOK
    <3> QED  BY <2>1, <3>1
  <2>2. CASE ~(Exists(l) /\ k = l)
    <3>1. rows'[k] = rows[k]
      BY <1>0, <2>2 DEF Update, TypeOK
    <3> QED  BY <3>1 DEF IInv, SuccessGenuine, CancelledOnlyWhenSpent
  <2> QED  BY <2>1, <2>2
<1> QED  BY <1>3, <1>4, <1>5, <1>6 DEF IInv

-----------------------------------------------------------------------------
\* Deliver inserts the next row: no copy of it exists yet but the caller's own.
LEMMA DeliverKeeps == ASSUME IInv, NEW s \in Senders, Deliver(s) PROVE IInv'
<1> USE WebhookAssumption
<1>0. TypeOK /\ created \in Nat /\ created + 1 \in Logs /\ created' = created + 1
  BY DEF IInv, TypeOK, Deliver, Logs
<1>1. rows' = [rows EXCEPT ![created + 1] = [status |-> "pending", attempt |-> 0, next |-> "null"]]
  BY DEF Deliver
<1>2. /\ \/ /\ pc' = [pc EXCEPT ![s] = "send"]
            /\ held' = [held EXCEPT ![s] = [log |-> created + 1, attempt |-> 0]]
         \/ pc' = pc /\ held' = held
      /\ UNCHANGED <<endpoint, batch, retrying, accepted, reasons, manual, faults>>
  BY DEF Deliver
<1>3. TypeOK'
  <2>1. rows' \in [Logs -> Row]
    BY <1>0, <1>1 DEF TypeOK, Row, Statuses
  <2>2. created' \in 0 .. MaxLogs
    BY <1>0 DEF Logs
  <2>3. held' \in [Senders -> Copy] /\ pc' \in [Senders -> {"idle", "lookup", "send", "ok", "bad"}]
    BY <1>0, <1>2 DEF TypeOK, Copy
  <2> QED  BY <1>0, <1>2, <2>1, <2>2, <2>3 DEF TypeOK
<1>4. ASSUME NEW copy \in Copy, NEW more \in {0, 1}, Behind(copy, more) PROVE Behind(copy, more)'
  <2>1. copy.log \in 1 .. created /\ copy.log \in Logs /\ copy.log # created + 1
    BY <1>0, <1>4 DEF Behind, Logs
  <2>2. rows'[copy.log] = rows[copy.log]
    BY <1>0, <1>1, <2>1 DEF TypeOK
  <2> QED  BY <1>0, <1>4, <2>1, <2>2 DEF Behind, Exists
<1>5. CopiesBehind'
  <2>1. ASSUME NEW copy \in batch PROVE Behind(copy, 0)'
    BY <1>0, <1>4, <2>1 DEF IInv, CopiesBehind, TypeOK
  <2>2. ASSUME NEW t \in Senders, pc'[t] # "idle"
        PROVE  Behind(held[t], IF pc[t] = "bad" THEN 1 ELSE 0)'
    <3>1. CASE pc'[t] = pc[t] /\ held'[t] = held[t]
      <4>1. held[t] \in Copy /\ pc[t] # "idle"
        BY <1>0, <2>2, <3>1 DEF TypeOK
      <4>2. CASE pc[t] = "bad"
        <5>1. Behind(held[t], 1)
          BY <4>1, <4>2 DEF IInv, CopiesBehind
        <5>2. Behind(held[t], 1)'
          BY <1>4, <3>1, <4>1, <5>1 DEF Behind, Exists
        <5> QED  BY <3>1, <4>2, <5>2
      <4>3. CASE pc[t] # "bad"
        <5>1. Behind(held[t], 0)
          BY <4>1, <4>3 DEF IInv, CopiesBehind
        <5>2. Behind(held[t], 0)'
          BY <1>4, <3>1, <4>1, <5>1 DEF Behind, Exists
        <5> QED  BY <3>1, <4>3, <5>2
      <4> QED  BY <4>2, <4>3
    <3>2. CASE pc'[t] = "send" /\ held'[t] = [log |-> created + 1, attempt |-> 0]
      <4>1. rows'[created + 1].attempt = 0
        BY <1>0, <1>1 DEF TypeOK
      <4> QED  BY <1>0, <3>2, <4>1 DEF Behind, Exists
    <3> QED  BY <1>0, <1>2, <3>1, <3>2 DEF TypeOK
  <2> QED  BY <1>2, <2>1, <2>2 DEF CopiesBehind
<1>6. AnswersSeen'
  BY <1>0, <1>2 DEF IInv, AnswersSeen, TypeOK
<1>7. Inserted'
  <2>1. ASSUME NEW l \in Logs, Exists(l)' PROVE l <= created + 1
    <3>1. CASE l = created + 1
      BY <1>0, <3>1
    <3>2. CASE l # created + 1
      <4>1. Exists(l)
        BY <1>0, <1>1, <2>1, <3>2 DEF Exists, TypeOK
      <4>2. l <= created /\ l \in Nat
        BY <4>1 DEF IInv, Inserted, Logs
      <4> QED  BY <1>0, <4>2
    <3> QED  BY <3>1, <3>2
  <2>2. retrying' <= created + 1
    BY <1>0, <1>2 DEF IInv, Inserted, TypeOK, Logs
  <2> QED  BY <1>0, <2>1, <2>2 DEF Inserted
<1>8. SuccessGenuine' /\ CancelledOnlyWhenSpent'
  <2>1. ASSUME NEW l \in Logs PROVE rows'[l] = rows[l] \/ rows'[l].status = "pending"
    BY <1>0, <1>1 DEF TypeOK
  <2> QED  BY <1>2, <2>1 DEF IInv, SuccessGenuine, CancelledOnlyWhenSpent
<1> QED  BY <1>3, <1>5, <1>6, <1>7, <1>8 DEF IInv

\* The poller copies rows as they are; a goroutine takes a copy, or looks for the endpoint.
LEMMA PollerKeeps ==
  ASSUME IInv, Poll \/ \E s \in Senders : Spawn(s) \/ Lookup(s) PROVE IInv'
<1> USE WebhookAssumption
<1>0. TypeOK
  BY DEF IInv
<1>1. CASE Poll
  <2>1. \A copy \in batch' : /\ copy \in Copy /\ Exists(copy.log) /\ copy.log \in Logs
                            /\ copy.attempt = rows[copy.log].attempt /\ copy.attempt \in Nat
    <3> SUFFICES ASSUME NEW copy \in batch'
                 PROVE  /\ copy \in Copy /\ Exists(copy.log) /\ copy.log \in Logs
                        /\ copy.attempt = rows[copy.log].attempt /\ copy.attempt \in Nat
      OBVIOUS
    <3>1. PICK l \in Select : copy = [log |-> l, attempt |-> rows[l].attempt]
      BY <1>1 DEF Poll
    <3>2. l \in Logs /\ rows[l].status = "pending" /\ rows[l] \in Row
      BY <1>0 DEF Select, TypeOK
    <3> QED  BY <3>1, <3>2 DEF Copy, Row, Exists
  <2>2. \A copy \in batch' : Behind(copy, 0)
    BY <2>1 DEF IInv, Inserted, Behind, Logs, TypeOK
  <2>3. reasons' \in [Logs -> Int]
    BY <1>0, <1>1 DEF Poll, Excuse, TypeOK
  <2>4. TypeOK'
    BY <1>0, <1>1, <2>1, <2>3 DEF Poll, TypeOK
  <2>5. UNCHANGED <<rows, created, pc, held, retrying, accepted>>
    BY <1>1 DEF Poll
  <2> QED  BY <2>2, <2>4, <2>5, HandsKeep DEF IInv, Inserted
<1>2. CASE \E s \in Senders : Spawn(s)
  <2>1. PICK s \in Senders : Spawn(s)
    BY <1>2
  <2>2. PICK copy \in batch : batch' = batch \ {copy} /\ held' = [held EXCEPT ![s] = copy]
    BY <2>1 DEF Spawn
  <2>3. pc' = [pc EXCEPT ![s] = "lookup"] /\ UNCHANGED <<endpoint, rows, created, retrying, accepted, reasons, manual, faults>>
    BY <2>1 DEF Spawn
  <2>4. TypeOK'
    BY <1>0, <2>2, <2>3 DEF TypeOK
  <2>5. Behind(copy, 0)
    BY <2>2 DEF IInv, CopiesBehind
  <2>6. \A t \in Senders : \/ pc'[t] = pc[t] /\ held'[t] = held[t]
                           \/ pc'[t] = "lookup" /\ Behind(held'[t], 0)
    BY <1>0, <2>2, <2>3, <2>5 DEF TypeOK
  <2>7. \A t \in Senders : \/ pc'[t] = pc[t] /\ held'[t] = held[t]
                           \/ pc'[t] # "ok" /\ Behind(held'[t], IF pc'[t] = "bad" THEN 1 ELSE 0)
    BY <2>6
  <2> QED  BY <2>2, <2>3, <2>4, <2>7, HandsKeep DEF IInv, Inserted
<1>3. CASE \E s \in Senders : Lookup(s)
  <2>1. PICK s \in Senders : Lookup(s)
    BY <1>3
  <2>2. /\ \/ pc' = [pc EXCEPT ![s] = "send"] /\ held' = held /\ faults' = faults
           \/ /\ pc' = [pc EXCEPT ![s] = "idle"] /\ held' = [held EXCEPT ![s] = Nothing]
              /\ faults < MaxFaults /\ faults' = faults + 1
        /\ pc[s] = "lookup"
        /\ UNCHANGED <<endpoint, rows, created, batch, retrying, accepted, reasons, manual>>
    BY <2>1 DEF Lookup, Return, Fault
  <2>3. TypeOK'
    BY <1>0, <2>2 DEF TypeOK, Copy, Nothing
  <2>4. Behind(held[s], 0)
    BY <2>2 DEF IInv, CopiesBehind
  <2>5. \A t \in Senders : \/ pc'[t] = "idle"
                           \/ pc'[t] = pc[t] /\ held'[t] = held[t]
                           \/ pc'[t] = "send" /\ Behind(held'[t], 0)
    BY <1>0, <2>2, <2>4 DEF TypeOK
  <2>6. \A t \in Senders : \/ pc'[t] = "idle"
                           \/ pc'[t] = pc[t] /\ held'[t] = held[t]
                           \/ pc'[t] # "ok" /\ Behind(held'[t], IF pc'[t] = "bad" THEN 1 ELSE 0)
    BY <2>5
  <2> QED  BY <2>2, <2>3, <2>6, HandsKeep DEF IInv, Inserted
<1> QED  BY <1>1, <1>2, <1>3

\* A request is answered; the goroutine remembers what it saw.
LEMMA RespondKeeps == ASSUME IInv, NEW s \in Senders, Respond(s) PROVE IInv'
<1>0. TypeOK /\ pc[s] = "send" /\ Behind(held[s], 0) /\ held[s] \in Copy
  BY DEF IInv, TypeOK, CopiesBehind, Respond
<1> DEFINE l == held[s].log
<1>1. l \in Logs /\ held[s].attempt \in Nat /\ l \in 1 .. created
  BY <1>0 DEF Behind, TypeOK, Logs, Copy
<1>2. /\ \/ pc' = [pc EXCEPT ![s] = "ok"] /\ held' = held /\ accepted' = accepted \cup {l}
         \/ /\ pc' = [pc EXCEPT ![s] = "bad"] /\ held' = [held EXCEPT ![s].attempt = @ + 1]
            /\ accepted' = accepted \cup {l} \/ accepted' = accepted
      /\ UNCHANGED <<endpoint, rows, created, batch, retrying, manual, faults>>
  BY DEF Respond, Accepts
<1>3. reasons' \in [Logs -> Int]
  <2>1. reasons' = reasons \/ reasons' = [reasons EXCEPT ![l] = IF l \in accepted THEN @ - 1 ELSE @]
    BY DEF Respond, Accepts
  <2> QED  BY <1>0, <1>1, <2>1 DEF TypeOK
<1>4. TypeOK'
  BY <1>0, <1>1, <1>2, <1>3 DEF TypeOK, Copy
<1>5. \/ pc'[s] = "ok" /\ held'[s] = held[s] /\ l \in accepted'
      \/ pc'[s] = "bad" /\ held'[s] = [held[s] EXCEPT !.attempt = @ + 1]
  BY <1>0, <1>2 DEF TypeOK
<1>6. pc'[s] = "bad" => Behind(held'[s], 1)
  <2>1. SUFFICES ASSUME pc'[s] = "bad" PROVE Behind(held'[s], 1)
    OBVIOUS
  <2>2. held'[s].log = l /\ held'[s].attempt = held[s].attempt + 1
    BY <1>0, <1>5, <2>1 DEF Copy
  <2>3. rows[l].attempt \in Nat
    BY <1>0, <1>1 DEF TypeOK, Row
  <2> QED  BY <1>0, <1>1, <2>2, <2>3 DEF Behind
<1>7. \A t \in Senders : \/ pc'[t] = pc[t] /\ held'[t] = held[t]
                         \/ pc'[t] # "ok" /\ Behind(held'[t], IF pc'[t] = "bad" THEN 1 ELSE 0)
                         \/ pc'[t] = "ok" /\ Behind(held'[t], 0) /\ held'[t].log \in accepted'
  BY <1>0, <1>2, <1>5, <1>6 DEF TypeOK
<1> QED  BY <1>2, <1>4, <1>7, HandsKeep DEF IInv, Inserted

\* The outcome is written, or the store fails and it is forgotten.
LEMMA RecordKeeps ==
  ASSUME IInv, NEW s \in Senders, RecordSuccess(s) \/ RecordFailure(s) PROVE IInv'
<1> USE WebhookAssumption
<1> DEFINE l == held[s].log
<1>0. /\ TypeOK /\ held[s] \in Copy
      /\ Behind(held[s], IF pc[s] = "bad" THEN 1 ELSE 0) /\ pc[s] \in {"ok", "bad"}
  BY DEF IInv, TypeOK, CopiesBehind, RecordSuccess, RecordFailure
<1>1. l \in Logs /\ l \in 1 .. created /\ held[s].attempt \in Nat
  BY <1>0 DEF Behind, TypeOK, Logs, Copy
<1>2. /\ pc' = [pc EXCEPT ![s] = "idle"] /\ held' = [held EXCEPT ![s] = Nothing]
      /\ UNCHANGED <<endpoint, created, batch, retrying, accepted, manual>>
  BY DEF RecordSuccess, RecordFailure, Return
<1>3. /\ pc' \in [Senders -> {"idle", "lookup", "send", "ok", "bad"}] /\ held' \in [Senders -> Copy]
      /\ \A t \in Senders : pc'[t] = "idle" \/ (pc'[t] = pc[t] /\ held'[t] = held[t])
  BY <1>0, <1>2 DEF TypeOK, Copy, Nothing
<1>4. CASE rows' = rows /\ Fault /\ Excuse({l})
  <2>1. reasons' \in [Logs -> Int] /\ faults' \in 0 .. MaxFaults
    BY <1>0, <1>4 DEF Excuse, Fault, TypeOK
  <2>2. TypeOK'
    BY <1>0, <1>2, <1>3, <1>4, <2>1 DEF TypeOK
  <2> QED  BY <1>2, <1>3, <1>4, <2>2, HandsKeep DEF IInv, Inserted
<1>5. CASE ~(rows' = rows /\ Fault /\ Excuse({l}))
  <2>1. PICK status \in {"success", "cancelled", "failed"}, next \in {"null", "later"} :
           /\ Update(l, status, next) /\ reasons' = reasons /\ faults' = faults
           /\ status = "success" => pc[s] = "ok"
           /\ status = "cancelled" => pc[s] = "bad" /\ held[s].attempt >= MaxRetries
    BY <1>5 DEF RecordSuccess, RecordFailure, Spent
  <2>2. rows' \in [Logs -> Row]
    BY <1>0, <1>1, <2>1 DEF Update, TypeOK, Row, Statuses
  <2>3. TypeOK'
    BY <1>0, <1>2, <1>3, <2>1, <2>2 DEF TypeOK
  <2>4. status = "success" => l \in accepted
    BY <2>1 DEF IInv, AnswersSeen
  <2>5. status = "cancelled" /\ Exists(l) => rows[l].attempt + 1 >= MaxRetries
    <3>1. SUFFICES ASSUME status = "cancelled", Exists(l) PROVE rows[l].attempt + 1 >= MaxRetries
      OBVIOUS
    <3>2. held[s].attempt >= MaxRetries /\ held[s].attempt <= rows[l].attempt + 1
      BY <1>0, <2>1, <3>1 DEF Behind
    <3>3. rows[l].attempt \in Nat
      BY <1>0, <1>1 DEF TypeOK, Row
    <3> QED  BY <1>1, <3>2, <3>3
  <2>6. status \in Statuses /\ next \in {"null", "later", "due"} /\ status # "absent"
    BY <2>1 DEF Statuses
  <2>7. retrying' <= created /\ UNCHANGED <<created, batch, accepted>> /\ Update(l, status, next)
    BY <1>2, <2>1 DEF IInv, Inserted
  <2> HIDE DEF l
  <2> QED  BY <1>1, <1>3, <2>3, <2>4, <2>5, <2>6, <2>7, UpdateKeeps
<1> QED  BY <1>4, <1>5

\* A manual retry puts the row back to pending.
LEMMA ManualKeeps == ASSUME IInv, RetryRead \/ RetryWrite PROVE IInv'
<1> USE WebhookAssumption
<1>0. TypeOK
  BY DEF IInv
<1>1. CASE RetryRead
  <2>1. /\ UNCHANGED <<endpoint, rows, created, batch, pc, held, accepted, reasons, faults>>
        /\ retrying' = created /\ manual' = manual + 1 /\ manual < MaxManual
    BY <1>1 DEF RetryRead
  <2>2. created \in Logs \cup {0} /\ created \in Nat
    BY <1>0 DEF TypeOK, Logs
  <2>3. manual' \in 0 .. MaxManual
    BY <1>0, <2>1 DEF TypeOK
  <2>4. TypeOK'
    BY <1>0, <2>1, <2>2, <2>3 DEF TypeOK
  <2>5. retrying' <= created
    BY <2>1, <2>2
  <2> QED  BY <2>1, <2>4, <2>5, HandsKeep
<1>2. CASE RetryWrite
  <2>1. /\ retrying # 0 /\ retrying' = 0 /\ Update(retrying, "pending", "due") /\ Excuse({retrying})
        /\ UNCHANGED <<endpoint, created, batch, pc, held, accepted, manual, faults>>
    BY <1>2 DEF RetryWrite
  <2>2. retrying \in Logs /\ retrying \in 1 .. created /\ retrying' <= created
    BY <1>0, <2>1 DEF IInv, Inserted, TypeOK, Logs
  <2>3. rows' \in [Logs -> Row] /\ reasons' \in [Logs -> Int]
    BY <1>0, <2>1, <2>2 DEF Update, Excuse, TypeOK, Row, Statuses
  <2>4. TypeOK'
    BY <1>0, <2>1, <2>3 DEF TypeOK
  <2> QED  BY <2>1, <2>2, <2>4, UpdateKeeps DEF Statuses
<1> QED  BY <1>1, <1>2

\* Time makes a row due; a deleted endpoint takes the rows along.
LEMMA RowsKeep ==
  ASSUME IInv, DeleteWebhookEndpoint \/ \E l \in Logs : Elapse(l) PROVE IInv'
<1> USE WebhookAssumption
<1>0. TypeOK
  BY DEF IInv
<1>1. UNCHANGED <<created, batch, pc, held, retrying, accepted, reasons, manual, faults>>
  BY DEF DeleteWebhookEndpoint, Elapse
<1>2. /\ endpoint' \in BOOLEAN /\ rows' \in [Logs -> Row]
      /\ \A k \in Logs : \/ ~Exists(k)'
                         \/ /\ rows'[k].status = rows[k].status
                            /\ rows'[k].attempt = rows[k].attempt
  <2>1. CASE DeleteWebhookEndpoint
    BY <1>0, <2>1 DEF DeleteWebhookEndpoint, Exists, TypeOK, NoRow, Row, Statuses
  <2>2. CASE \E l \in Logs : Elapse(l)
    <3>1. PICK l \in Logs : rows' = [rows EXCEPT ![l].next = "due"] /\ endpoint' = endpoint
      BY <2>2 DEF Elapse
    <3>2. \A k \in Logs : rows'[k] = IF k = l THEN [rows[l] EXCEPT !.next = "due"] ELSE rows[k]
      BY <1>0, <3>1 DEF TypeOK
    <3>3. \A k \in Logs : rows'[k] \in Row /\ rows'[k].status = rows[k].status /\ rows'[k].attempt = rows[k].attempt
      BY <1>0, <3>2 DEF TypeOK, Row
    <3> QED  BY <1>0, <3>1, <3>3 DEF TypeOK
  <2> QED  BY <2>1, <2>2
<1>3. TypeOK'
  BY <1>0, <1>1, <1>2 DEF TypeOK
<1>4. ASSUME NEW copy \in Copy, NEW more \in {0, 1}, Behind(copy, more) PROVE Behind(copy, more)'
  <2>1. copy.log \in Logs
    BY <1>0, <1>4 DEF Behind, Logs, TypeOK
  <2> QED  BY <1>1, <1>2, <1>4, <2>1 DEF Behind, Exists
<1>5. CopiesBehind'
  <2>1. ASSUME NEW copy \in batch PROVE Behind(copy, 0)'
    BY <1>0, <1>4, <2>1 DEF IInv, CopiesBehind, TypeOK
  <2>2. ASSUME NEW s \in Senders, pc[s] # "idle"
        PROVE  Behind(held[s], IF pc[s] = "bad" THEN 1 ELSE 0)'
    <3>1. held[s] \in Copy /\ held'[s] = held[s] /\ pc'[s] = pc[s]
      BY <1>0, <1>1 DEF TypeOK
    <3>2. CASE pc[s] = "bad"
      <4>1. Behind(held[s], 1)'
        BY <1>1, <1>4, <2>2, <3>1, <3>2 DEF IInv, CopiesBehind, Behind, Exists
      <4> QED  BY <3>1, <3>2, <4>1
    <3>3. CASE pc[s] # "bad"
      <4>1. Behind(held[s], 0)'
        BY <1>1, <1>4, <2>2, <3>1, <3>3 DEF IInv, CopiesBehind, Behind, Exists
      <4> QED  BY <3>1, <3>3, <4>1
    <3> QED  BY <3>2, <3>3
  <2> QED  BY <1>1, <2>1, <2>2 DEF CopiesBehind
<1>6. AnswersSeen'
  BY <1>1 DEF IInv, AnswersSeen
<1>7. Inserted' /\ SuccessGenuine' /\ CancelledOnlyWhenSpent'
  BY <1>0, <1>1, <1>2 DEF IInv, Inserted, SuccessGenuine, CancelledOnlyWhenSpent, Exists
<1> QED  BY <1>3, <1>5, <1>6, <1>7 DEF IInv

\* The process ends: the goroutines and the batch are gone.
LEMMA CrashKeeps == ASSUME IInv, Crash \/ \E s \in Senders : Panic(s) PROVE IInv'
<1> USE WebhookAssumption
<1>0. TypeOK /\ created \in Nat
  BY DEF IInv, TypeOK
<1>1. Restarted /\ faults' \in 0 .. MaxFaults
  BY <1>0 DEF Crash, Panic, Fault, TypeOK
<1>2. reasons' \in [Logs -> Int]
  BY <1>0, <1>1 DEF Restarted, Excuse, TypeOK
<1>3. TypeOK'
  BY <1>0, <1>1, <1>2 DEF Restarted, TypeOK, Copy, Nothing
<1>4. /\ UNCHANGED <<rows, created, accepted>> /\ retrying' <= created
      /\ batch' = {} /\ \A s \in Senders : pc'[s] = "idle"
  BY <1>0, <1>1 DEF Restarted
<1> QED  BY <1>3, <1>4, HandsKeep

\* Every step keeps the invariant.
LEMMA NextKeeps == ASSUME IInv, [Next]_vars PROVE IInv'
<1>1. CASE Poll
  BY <1>1, PollerKeeps
<1>2. ASSUME NEW s \in Senders, Deliver(s) \/ SenderStep(s) PROVE IInv'
  <2>1. CASE Deliver(s)
    BY <2>1, DeliverKeeps
  <2>2. CASE Spawn(s) \/ Lookup(s)
    BY <2>2, PollerKeeps
  <2>3. CASE Panic(s)
    BY <2>3, CrashKeeps
  <2>4. CASE Respond(s)
    BY <2>4, RespondKeeps
  <2>5. CASE RecordSuccess(s) \/ RecordFailure(s)
    BY <2>5, RecordKeeps
  <2> QED  BY <1>2, <2>1, <2>2, <2>3, <2>4, <2>5 DEF SenderStep
<1>3. CASE RetryRead \/ RetryWrite
  BY <1>3, ManualKeeps
<1>4. CASE DeleteWebhookEndpoint \/ \E l \in Logs : Elapse(l)
  BY <1>4, RowsKeep
<1>5. CASE Crash
  BY <1>5, CrashKeeps
<1>6. CASE UNCHANGED vars
  BY <1>6 DEF vars, IInv, TypeOK, CopiesBehind, Behind, Exists, AnswersSeen, Inserted,
              SuccessGenuine, CancelledOnlyWhenSpent
<1> QED  BY <1>1, <1>2, <1>3, <1>4, <1>5, <1>6 DEF Next

-----------------------------------------------------------------------------
\* The invariant holds for as long as there are deliveries.
THEOREM Invariant == Spec => []IInv
<1>1. IInv /\ [Next]_vars => IInv'
  BY NextKeeps
<1> QED  BY InitIInv, <1>1, PTL DEF Spec

\* Rows, copies and counters keep their types.
THEOREM TypeCorrect == Spec => []TypeOK
<1>1. IInv => TypeOK
  BY DEF IInv
<1> QED  BY Invariant, <1>1, PTL

\* The log says "success" only of a delivery the receiver accepted, however the
\* goroutines that hold the row overwrite each other.
THEOREM SuccessIsGenuine == Spec => []SuccessGenuine
<1>1. IInv => SuccessGenuine
  BY DEF IInv
<1> QED  BY Invariant, <1>1, PTL

\* A delivery is cancelled only when the row's own counter has reached the limit,
\* although the goroutine decides it on a copy.
THEOREM CancelledWhenSpent == Spec => []CancelledOnlyWhenSpent
<1>1. IInv => CancelledOnlyWhenSpent
  BY DEF IInv
<1> QED  BY Invariant, <1>1, PTL

-----------------------------------------------------------------------------
(* Duplicates.  The reasons counted for a log, and one more while the       *)
(* receiver has not accepted it, cover every copy that may still be sent:   *)
(* those goroutines hold and the one the batch has, or the next poll will.  *)

One(p) == IF p THEN 1 ELSE 0

Holders(l) == {s \in Senders : pc[s] \in {"lookup", "send"} /\ held[s].log = l}
InBatch(l) == \E copy \in batch : copy.log = l
ToCome(l) == InBatch(l) \/ (rows[l].status = "pending" /\ ~InHand(l))

Covered(l) ==
    /\ reasons[l] >= 0
    /\ reasons[l] + One(l \notin accepted) >= Cardinality(Holders(l)) + One(ToCome(l))

\* The batch has one copy of a row; a row that waits for its time is not pending; what
\* was accepted had been inserted.
Orderly ==
    /\ \A c, d \in batch : c.log = d.log => c = d
    /\ \A l \in Logs : rows[l].next = "later" => rows[l].status = "failed"
    /\ accepted \subseteq 1 .. created

AllCovered == Orderly /\ \A l \in Logs : Covered(l)

\* However many goroutines hold copies, MostCopies is enough.
LEMMA HoldersCounted ==
  ASSUME NEW l
  PROVE  /\ IsFiniteSet(Holders(l)) /\ Cardinality(Holders(l)) \in Nat
         /\ Cardinality(Holders(l)) + 1 <= MostCopies /\ MostCopies \in Nat
<1>1. Holders(l) \in SUBSET Senders
  BY DEF Holders
<1>2. Cardinality(Senders) \in Nat
  BY FS_CardinalityType, WebhookAssumption
<1>3. IsFiniteSet(Holders(l)) /\ Cardinality(Holders(l)) <= Cardinality(Senders)
  BY <1>1, FS_Subset, WebhookAssumption
<1>4. Cardinality(Holders(l)) \in Nat
  BY <1>3, FS_CardinalityType
<1> QED  BY <1>2, <1>3, <1>4 DEF MostCopies

\* The same in the next state.
LEMMA HoldersCountedNext ==
  ASSUME NEW l
  PROVE  /\ IsFiniteSet(Holders(l)') /\ Cardinality(Holders(l)') \in Nat
         /\ Cardinality(Holders(l)') + 1 <= MostCopies
<1>1. Holders(l)' \in SUBSET Senders
  BY DEF Holders
<1>2. Cardinality(Senders) \in Nat
  BY FS_CardinalityType, WebhookAssumption
<1>3. IsFiniteSet(Holders(l)') /\ Cardinality(Holders(l)') <= Cardinality(Senders)
  BY <1>1, FS_Subset, WebhookAssumption
<1>4. Cardinality(Holders(l)') \in Nat
  BY <1>3, FS_CardinalityType
<1> QED  BY <1>2, <1>3, <1>4 DEF MostCopies

\* When one goroutine moves, the holders of a log change by that one.
LEMMA OneHolderMoves ==
  ASSUME NEW s \in Senders, NEW l,
         \A t \in Senders \ {s} : pc'[t] = pc[t] /\ held'[t] = held[t]
  PROVE  Cardinality(Holders(l)') + One(s \in Holders(l)) = Cardinality(Holders(l)) + One(s \in Holders(l)')
<1> DEFINE others == Holders(l) \ {s}
<1>1. /\ IsFiniteSet(others) /\ s \notin others /\ Cardinality(others) \in Nat
      /\ Cardinality(others) = Cardinality(Holders(l)) - One(s \in Holders(l))
  BY HoldersCounted, FS_RemoveElement, FS_CardinalityType DEF One
<1>2. Cardinality(others \cup {s}) = Cardinality(others) + 1
  BY <1>1, FS_AddElement
<1>3. s \in Holders(l)' => Holders(l)' = others \cup {s}
  BY DEF Holders
<1>4. s \notin Holders(l)' => Holders(l)' = others
  BY DEF Holders
<1>5. Cardinality(Holders(l)) \in Nat /\ Cardinality(Holders(l)') \in Nat
  BY HoldersCounted, HoldersCountedNext
<1> HIDE DEF others
<1>6. CASE s \in Holders(l)'
  <2>1. Cardinality(Holders(l)') = Cardinality(others) + 1
    BY <1>2, <1>3, <1>6
  <2>2. One(s \in Holders(l)') = 1 /\ One(s \in Holders(l)) \in {0, 1}
    BY <1>6 DEF One
  <2> QED  BY <1>1, <1>5, <2>1, <2>2
<1>7. CASE s \notin Holders(l)'
  BY <1>1, <1>4, <1>5, <1>7 DEF One
<1> QED  BY <1>6, <1>7

\* A reason is counted, unless there are enough.
LEMMA ExcuseCounts ==
  ASSUME TypeOK, NEW ls, Excuse(ls), NEW l \in Logs
  PROVE  /\ reasons[l] \in Int /\ reasons'[l] \in Int /\ reasons'[l] >= reasons[l]
         /\ l \in ls => reasons'[l] = reasons[l] + 1 \/ reasons'[l] >= MostCopies
<1>1. MostCopies \in Nat
  BY HoldersCounted
<1>2. reasons[l] \in Int
  BY DEF TypeOK
<1>3. reasons'[l] = IF l \in ls /\ reasons[l] < MostCopies THEN reasons[l] + 1 ELSE reasons[l]
  BY DEF Excuse
<1> QED  BY <1>1, <1>2, <1>3

\* A log stays covered when nothing about it grows.
LEMMA CoveredStays ==
  ASSUME TypeOK, NEW l \in Logs, Covered(l), reasons'[l] \in Int, reasons'[l] >= reasons[l],
         l \in accepted' => l \in accepted,
         Cardinality(Holders(l)') <= Cardinality(Holders(l)),
         ToCome(l)' => ToCome(l)
  PROVE  Covered(l)'
<1>1. reasons[l] \in Int /\ Cardinality(Holders(l)) \in Nat /\ Cardinality(Holders(l)') \in Nat
  BY HoldersCounted, HoldersCountedNext DEF TypeOK
<1> QED  BY <1>1 DEF Covered, One

\* It stays so too when a reason comes with the copy that is to come.
LEMMA CoveredByReason ==
  ASSUME TypeOK, NEW l \in Logs, Covered(l), reasons'[l] \in Int,
         reasons'[l] = reasons[l] + 1 \/ reasons'[l] >= MostCopies,
         l \in accepted' => l \in accepted,
         Cardinality(Holders(l)') <= Cardinality(Holders(l))
  PROVE  Covered(l)'
<1>1. reasons[l] \in Int /\ Cardinality(Holders(l)) \in Nat /\ Cardinality(Holders(l)') \in Nat
  BY HoldersCounted, HoldersCountedNext DEF TypeOK
<1>2. Cardinality(Holders(l)') + 1 <= MostCopies /\ MostCopies \in Nat
  BY HoldersCounted, HoldersCountedNext
<1>3. CASE reasons'[l] = reasons[l] + 1
  BY <1>1, <1>3 DEF Covered, One
<1>4. CASE reasons'[l] >= MostCopies
  BY <1>1, <1>2, <1>4 DEF Covered, One
<1> QED  BY <1>3, <1>4

\* Deliver's row is the first copy of a log nobody has accepted.
LEMMA DeliverCovers == ASSUME IInv, AllCovered, NEW s \in Senders, Deliver(s) PROVE AllCovered'
<1>0. PICK l \in Logs : l = created + 1
  BY WebhookAssumption DEF Deliver, IInv, TypeOK, Logs
<1>1. /\ pc[s] = "idle" /\ created' = l
      /\ UNCHANGED <<batch, accepted, reasons>>
      /\ rows' = [rows EXCEPT ![l] = [status |-> "pending", attempt |-> 0, next |-> "null"]]
      /\ \/ /\ pc' = [pc EXCEPT ![s] = "send"]
            /\ held' = [held EXCEPT ![s] = [log |-> l, attempt |-> 0]]
         \/ UNCHANGED <<pc, held>>
  BY <1>0 DEF Deliver, IInv, TypeOK, Logs
<1>2. created \in Nat /\ l \notin accepted /\ TypeOK
  BY <1>0 DEF IInv, TypeOK, AllCovered, Orderly
<1>3. /\ \A copy \in batch : copy.log # l
      /\ \A t \in Senders : pc[t] # "idle" => held[t].log # l
  BY <1>0, <1>2 DEF IInv, CopiesBehind, Behind
<1>4. \A t \in Senders \ {s} : pc'[t] = pc[t] /\ held'[t] = held[t]
  BY <1>1, <1>2 DEF TypeOK
<1>5. Orderly'
  BY <1>0, <1>1, <1>2 DEF AllCovered, Orderly, IInv, TypeOK
<1>6. ASSUME NEW k \in Logs, k # l PROVE Covered(k)'
  <2>1. Holders(k)' = Holders(k)
    BY <1>1, <1>6 DEF Holders, IInv, TypeOK
  <2>2. ToCome(k)' => ToCome(k)
    BY <1>1, <1>6 DEF ToCome, InBatch, InHand, IInv, TypeOK
  <2>3. reasons'[k] \in Int /\ reasons'[k] >= reasons[k] /\ Covered(k)
    BY <1>1, <1>2 DEF TypeOK, AllCovered
  <2> QED  BY <1>1, <1>2, <2>1, <2>2, <2>3, CoveredStays, HoldersCounted
<1>7. Covered(l)'
  <2>1. Holders(l) = {} /\ Cardinality(Holders(l)) = 0
    BY <1>3, FS_EmptySet DEF Holders
  <2>2. Cardinality(Holders(l)') + One(s \in Holders(l)) = Cardinality(Holders(l)) + One(s \in Holders(l)')
    BY <1>4, OneHolderMoves
  <2>3. s \notin Holders(l) /\ One(s \in Holders(l)) = 0 /\ One(s \in Holders(l)') \in {0, 1}
    BY <2>1 DEF One
  <2>4. Cardinality(Holders(l)') = One(s \in Holders(l)')
    BY <2>1, <2>2, <2>3, HoldersCountedNext
  <2>5. ~InBatch(l)'
    BY <1>1, <1>3 DEF InBatch
  <2>6. s \in Holders(l)' => InHand(l)'
    BY DEF InHand, Holders
  <2>7. One(s \in Holders(l)') + One(ToCome(l)') <= 1
    BY <2>5, <2>6 DEF One, ToCome
  <2>8. reasons'[l] \in Int /\ reasons'[l] >= 0 /\ One(l \notin accepted') = 1
    BY <1>1, <1>2 DEF TypeOK, AllCovered, Covered, One
  <2>9. One(ToCome(l)') \in {0, 1}
    BY DEF One
  <2> QED  BY <2>3, <2>4, <2>7, <2>8, <2>9 DEF Covered
<1> QED  BY <1>5, <1>6, <1>7 DEF AllCovered

\* A poll gives a reason where it takes a row somebody is sending.
LEMMA PollCovers == ASSUME IInv, AllCovered, Poll PROVE AllCovered'
<1> DEFINE taken == {l \in Select : Cardinality({older \in Select : older < l}) < MaxConcurrent}
<1>1. /\ batch = {} /\ UNCHANGED <<rows, created, pc, held, accepted>>
      /\ batch' = {[log |-> l, attempt |-> rows[l].attempt] : l \in taken}
      /\ Excuse({l \in taken : InHand(l)})
  BY DEF Poll
<1>2. \A l \in taken : l \in Logs /\ rows[l].status = "pending"
  BY DEF Select
<1> HIDE DEF taken
<1>3. Orderly'
  BY <1>1 DEF AllCovered, Orderly
<1>4. ASSUME NEW l \in Logs PROVE Covered(l)'
  <2>1. Holders(l)' = Holders(l) /\ (InHand(l)' <=> InHand(l)) /\ TypeOK /\ Covered(l)
    BY <1>1 DEF Holders, InHand, IInv, AllCovered
  <2>2. InBatch(l)' <=> l \in taken
    <3>1. ASSUME NEW copy \in batch', copy.log = l PROVE l \in taken
      BY <1>1, <3>1
    <3>2. ASSUME l \in taken PROVE [log |-> l, attempt |-> rows[l].attempt] \in batch'
      BY <1>1, <3>2
    <3> QED  BY <3>1, <3>2 DEF InBatch
  <2>3. CASE l \in taken /\ InHand(l)
    <3>1. reasons'[l] \in Int /\ (reasons'[l] = reasons[l] + 1 \/ reasons'[l] >= MostCopies)
      BY <1>1, <2>1, <2>3, ExcuseCounts
    <3> QED  BY <1>1, <2>1, <3>1, CoveredByReason, HoldersCounted
  <2>4. CASE ~(l \in taken /\ InHand(l))
    <3>1. ToCome(l)' => ToCome(l)
      BY <1>1, <1>2, <2>1, <2>2, <2>4 DEF ToCome
    <3>2. reasons'[l] \in Int /\ reasons'[l] >= reasons[l]
      BY <1>1, <2>1, ExcuseCounts
    <3> QED  BY <1>1, <2>1, <3>1, <3>2, CoveredStays, HoldersCounted
  <2> QED  BY <2>3, <2>4
<1> QED  BY <1>3, <1>4 DEF AllCovered

\* The goroutine that takes a copy holds what the batch had.
LEMMA SpawnCovers == ASSUME IInv, AllCovered, NEW s \in Senders, Spawn(s) PROVE AllCovered'
<1>1. PICK copy \in batch : batch' = batch \ {copy} /\ held' = [held EXCEPT ![s] = copy]
  BY DEF Spawn
<1>2. /\ pc[s] = "idle" /\ pc' = [pc EXCEPT ![s] = "lookup"]
      /\ UNCHANGED <<rows, created, accepted, reasons>>
  BY DEF Spawn
<1>3. /\ pc'[s] = "lookup" /\ held'[s] = copy /\ TypeOK
      /\ \A t \in Senders \ {s} : pc'[t] = pc[t] /\ held'[t] = held[t]
  BY <1>1, <1>2 DEF IInv, TypeOK
<1>4. Orderly'
  BY <1>1, <1>2 DEF AllCovered, Orderly
<1>5. ASSUME NEW l \in Logs PROVE Covered(l)'
  <2>1. /\ Covered(l) /\ reasons[l] \in Int /\ reasons'[l] = reasons[l] /\ (l \in accepted' <=> l \in accepted)
        /\ Cardinality(Holders(l)) \in Nat /\ Cardinality(Holders(l)') \in Nat
    BY <1>2, <1>3, HoldersCounted, HoldersCountedNext DEF TypeOK, AllCovered
  <2>2. Cardinality(Holders(l)') + One(s \in Holders(l)) = Cardinality(Holders(l)) + One(s \in Holders(l)')
    BY <1>3, OneHolderMoves
  <2>3. s \notin Holders(l) /\ (s \in Holders(l)' <=> copy.log = l)
    BY <1>2, <1>3 DEF Holders
  <2>4. CASE copy.log = l
    <3>1. InBatch(l) /\ ~InBatch(l)'
      BY <1>1, <2>4 DEF InBatch, AllCovered, Orderly
    <3>2. InHand(l)'
      BY <1>3, <2>4 DEF InHand
    <3>3. ToCome(l) /\ ~ToCome(l)'
      BY <3>1, <3>2 DEF ToCome
    <3>4. Cardinality(Holders(l)') = Cardinality(Holders(l)) + 1
      BY <2>1, <2>2, <2>3, <2>4 DEF One
    <3> QED  BY <2>1, <3>3, <3>4 DEF Covered, One
  <2>5. CASE copy.log # l
    <3>1. Cardinality(Holders(l)') = Cardinality(Holders(l))
      BY <2>1, <2>2, <2>3, <2>5 DEF One
    <3>2. ToCome(l)' => ToCome(l)
      BY <1>1, <1>2, <1>3, <2>5 DEF ToCome, InBatch, InHand
    <3> QED  BY <1>3, <2>1, <3>1, <3>2, CoveredStays
  <2> QED  BY <2>4, <2>5
<1> QED  BY <1>4, <1>5 DEF AllCovered

\* A goroutine that goes on to send holds what it held; one that gives up, nothing.
LEMMA LookupCovers == ASSUME IInv, AllCovered, NEW s \in Senders, Lookup(s) PROVE AllCovered'
<1>1. /\ pc[s] = "lookup" /\ UNCHANGED <<rows, created, batch, accepted, reasons>> /\ TypeOK
      /\ \/ pc'[s] = "send" /\ held'[s] = held[s]
         \/ pc'[s] = "idle"
      /\ \A t \in Senders \ {s} : pc'[t] = pc[t] /\ held'[t] = held[t]
  BY DEF Lookup, Return, IInv, TypeOK
<1>2. Orderly'
  BY <1>1 DEF AllCovered, Orderly
<1>3. ASSUME NEW l \in Logs PROVE Covered(l)'
  <2>1. /\ Covered(l) /\ reasons[l] \in Int /\ reasons'[l] = reasons[l] /\ (l \in accepted' <=> l \in accepted)
        /\ Cardinality(Holders(l)) \in Nat /\ Cardinality(Holders(l)') \in Nat
    BY <1>1, HoldersCounted, HoldersCountedNext DEF TypeOK, AllCovered
  <2>2. Cardinality(Holders(l)') + One(s \in Holders(l)) = Cardinality(Holders(l)) + One(s \in Holders(l)')
    BY <1>1, OneHolderMoves
  <2>3. CASE pc'[s] = "idle" /\ held[s].log = l
    <3>1. s \in Holders(l) /\ s \notin Holders(l)'
      BY <1>1, <2>3 DEF Holders
    <3>2. InHand(l)
      BY <1>1, <2>3 DEF InHand
    <3>3. Cardinality(Holders(l)') = Cardinality(Holders(l)) - 1
      BY <2>1, <2>2, <3>1 DEF One
    <3> QED  BY <2>1, <3>3 DEF Covered, One
  <2>4. CASE ~(pc'[s] = "idle" /\ held[s].log = l)
    <3>1. s \in Holders(l)' <=> s \in Holders(l)
      BY <1>1, <2>4 DEF Holders
    <3>2. Cardinality(Holders(l)') = Cardinality(Holders(l))
      BY <2>1, <2>2, <3>1 DEF One
    <3>3. ToCome(l)' => ToCome(l)
      BY <1>1, <2>4 DEF ToCome, InBatch, InHand
    <3> QED  BY <1>1, <2>1, <3>2, <3>3, CoveredStays
  <2> QED  BY <2>3, <2>4
<1> QED  BY <1>2, <1>3 DEF AllCovered

\* The receiver accepts what a goroutine was sending, which is sent no longer.
LEMMA RespondCovers == ASSUME IInv, AllCovered, NEW s \in Senders, Respond(s) PROVE AllCovered'
<1> DEFINE l == held[s].log
<1>1. /\ pc[s] = "send" /\ pc'[s] \in {"ok", "bad"} /\ held'[s].log = l
      /\ UNCHANGED <<rows, created, batch>>
      /\ Accepts(l) \/ UNCHANGED <<accepted, reasons>>
      /\ \A t \in Senders \ {s} : pc'[t] = pc[t] /\ held'[t] = held[t]
  BY DEF Respond, IInv, TypeOK, Copy
<1>2. TypeOK /\ created \in Nat /\ l \in 1 .. created /\ l \in Logs
  BY <1>1, WebhookAssumption DEF IInv, TypeOK, CopiesBehind, Behind, Logs
<1> HIDE DEF l
<1>3. /\ UNCHANGED <<rows, created, batch>>
      /\ \/ accepted' = accepted \cup {l} /\ reasons' = [reasons EXCEPT ![l] = IF l \in accepted THEN reasons[l] - 1 ELSE reasons[l]]
         \/ UNCHANGED <<accepted, reasons>>
  BY <1>1 DEF Accepts
<1>4. Orderly'
  BY <1>2, <1>3 DEF AllCovered, Orderly
<1>5. ASSUME NEW k \in Logs PROVE Covered(k)'
  <2>1. /\ Covered(k) /\ reasons[k] \in Int
        /\ Cardinality(Holders(k)) \in Nat /\ Cardinality(Holders(k)') \in Nat
    BY <1>2, HoldersCounted, HoldersCountedNext DEF TypeOK, AllCovered
  <2>2. Cardinality(Holders(k)') + One(s \in Holders(k)) = Cardinality(Holders(k)) + One(s \in Holders(k)')
    BY <1>1, OneHolderMoves
  <2>3. s \notin Holders(k)' /\ (s \in Holders(k) <=> k = l)
    BY <1>1 DEF Holders, l
  <2>4. ToCome(k)' <=> ToCome(k)
    BY <1>1, <1>3 DEF ToCome, InBatch, InHand, l
  <2>5. CASE k # l
    <3>1. Cardinality(Holders(k)') = Cardinality(Holders(k))
      BY <2>1, <2>2, <2>3, <2>5 DEF One
    <3>2. reasons'[k] = reasons[k] /\ (k \in accepted' => k \in accepted)
      BY <1>2, <1>3, <2>5 DEF TypeOK
    <3> QED  BY <1>2, <2>1, <2>4, <3>1, <3>2, CoveredStays
  <2>6. CASE k = l
    <3>1. Cardinality(Holders(k)') + 1 = Cardinality(Holders(k))
      BY <2>1, <2>2, <2>3, <2>6 DEF One
    <3>2. One(ToCome(k)') = One(ToCome(k)) /\ One(ToCome(k)) \in {0, 1}
      BY <2>4 DEF One
    <3>3. reasons'[k] \in Int /\ reasons'[k] + One(k \notin accepted') >= reasons[k] + One(k \notin accepted) - 1
      BY <1>2, <1>3, <2>1, <2>6 DEF TypeOK, One
    <3>4. reasons'[k] >= 0
      <4>1. CASE reasons'[k] = reasons[k]
        BY <2>1, <4>1 DEF Covered
      <4>2. CASE k \in accepted /\ reasons'[k] = reasons[k] - 1
        BY <2>1, <3>1, <3>2, <4>2 DEF Covered, One
      <4> QED  BY <1>2, <1>3, <2>6, <4>1, <4>2 DEF TypeOK
    <3> DEFINE h == Cardinality(Holders(k))
               r == reasons[k] + One(k \notin accepted)
    <3>5. r \in Int /\ h \in Nat /\ r >= h + One(ToCome(k))
      BY <2>1 DEF Covered, One
    <3>6. reasons'[k] + One(k \notin accepted') >= r - 1 /\ reasons'[k] + One(k \notin accepted') \in Int
      <4>1. One(k \notin accepted') \in Int /\ One(k \notin accepted) \in Int
        BY DEF One
      <4> QED  BY <2>1, <3>3, <4>1
    <3> HIDE DEF h, r
    <3>7. Cardinality(Holders(k)') = h - 1
      BY <2>1, <3>1 DEF h
    <3> QED  BY <3>2, <3>4, <3>5, <3>6, <3>7 DEF Covered
  <2> QED  BY <2>5, <2>6
<1> QED  BY <1>4, <1>5 DEF AllCovered

\* An outcome that is recorded leaves nothing to send; one that is lost is a reason.
LEMMA RecordCovers ==
  ASSUME IInv, AllCovered, NEW s \in Senders, RecordSuccess(s) \/ RecordFailure(s) PROVE AllCovered'
<1>0. TypeOK /\ held[s].log \in Logs
  BY WebhookAssumption DEF IInv, TypeOK, CopiesBehind, Behind, RecordSuccess, RecordFailure, Logs
<1>1. PICK l \in Logs : l = held[s].log
  BY <1>0
<1>2. /\ pc[s] \in {"ok", "bad"} /\ pc'[s] = "idle" /\ UNCHANGED <<created, batch, accepted>>
      /\ \A t \in Senders \ {s} : pc'[t] = pc[t] /\ held'[t] = held[t]
  BY <1>0 DEF RecordSuccess, RecordFailure, Return, TypeOK
<1>3. ASSUME NEW k \in Logs PROVE Cardinality(Holders(k)') = Cardinality(Holders(k))
  <2>1. Holders(k)' = Holders(k)
    BY <1>2 DEF Holders
  <2> QED  BY <2>1
<1>4. ASSUME NEW k \in Logs, k # l PROVE InHand(k)' <=> InHand(k)
  BY <1>1, <1>2, <1>4 DEF InHand
<1>5. CASE Excuse({l}) /\ rows' = rows
  <2>1. Orderly'
    BY <1>2, <1>5 DEF AllCovered, Orderly
  <2>2. ASSUME NEW k \in Logs PROVE Covered(k)'
    <3>1. /\ reasons'[k] \in Int /\ reasons'[k] >= reasons[k] /\ Covered(k)
          /\ k = l => reasons'[k] = reasons[k] + 1 \/ reasons'[k] >= MostCopies
      BY <1>0, <1>5, ExcuseCounts DEF AllCovered
    <3>2. Cardinality(Holders(k)') <= Cardinality(Holders(k))
      BY <1>3, HoldersCounted
    <3>3. CASE k = l
      BY <1>0, <1>2, <3>1, <3>2, <3>3, CoveredByReason
    <3>4. CASE k # l
      <4>1. ToCome(k)' => ToCome(k)
        BY <1>2, <1>4, <1>5, <3>4 DEF ToCome, InBatch
      <4> QED  BY <1>0, <1>2, <3>1, <3>2, <4>1, CoveredStays
    <3> QED  BY <3>3, <3>4
  <2> QED  BY <2>1, <2>2 DEF AllCovered
<1>6. CASE reasons' = reasons /\ \E status \in {"success", "cancelled", "failed"}, next \in {"null", "later"} :
               Update(l, status, next) /\ (next = "later" => status = "failed")
  <2>1. PICK status \in {"success", "cancelled", "failed"}, next \in {"null", "later"} :
               Update(l, status, next) /\ (next = "later" => status = "failed")
    BY <1>6
  <2>2. ASSUME NEW k \in Logs
        PROVE  \/ rows'[k] = rows[k] /\ (k # l \/ rows[k].status = "absent")
               \/ rows'[k].status = status /\ rows'[k].next = next
    BY <1>0, <2>1 DEF Update, Exists, TypeOK
  <2>3. Orderly'
    BY <1>2, <2>1, <2>2 DEF AllCovered, Orderly
  <2>4. ASSUME NEW k \in Logs PROVE Covered(k)'
    <3>1. ToCome(k)' => ToCome(k)
      BY <1>2, <1>4, <2>2 DEF ToCome, InBatch
    <3>2. reasons'[k] \in Int /\ reasons'[k] >= reasons[k] /\ Covered(k)
      BY <1>0, <1>6 DEF TypeOK, AllCovered
    <3>3. Cardinality(Holders(k)') <= Cardinality(Holders(k))
      BY <1>3, HoldersCounted
    <3> QED  BY <1>0, <1>2, <3>1, <3>2, <3>3, CoveredStays
  <2> QED  BY <2>3, <2>4 DEF AllCovered
<1>7. CASE RecordSuccess(s)
  <2>1. \/ Update(l, "success", "null") /\ reasons' = reasons
        \/ Excuse({l}) /\ rows' = rows
    BY <1>1, <1>7 DEF RecordSuccess
  <2> QED  BY <1>5, <1>6, <2>1
<1>8. CASE RecordFailure(s)
  <2>1. \/ Update(l, "cancelled", "null") /\ reasons' = reasons
        \/ Update(l, "failed", "later") /\ reasons' = reasons
        \/ Excuse({l}) /\ rows' = rows
    BY <1>1, <1>8 DEF RecordFailure
  <2> QED  BY <1>5, <1>6, <2>1
<1> QED  BY <1>7, <1>8

\* Who asks for a delivery again has a reason.
LEMMA ManualCovers == ASSUME IInv, AllCovered, RetryRead \/ RetryWrite PROVE AllCovered'
<1>0. TypeOK
  BY DEF IInv
<1>1. UNCHANGED <<created, batch, pc, held, accepted>>
  BY DEF RetryRead, RetryWrite
<1>2. ASSUME NEW k \in Logs
      PROVE  Cardinality(Holders(k)') <= Cardinality(Holders(k)) /\ (InHand(k)' <=> InHand(k))
  <2>1. Holders(k)' = Holders(k) /\ (InHand(k)' <=> InHand(k))
    BY <1>1 DEF Holders, InHand
  <2> QED  BY <2>1, HoldersCounted
<1>3. CASE RetryRead
  <2>1. rows' = rows /\ reasons' = reasons
    BY <1>3 DEF RetryRead
  <2>2. Orderly'
    BY <1>1, <2>1 DEF AllCovered, Orderly
  <2>3. ASSUME NEW k \in Logs PROVE Covered(k)'
    <3>1. ToCome(k)' => ToCome(k)
      BY <1>1, <1>2, <2>1 DEF ToCome, InBatch
    <3>2. reasons'[k] \in Int /\ reasons'[k] >= reasons[k] /\ Covered(k)
      BY <1>0, <2>1 DEF TypeOK, AllCovered
    <3> QED  BY <1>0, <1>1, <1>2, <3>1, <3>2, CoveredStays
  <2> QED  BY <2>2, <2>3 DEF AllCovered
<1>4. CASE RetryWrite
  <2>1. PICK l \in Logs : l = retrying
    BY <1>0, <1>4 DEF TypeOK, RetryWrite
  <2>2. Excuse({l}) /\ Update(l, "pending", "due")
    BY <1>4, <2>1 DEF RetryWrite
  <2>3. ASSUME NEW k \in Logs
        PROVE  rows'[k] = rows[k] \/ (k = l /\ rows'[k].next = "due")
    BY <1>0, <2>2 DEF Update, TypeOK
  <2>4. Orderly'
    BY <1>1, <2>3 DEF AllCovered, Orderly
  <2>5. ASSUME NEW k \in Logs PROVE Covered(k)'
    <3>1. /\ reasons'[k] \in Int /\ reasons'[k] >= reasons[k] /\ Covered(k)
          /\ k = l => reasons'[k] = reasons[k] + 1 \/ reasons'[k] >= MostCopies
      BY <1>0, <2>2, ExcuseCounts DEF AllCovered
    <3>2. CASE k = l
      BY <1>0, <1>1, <1>2, <3>1, <3>2, CoveredByReason
    <3>3. CASE k # l
      <4>1. ToCome(k)' => ToCome(k)
        BY <1>1, <1>2, <2>3, <3>3 DEF ToCome, InBatch
      <4> QED  BY <1>0, <1>1, <1>2, <3>1, <4>1, CoveredStays
    <3> QED  BY <3>2, <3>3
  <2> QED  BY <2>4, <2>5 DEF AllCovered
<1> QED  BY <1>3, <1>4

\* No row becomes pending by being deleted, or by waiting.
LEMMA RowsCovered ==
  ASSUME IInv, AllCovered, DeleteWebhookEndpoint \/ \E l \in Logs : Elapse(l) PROVE AllCovered'
<1>0. TypeOK
  BY DEF IInv
<1>1. UNCHANGED <<created, batch, pc, held, accepted, reasons>>
  BY DEF DeleteWebhookEndpoint, Elapse
<1>2. ASSUME NEW k \in Logs
      PROVE  /\ rows'[k].status = "pending" => rows[k].status = "pending"
             /\ rows'[k].next = "later" => rows'[k].status = "failed"
  <2>1. rows[k].next = "later" => rows[k].status = "failed"
    BY DEF AllCovered, Orderly
  <2>2. CASE DeleteWebhookEndpoint
    BY <2>2 DEF DeleteWebhookEndpoint, NoRow
  <2>3. CASE \E l \in Logs : Elapse(l)
    <3>1. PICK l \in Logs : rows' = [rows EXCEPT ![l].next = "due"]
      BY <2>3 DEF Elapse
    <3>2. rows[k] \in Row
      BY <1>0 DEF TypeOK
    <3>3. rows'[k] = IF k = l THEN [rows[k] EXCEPT !.next = "due"] ELSE rows[k]
      BY <1>0, <3>1 DEF TypeOK
    <3> QED  BY <2>1, <3>2, <3>3 DEF Row
  <2> QED  BY <2>2, <2>3
<1>3. Orderly'
  BY <1>1, <1>2 DEF AllCovered, Orderly
<1>4. ASSUME NEW k \in Logs PROVE Covered(k)'
  <2>1. Holders(k)' = Holders(k) /\ (InHand(k)' <=> InHand(k))
    BY <1>1 DEF Holders, InHand
  <2>2. ToCome(k)' => ToCome(k)
    BY <1>1, <1>2, <2>1 DEF ToCome, InBatch
  <2>3. reasons'[k] \in Int /\ reasons'[k] >= reasons[k] /\ Covered(k)
    BY <1>0, <1>1 DEF TypeOK, AllCovered
  <2> QED  BY <1>0, <1>1, <2>1, <2>2, <2>3, CoveredStays, HoldersCounted
<1> QED  BY <1>3, <1>4 DEF AllCovered

\* Of the copies that go down with the process, the rows that are still pending come back
\* once each; what was answered and not recorded is a reason.
LEMMA CrashCovers ==
  ASSUME IInv, AllCovered, Crash \/ \E s \in Senders : Panic(s) PROVE AllCovered'
<1>0. TypeOK
  BY DEF IInv
<1> DEFINE lost == {held[s].log : s \in {t \in Senders : pc[t] \in {"ok", "bad"}}}
<1>1. /\ \A s \in Senders : pc'[s] = "idle"
      /\ batch' = {} /\ UNCHANGED <<rows, created, accepted>> /\ Excuse(lost)
  BY DEF Crash, Panic, Restarted
<1>2. Orderly'
  BY <1>1 DEF AllCovered, Orderly
<1>3. ASSUME NEW k \in Logs PROVE Covered(k)'
  <2>1. Cardinality(Holders(k)') = 0
    <3>1. Holders(k)' = {}
      BY <1>1 DEF Holders
    <3> QED  BY <3>1, FS_EmptySet
  <2>2. /\ reasons'[k] \in Int /\ reasons'[k] >= reasons[k] /\ Covered(k) /\ reasons[k] \in Int
        /\ k \in lost => reasons'[k] = reasons[k] + 1 \/ reasons'[k] >= MostCopies
        /\ Cardinality(Holders(k)) \in Nat
    BY <1>0, <1>1, ExcuseCounts, HoldersCounted DEF AllCovered
  <2>3. CASE k \in lost
    <3>1. Cardinality(Holders(k)') <= Cardinality(Holders(k))
      BY <2>1, <2>2
    <3> QED  BY <1>0, <1>1, <2>2, <2>3, <3>1, CoveredByReason
  <2>4. CASE k \notin lost
    <3>1. CASE Holders(k) = {}
      <4>1. ~InHand(k)
        BY <1>0, <2>4, <3>1 DEF Holders, InHand, TypeOK
      <4>2. ToCome(k)' => ToCome(k)
        BY <1>1, <4>1 DEF ToCome, InBatch
      <4> QED  BY <1>0, <1>1, <2>1, <2>2, <4>2, CoveredStays
    <3>2. CASE Holders(k) # {}
      <4>1. Cardinality(Holders(k)) >= 1
        BY <2>2, <3>2, HoldersCounted, FS_EmptySet
      <4>2. /\ One(ToCome(k)) \in {0, 1} /\ One(ToCome(k)') \in {0, 1}
            /\ One(k \notin accepted) \in {0, 1} /\ One(k \notin accepted') = One(k \notin accepted)
        BY <1>1 DEF One
      <4>3. reasons[k] >= 0 /\ reasons[k] + One(k \notin accepted) >= Cardinality(Holders(k)) + One(ToCome(k))
        BY <2>2 DEF Covered
      <4>4. reasons'[k] >= 0
        BY <2>2, <4>3
      <4>5. reasons'[k] + One(k \notin accepted') >= Cardinality(Holders(k)') + One(ToCome(k)')
        BY <2>1, <2>2, <4>1, <4>2, <4>3
      <4> QED  BY <4>4, <4>5 DEF Covered
    <3> QED  BY <3>1, <3>2
  <2> QED  BY <2>3, <2>4
<1> QED  BY <1>2, <1>3 DEF AllCovered

\* Every step leaves every copy covered.
LEMMA NextCovers == ASSUME IInv, AllCovered, [Next]_vars PROVE AllCovered'
<1>1. CASE Poll
  BY <1>1, PollCovers
<1>2. ASSUME NEW s \in Senders, Deliver(s) \/ SenderStep(s) PROVE AllCovered'
  <2>1. CASE Deliver(s)
    BY <2>1, DeliverCovers
  <2>2. CASE Spawn(s)
    BY <2>2, SpawnCovers
  <2>3. CASE Lookup(s)
    BY <2>3, LookupCovers
  <2>4. CASE Panic(s)
    BY <2>4, CrashCovers
  <2>5. CASE Respond(s)
    BY <2>5, RespondCovers
  <2>6. CASE RecordSuccess(s) \/ RecordFailure(s)
    BY <2>6, RecordCovers
  <2> QED  BY <1>2, <2>1, <2>2, <2>3, <2>4, <2>5, <2>6 DEF SenderStep
<1>3. CASE RetryRead \/ RetryWrite
  BY <1>3, ManualCovers
<1>4. CASE DeleteWebhookEndpoint \/ \E l \in Logs : Elapse(l)
  BY <1>4, RowsCovered
<1>5. CASE Crash
  BY <1>5, CrashCovers
<1>6. CASE UNCHANGED vars
  <2>1. Orderly'
    BY <1>6 DEF vars, AllCovered, Orderly
  <2>2. ASSUME NEW l \in Logs PROVE Covered(l)'
    <3>1. Holders(l)' = Holders(l) /\ (ToCome(l)' <=> ToCome(l))
      BY <1>6 DEF vars, Holders, ToCome, InBatch, InHand
    <3>2. reasons'[l] \in Int /\ reasons'[l] >= reasons[l] /\ Covered(l) /\ accepted' = accepted /\ TypeOK
      BY <1>6 DEF vars, IInv, TypeOK, AllCovered
    <3> QED  BY <3>1, <3>2, CoveredStays, HoldersCounted
  <2> QED  BY <2>1, <2>2 DEF AllCovered
<1> QED  BY <1>1, <1>2, <1>3, <1>4, <1>5, <1>6 DEF Next

\* There is nothing to cover before the first delivery.
LEMMA InitCovers == Init => AllCovered
<1> SUFFICES ASSUME Init PROVE AllCovered
  OBVIOUS
<1>1. Orderly
  BY DEF Init, Orderly, NoRow
<1>2. ASSUME NEW l \in Logs PROVE Covered(l)
  <2>1. Holders(l) = {} /\ Cardinality(Holders(l)) = 0
    BY FS_EmptySet DEF Init, Holders
  <2>2. ~ToCome(l) /\ reasons[l] = 0 /\ l \notin accepted
    BY DEF Init, ToCome, InBatch, NoRow
  <2> QED  BY <2>1, <2>2 DEF Covered, One
<1> QED  BY <1>1, <1>2 DEF AllCovered

\* The reasons cover the copies, whatever is polled, delivered, retried or lost.
THEOREM ReasonsCover == Spec => []AllCovered
<1>1. IInv /\ AllCovered /\ [Next]_vars => AllCovered'
  BY NextCovers
<1> QED  BY Invariant, InitCovers, <1>1, PTL DEF Spec

\* The receiver accepts an event twice only for a cause, however many goroutines hold
\* copies of its row.
THEOREM DuplicatesAreExplained == Spec => []DuplicatesExplained
<1>1. AllCovered => DuplicatesExplained
  BY DEF AllCovered, Covered, DuplicatesExplained
<1> QED  BY ReasonsCover, <1>1, PTL
-----------------------------------------------------------------------------
(* A success that was recorded: every copy that is still about is older. *)

Older(copy, more, l) == copy.log = l => copy.attempt + more <= rows[l].attempt

OlderThanSuccess ==
    \A l \in Logs : rows[l].status = "success" =>
        /\ \A copy \in batch : Older(copy, 1, l)
        /\ \A s \in Senders : pc[s] # "idle" => Older(held[s], IF pc[s] = "bad" THEN 0 ELSE 1, l)

\* An update makes every copy of its row older than the row.
LEMMA UpdateOutruns ==
  ASSUME IInv, NEW l \in Logs, NEW status, NEW next, Update(l, status, next), status # "absent",
         rows'[l].status = "success"
  PROVE  /\ \A copy \in batch : Older(copy, 1, l)'
         /\ \A s \in Senders : pc[s] # "idle" =>
               (held[s].log = l => held[s].attempt + (IF pc[s] = "bad" THEN 0 ELSE 1) <= rows'[l].attempt)
<1>0. TypeOK /\ rows[l] \in Row
  BY DEF IInv, TypeOK
<1>1. Exists(l) /\ rows'[l].attempt = rows[l].attempt + 1 /\ rows[l].attempt \in Nat
  BY <1>0 DEF Update, Exists, TypeOK, Row
<1>2. ASSUME NEW copy \in batch, copy.log = l PROVE copy.attempt + 1 <= rows'[l].attempt
  <2>1. Behind(copy, 0) /\ copy \in Copy
    BY <1>0 DEF IInv, CopiesBehind, TypeOK
  <2> QED  BY <1>1, <1>2, <2>1 DEF Behind, Copy
<1>3. ASSUME NEW s \in Senders, pc[s] # "idle", held[s].log = l
      PROVE  held[s].attempt + (IF pc[s] = "bad" THEN 0 ELSE 1) <= rows'[l].attempt
  <2>1. Behind(held[s], IF pc[s] = "bad" THEN 1 ELSE 0) /\ held[s] \in Copy
    BY <1>0, <1>3 DEF IInv, CopiesBehind, TypeOK
  <2> QED  BY <1>1, <1>3, <2>1 DEF Behind, Copy
<1>4. \A copy \in batch : Older(copy, 1, l)'
  BY <1>2 DEF Older
<1> QED  BY <1>3, <1>4

\* While a row stays a success nobody gets a newer copy of it.
LEMMA OlderKeeps ==
  ASSUME IInv, OlderThanSuccess, [Next]_vars PROVE OlderThanSuccess'
<1>0. TypeOK /\ TypeOK'
  <2>1. IInv'
    BY NextKeeps
  <2> QED  BY <2>1 DEF IInv
<1> SUFFICES ASSUME NEW l \in Logs, rows'[l].status = "success"
             PROVE  /\ \A copy \in batch' : Older(copy, 1, l)'
                    /\ \A s \in Senders : pc'[s] # "idle" =>
                          Older(held[s], IF pc[s] = "bad" THEN 0 ELSE 1, l)'
  BY DEF OlderThanSuccess
<1>1. ASSUME rows'[l].status = rows[l].status, rows'[l].attempt = rows[l].attempt,
             \A copy \in batch' : copy \in batch \/ copy.log # l,
             \A s \in Senders : \/ pc'[s] = "idle" \/ (pc'[s] = pc[s] /\ held'[s] = held[s])
                                \/ held'[s].log # l
      PROVE  /\ \A copy \in batch' : Older(copy, 1, l)'
             /\ \A s \in Senders : pc'[s] # "idle" =>
                   Older(held[s], IF pc[s] = "bad" THEN 0 ELSE 1, l)'
  BY <1>1 DEF OlderThanSuccess, Older
<1>2. ASSUME NEW k \in Logs, NEW status, NEW next, Update(k, status, next), status # "absent",
             batch' = batch,
             \A s \in Senders : pc'[s] = "idle" \/ (pc'[s] = pc[s] /\ held'[s] = held[s])
      PROVE  /\ \A copy \in batch' : Older(copy, 1, l)'
             /\ \A s \in Senders : pc'[s] # "idle" =>
                   Older(held[s], IF pc[s] = "bad" THEN 0 ELSE 1, l)'
  <2>1. CASE k = l
    <3>1. /\ \A copy \in batch : Older(copy, 1, l)'
          /\ \A s \in Senders : pc[s] # "idle" =>
                (held[s].log = l => held[s].attempt + (IF pc[s] = "bad" THEN 0 ELSE 1) <= rows'[l].attempt)
      BY <1>2, <2>1, UpdateOutruns
    <3> QED  BY <1>2, <3>1 DEF Older
  <2>2. CASE k # l
    <3>1. rows'[l] = rows[l]
      BY <1>0, <1>2, <2>2 DEF Update, TypeOK
    <3> QED  BY <1>1, <1>2, <3>1
  <2> QED  BY <2>1, <2>2
<1>3. CASE Poll
  <2>1. rows' = rows /\ pc' = pc /\ held' = held
    BY <1>3 DEF Poll
  <2>2. ASSUME NEW copy \in batch' PROVE copy.log # l
    <3>1. PICK k \in Select : copy = [log |-> k, attempt |-> rows[k].attempt]
      BY <1>3 DEF Poll
    <3> QED  BY <2>1, <3>1 DEF Select
  <2> QED  BY <1>1, <2>1, <2>2
<1>4. ASSUME NEW s \in Senders, Deliver(s)
      PROVE  /\ \A copy \in batch' : Older(copy, 1, l)'
             /\ \A t \in Senders : pc'[t] # "idle" =>
                   Older(held[t], IF pc[t] = "bad" THEN 0 ELSE 1, l)'
  <2>1. l # created + 1 /\ rows'[l] = rows[l] /\ batch' = batch
    BY <1>0, <1>4 DEF Deliver, TypeOK
  <2>2. \A t \in Senders : (pc'[t] = pc[t] /\ held'[t] = held[t]) \/ held'[t].log # l
    BY <1>0, <1>4, <2>1 DEF Deliver, TypeOK
  <2> QED  BY <1>1, <2>1, <2>2
<1>5. ASSUME NEW s \in Senders, Spawn(s) \/ Lookup(s) \/ Respond(s)
      PROVE  /\ \A copy \in batch' : Older(copy, 1, l)'
             /\ \A t \in Senders : pc'[t] # "idle" =>
                   Older(held[t], IF pc[t] = "bad" THEN 0 ELSE 1, l)'
  <2>1. /\ rows' = rows /\ batch' \subseteq batch
        /\ \A t \in Senders \ {s} : pc'[t] = pc[t] /\ held'[t] = held[t]
    BY <1>0, <1>5 DEF Spawn, Lookup, Respond, Return, TypeOK
  <2>2. pc'[s] # "idle" => (held'[s].log = l =>
              held'[s].attempt + (IF pc'[s] = "bad" THEN 0 ELSE 1) <= rows[l].attempt)
    <3>1. CASE Spawn(s)
      <4>1. held'[s] \in batch /\ pc'[s] = "lookup"
        BY <1>0, <3>1 DEF Spawn, TypeOK
      <4> QED  BY <2>1, <4>1 DEF OlderThanSuccess, Older
    <3>2. CASE Lookup(s)
      <4>1. pc[s] = "lookup" /\ (pc'[s] = "idle" \/ (pc'[s] = "send" /\ held'[s] = held[s]))
        BY <1>0, <3>2 DEF Lookup, Return, TypeOK
      <4> QED  BY <2>1, <4>1 DEF OlderThanSuccess, Older
    <3>3. CASE Respond(s)
      <4>1. /\ pc[s] = "send" /\ held[s] \in Copy
            /\ \/ pc'[s] = "ok" /\ held'[s] = held[s]
               \/ pc'[s] = "bad" /\ held'[s].log = held[s].log /\ held'[s].attempt = held[s].attempt + 1
        BY <1>0, <3>3 DEF Respond, TypeOK, Copy
      <4>2. held[s].log = l => held[s].attempt + 1 <= rows[l].attempt
        BY <2>1, <4>1 DEF OlderThanSuccess, Older
      <4> QED  BY <4>1, <4>2 DEF Copy
    <3> QED  BY <1>5, <3>1, <3>2, <3>3
  <2> QED  BY <2>1, <2>2 DEF OlderThanSuccess, Older
<1>6. CASE Crash \/ \E s \in Senders : Panic(s)
  BY <1>6 DEF Crash, Panic, Restarted
<1>7. ASSUME NEW s \in Senders, RecordSuccess(s) \/ RecordFailure(s)
      PROVE  /\ \A copy \in batch' : Older(copy, 1, l)'
             /\ \A t \in Senders : pc'[t] # "idle" =>
                   Older(held[t], IF pc[t] = "bad" THEN 0 ELSE 1, l)'
  <2>1. /\ batch' = batch
        /\ \A t \in Senders : pc'[t] = "idle" \/ (pc'[t] = pc[t] /\ held'[t] = held[t])
    BY <1>0, <1>7 DEF RecordSuccess, RecordFailure, Return, TypeOK
  <2>2. held[s].log \in Logs
    BY <1>0, <1>7, WebhookAssumption DEF IInv, TypeOK, CopiesBehind, Behind, RecordSuccess, RecordFailure, Logs
  <2>3. \/ rows' = rows
        \/ Update(held[s].log, "success", "null") \/ Update(held[s].log, "cancelled", "null")
        \/ Update(held[s].log, "failed", "later")
    BY <1>7 DEF RecordSuccess, RecordFailure
  <2>4. CASE rows' = rows
    BY <1>1, <2>1, <2>4
  <2> QED  BY <1>2, <2>1, <2>2, <2>3, <2>4
<1>8. CASE RetryRead \/ RetryWrite
  <2>1. batch' = batch /\ pc' = pc /\ held' = held
    BY <1>8 DEF RetryRead, RetryWrite
  <2>2. CASE RetryRead
    BY <1>1, <2>1, <2>2 DEF RetryRead
  <2>3. CASE RetryWrite
    <3>1. retrying \in Logs /\ Update(retrying, "pending", "due")
      BY <1>0, <2>3 DEF RetryWrite, TypeOK
    <3> QED  BY <1>2, <2>1, <3>1
  <2> QED  BY <1>8, <2>2, <2>3
<1>9. CASE DeleteWebhookEndpoint \/ \E k \in Logs : Elapse(k)
  <2>1. batch' = batch /\ pc' = pc /\ held' = held
    BY <1>9 DEF DeleteWebhookEndpoint, Elapse
  <2>2. CASE DeleteWebhookEndpoint
    BY <2>2 DEF DeleteWebhookEndpoint, NoRow
  <2>3. CASE \E k \in Logs : Elapse(k)
    <3>1. rows'[l].status = rows[l].status /\ rows'[l].attempt = rows[l].attempt
      BY <1>0, <2>3 DEF Elapse, TypeOK, Row
    <3> QED  BY <1>1, <2>1, <3>1
  <2> QED  BY <1>9, <2>2, <2>3
<1>10. CASE UNCHANGED vars
  BY <1>1, <1>10 DEF vars
<1> QED  BY <1>3, <1>4, <1>5, <1>6, <1>7, <1>8, <1>9, <1>10 DEF Next, SenderStep

\* A late failure replaces a success only by way of a copy read before it, or of a manual
\* retry (UpdateDeliveryLog has no condition; GetPendingDeliveries selects pending rows).
THEOREM SuccessIsKept == Spec => SuccessKept
<1>1. Init => OlderThanSuccess
  BY DEF Init, OlderThanSuccess, NoRow
<1>2. IInv /\ OlderThanSuccess /\ [Next]_vars => OlderThanSuccess'
  BY OlderKeeps
<1>3. IInv /\ OlderThanSuccess /\ [Next]_vars =>
        [\A l \in Logs : rows[l].status = "success" =>
           /\ rows'[l].status = "pending" => retrying = l
           /\ rows'[l].status \in {"failed", "cancelled"} =>
                \E s \in Senders : /\ pc[s] = "bad" /\ held[s].log = l
                                  /\ held[s].attempt <= rows[l].attempt]_vars
  <2> SUFFICES ASSUME IInv, OlderThanSuccess, Next, NEW l \in Logs, rows[l].status = "success",
                      rows'[l].status # "success", rows'[l].status # "absent"
               PROVE  /\ rows'[l].status = "pending" => retrying = l
                      /\ rows'[l].status \in {"failed", "cancelled"} =>
                            \E s \in Senders : /\ pc[s] = "bad" /\ held[s].log = l
                                              /\ held[s].attempt <= rows[l].attempt
    OBVIOUS
  <2>0. TypeOK /\ Inserted /\ rows[l] \in Row
    BY DEF IInv, TypeOK
  <2>1. ASSUME NEW s \in Senders, Deliver(s) PROVE FALSE
    <3>1. l <= created /\ created \in Nat /\ l \in Nat
      BY <2>0, WebhookAssumption DEF Inserted, Exists, TypeOK, Logs
    <3>2. rows'[l] = rows[l]
      BY <2>0, <2>1, <3>1 DEF Deliver, TypeOK
    <3> QED  BY <3>2
  <2>2. CASE Poll \/ RetryRead \/ Crash \/ \E s \in Senders : Spawn(s) \/ Lookup(s) \/ Panic(s) \/ Respond(s)
    BY <2>2 DEF Poll, RetryRead, Crash, Spawn, Lookup, Panic, Respond, Restarted
  <2>3. ASSUME NEW s \in Senders, RecordSuccess(s) PROVE FALSE
    BY <2>0, <2>3 DEF RecordSuccess, Update, TypeOK
  <2>4. ASSUME NEW s \in Senders, RecordFailure(s)
        PROVE  /\ rows'[l].status # "pending"
               /\ pc[s] = "bad" /\ held[s].log = l /\ held[s].attempt <= rows[l].attempt
    <3>1. pc[s] = "bad" /\ held[s].log = l /\ rows'[l].status # "pending"
      BY <2>0, <2>4 DEF RecordFailure, Update, TypeOK
    <3>2. Older(held[s], 0, l) /\ held[s] \in Copy
      BY <2>0, <3>1 DEF OlderThanSuccess, TypeOK
    <3> QED  BY <3>1, <3>2 DEF Older, Copy
  <2>5. CASE RetryWrite
    BY <2>0, <2>5 DEF RetryWrite, Update, TypeOK
  <2>6. CASE DeleteWebhookEndpoint \/ \E k \in Logs : Elapse(k)
    BY <2>0, <2>6 DEF DeleteWebhookEndpoint, Elapse, NoRow, TypeOK, Row
  <2> QED  BY <2>1, <2>2, <2>3, <2>4, <2>5, <2>6 DEF Next, SenderStep
<1> QED  BY Invariant, <1>1, <1>2, <1>3, PTL DEF Spec, SuccessKept
=============================================================================

--------------------------- MODULE WebhookDelivery ---------------------------
(***************************************************************************)
(* Outgoing webhooks of one endpoint: the delivery worker                  *)
(* (backend/internal/webhook/delivery.go), its log in PostgreSQL           *)
(* (pg_store.go) and the manual retry of the API                           *)
(* (backend/internal/api/integration_handlers_extended.go).  Deliver sends *)
(* at once on its caller's goroutine; every five seconds a poller hands    *)
(* pending rows to goroutines it does not wait for, each with the copy of  *)
(* the row it read.  The receiver is external: it may have accepted a      *)
(* request that ends in an error.  Wording, URLs and signatures are left   *)
(* out.                                                                    *)
(***************************************************************************)
EXTENDS Integers, FiniteSets

CONSTANTS
    Senders,        \* goroutines that run performDelivery; bound: how many at once
    MaxLogs,        \* bound: calls of Deliver
    MaxRetries,     \* WebhookEndpoint.RetryCount
    MaxConcurrent,  \* DeliveryWorkerConfig.MaxConcurrent: rows per poll
    MaxManual,      \* bound: manual retries
    MaxFaults       \* bound: failing store calls and crashes

ASSUME WebhookAssumption ==
    /\ IsFiniteSet(Senders)
    /\ MaxLogs \in Nat
    /\ MaxRetries \in Nat
    /\ MaxConcurrent \in Nat \ {0}
    /\ MaxManual \in Nat
    /\ MaxFaults \in Nat

Logs == 1 .. MaxLogs    \* delivery logs in the order of created_at

VARIABLES
    \* PostgreSQL
    endpoint,   \* the row of webhook_endpoints exists
    rows,       \* webhook_delivery_logs: status, retry_attempt, next_retry_at
    created,    \* how many logs were ever inserted
    \* goroutines
    batch,      \* copies whose goroutines have yet to run: [log, attempt]
    pc, held,   \* per sender: where it is, and the [log, attempt] it holds
    retrying,   \* the log a manual retry has read, or 0
    \* receiver and bookkeeping
    accepted,   \* logs the receiver has accepted
    reasons,    \* per log: how many events gave a reason to send it once more,
                \* less how often the receiver accepted it once more
    manual, faults

vars == <<endpoint, rows, created, batch, pc, held, retrying, accepted, reasons, manual, faults>>

Statuses == {"absent", "pending", "success", "failed", "cancelled"}
Row == [status : Statuses, attempt : Nat, next : {"null", "later", "due"}]
NoRow == [status |-> "absent", attempt |-> 0, next |-> "null"]
Copy == [log : Logs \cup {0}, attempt : Nat]
Nothing == [log |-> 0, attempt |-> 0]

TypeOK ==
    /\ endpoint \in BOOLEAN
    /\ rows \in [Logs -> Row]
    /\ created \in 0 .. MaxLogs
    /\ batch \subseteq Copy
    /\ pc \in [Senders -> {"idle", "lookup", "send", "ok", "bad"}]
    /\ held \in [Senders -> Copy]
    /\ retrying \in Logs \cup {0}
    /\ accepted \subseteq Logs
    /\ reasons \in [Logs -> Int]
    /\ manual \in 0 .. MaxManual
    /\ faults \in 0 .. MaxFaults

Init ==
    /\ endpoint = TRUE
    /\ rows = [l \in Logs |-> NoRow]
    /\ created = 0
    /\ batch = {}
    /\ pc = [s \in Senders |-> "idle"]
    /\ held = [s \in Senders |-> Nothing]
    /\ retrying = 0
    /\ accepted = {}
    /\ reasons = [l \in Logs |-> 0]
    /\ manual = 0 /\ faults = 0

Exists(l) == rows[l].status # "absent"
InHand(l) == \E s \in Senders : pc[s] # "idle" /\ held[s].log = l

\* Copies of one log that can be under way: one per sender and one in the batch.  More
\* reasons than that need no counting.
MostCopies == Cardinality(Senders) + 1

Excuse(ls) ==
    reasons' = [l \in Logs |-> IF l \in ls /\ reasons[l] < MostCopies THEN reasons[l] + 1 ELSE reasons[l]]
Fault == faults < MaxFaults /\ faults' = faults + 1

Return(s) ==
    /\ pc' = [pc EXCEPT ![s] = "idle"]
    /\ held' = [held EXCEPT ![s] = Nothing]

-----------------------------------------------------------------------------
(* Deliver, and the poller *)

\* CreateDeliveryLog; the caller goes on to performDelivery, unless the row is
\* stored and its answer lost: the poller finds such a row.
Deliver(s) ==
    /\ pc[s] = "idle"
    /\ endpoint /\ created < MaxLogs
    /\ created' = created + 1
    /\ rows' = [rows EXCEPT ![created + 1] = [status |-> "pending", attempt |-> 0, next |-> "null"]]
    /\ \/ /\ pc' = [pc EXCEPT ![s] = "send"]
          /\ held' = [held EXCEPT ![s] = [log |-> created + 1, attempt |-> 0]]
       \/ UNCHANGED <<pc, held>>
    /\ UNCHANGED <<endpoint, batch, retrying, accepted, reasons, manual, faults>>

\* A slip to guard against: only rows with a retry time are looked for.
SelectScheduled == {l \in Logs : rows[l].status = "pending" /\ rows[l].next = "due"}

\* Another: any row whose time has come, delivered or not.
SelectAnyStatus == {l \in Logs : Exists(l) /\ rows[l].next \in {"null", "due"}}

\* GetPendingDeliveries, before ORDER BY and LIMIT.
Select == {l \in Logs : rows[l].status = "pending" /\ rows[l].next \in {"null", "due"}}

\* processPending: the oldest MaxConcurrent rows, whoever is sending them already.
Poll ==
    /\ batch = {}
    /\ Select # {}
    /\ LET taken == {l \in Select : Cardinality({older \in Select : older < l}) < MaxConcurrent}
       IN  /\ batch' = {[log |-> l, attempt |-> rows[l].attempt] : l \in taken}
           /\ Excuse({l \in taken : InHand(l)})
    /\ UNCHANGED <<endpoint, rows, created, pc, held, retrying, accepted, manual, faults>>

\* The goroutines run in any order.
Spawn(s) ==
    /\ pc[s] = "idle"
    /\ \E copy \in batch : /\ batch' = batch \ {copy}
                           /\ held' = [held EXCEPT ![s] = copy]
    /\ pc' = [pc EXCEPT ![s] = "lookup"]
    /\ UNCHANGED <<endpoint, rows, created, retrying, accepted, reasons, manual, faults>>

\* GetWebhookEndpoint finds the endpoint, or fails.
Lookup(s) ==
    /\ pc[s] = "lookup"
    /\ \/ endpoint /\ pc' = [pc EXCEPT ![s] = "send"] /\ UNCHANGED <<held, faults>>
       \/ Fault /\ Return(s)
    /\ UNCHANGED <<endpoint, rows, created, batch, retrying, accepted, reasons, manual>>

\* What is left when the process ends; accepted requests that were not
\* recorded will be sent again.
Restarted ==
    /\ pc' = [s \in Senders |-> "idle"]
    /\ held' = [s \in Senders |-> Nothing]
    /\ batch' = {}
    /\ retrying' = 0
    /\ Excuse({held[s].log : s \in {t \in Senders : pc[t] \in {"ok", "bad"}}})
    /\ UNCHANGED <<endpoint, rows, created, accepted, manual>>

\* No endpoint: endpoint.Secret is read through a nil pointer and the process ends.
Panic(s) ==
    /\ pc[s] = "lookup"
    /\ ~endpoint
    /\ Restarted
    /\ UNCHANGED faults

Crash == Fault /\ Restarted

-----------------------------------------------------------------------------
(* performDelivery *)

Accepts(l) ==
    /\ accepted' = accepted \cup {l}
    /\ reasons' = [reasons EXCEPT ![l] = IF l \in accepted THEN @ - 1 ELSE @]

\* The receiver answers 2xx, or something else, or not at all.
Respond(s) ==
    /\ pc[s] = "send"
    /\ LET l == held[s].log IN
       \/ pc' = [pc EXCEPT ![s] = "ok"] /\ Accepts(l) /\ UNCHANGED held
       \/ /\ pc' = [pc EXCEPT ![s] = "bad"]
          /\ held' = [held EXCEPT ![s].attempt = @ + 1]
          /\ Accepts(l) \/ UNCHANGED <<accepted, reasons>>
    /\ UNCHANGED <<endpoint, rows, created, batch, retrying, manual, faults>>

\* UpdateDeliveryLog: a row that is gone is not an error; retry_attempt goes up.
Update(l, status, next) ==
    rows' = IF Exists(l)
            THEN [rows EXCEPT ![l] = [status |-> status, attempt |-> @.attempt + 1, next |-> next]]
            ELSE rows

\* Slips for mutation: a delivered row stays pending; any answer is a success;
\* a status the table does not know; a retry too few.
RecordSent(s) ==
    /\ pc[s] = "ok"
    /\ Update(held[s].log, "pending", "null") /\ Return(s) /\ UNCHANGED <<reasons, faults>>
    /\ UNCHANGED <<endpoint, created, batch, retrying, accepted, manual>>

RecordAny(s) ==
    /\ pc[s] = "bad"
    /\ Update(held[s].log, "success", "null") /\ Return(s) /\ UNCHANGED <<reasons, faults>>
    /\ UNCHANGED <<endpoint, created, batch, retrying, accepted, manual>>

SpentTooEarly(copy) == copy.attempt + 1 >= MaxRetries

\* A store that fails leaves the row as it was, and the answer forgotten.
RecordSuccess(s) ==
    /\ pc[s] = "ok"
    /\ Return(s)
    /\ \/ Update(held[s].log, "success", "null") /\ UNCHANGED <<reasons, faults>>
       \/ Fault /\ Excuse({held[s].log}) /\ UNCHANGED rows
    /\ UNCHANGED <<endpoint, created, batch, retrying, accepted, manual>>

\* scheduleRetry returns nil.
Spent(copy) == copy.attempt >= MaxRetries

RecordFailure(s) ==
    /\ pc[s] = "bad"
    /\ Return(s)
    /\ \/ /\ IF Spent(held[s])
             THEN Update(held[s].log, "cancelled", "null")
             ELSE Update(held[s].log, "failed", "later")
          /\ UNCHANGED <<reasons, faults>>
       \/ Fault /\ Excuse({held[s].log}) /\ UNCHANGED rows
    /\ UNCHANGED <<endpoint, created, batch, retrying, accepted, manual>>

-----------------------------------------------------------------------------
(* The API, and time *)

\* handleRetryWebhook reads the newest log of the endpoint, then updates it.
RetryRead ==
    /\ retrying = 0
    /\ endpoint /\ manual < MaxManual
    /\ created > 0
    /\ retrying' = created
    /\ manual' = manual + 1
    /\ UNCHANGED <<endpoint, rows, created, batch, pc, held, accepted, reasons, faults>>

RetryWrite ==
    /\ retrying # 0
    /\ Update(retrying, "pending", "due")
    /\ Excuse({retrying})
    /\ retrying' = 0
    /\ UNCHANGED <<endpoint, created, batch, pc, held, accepted, manual, faults>>

\* ON DELETE CASCADE takes the logs along.
DeleteWebhookEndpoint ==
    /\ endpoint
    /\ endpoint' = FALSE
    /\ rows' = [l \in Logs |-> NoRow]
    /\ UNCHANGED <<created, batch, pc, held, retrying, accepted, reasons, manual, faults>>

Elapse(l) ==
    /\ rows[l].next = "later"
    /\ rows' = [rows EXCEPT ![l].next = "due"]
    /\ UNCHANGED <<endpoint, created, batch, pc, held, retrying, accepted, reasons, manual, faults>>

SenderStep(s) == Spawn(s) \/ Lookup(s) \/ Panic(s) \/ Respond(s) \/ RecordSuccess(s) \/ RecordFailure(s)

Next ==
    \/ Poll
    \/ \E s \in Senders : Deliver(s) \/ SenderStep(s)
    \/ RetryRead \/ RetryWrite
    \/ DeleteWebhookEndpoint
    \/ \E l \in Logs : Elapse(l)
    \/ Crash

Spec == Init /\ [][Next]_vars

\* The poller's ticker fires, goroutines that can run do run, time passes.
Fairness ==
    /\ WF_vars(Poll)
    /\ \A s \in Senders : WF_vars(SenderStep(s))
    /\ \A l \in Logs : WF_vars(Elapse(l))

FairSpec == Spec /\ Fairness

-----------------------------------------------------------------------------
(* Properties *)

\* The log says "success" only of what the receiver accepted, although two
\* goroutines may be sending the same row and overwrite each other's outcome.
SuccessGenuine == \A l \in Logs : rows[l].status = "success" => l \in accepted

\* UpdateDeliveryLog asks no condition of the row, so a late failure replaces a success.
\* It is the failure of a copy read before that success, or somebody asked for a retry.
SuccessKept ==
    [][\A l \in Logs : rows[l].status = "success" =>
          /\ rows'[l].status = "pending" => retrying = l
          /\ rows'[l].status \in {"failed", "cancelled"} =>
                \E s \in Senders : /\ pc[s] = "bad" /\ held[s].log = l
                                  /\ held[s].attempt <= rows[l].attempt]_vars

\* A delivery is cancelled only when the counter in the database has reached
\* the limit, although the decision is taken on a copy read earlier.
CancelledOnlyWhenSpent == \A l \in Logs : rows[l].status = "cancelled" => rows[l].attempt >= MaxRetries

\* The receiver accepts one event twice only for a cause: the poller took a row
\* that was being sent, an outcome was not recorded, or somebody asked for it.
DuplicatesExplained == \A l \in Logs : reasons[l] >= 0

\* "Sends webhooks with exponential backoff (10s, 30s, 90s, 270s...)" (delivery.go:7): a
\* delivery that failed is tried again when its time has come.
FailedIsRetried == \A l \in Logs : rows[l].status = "failed" ~> rows[l].status # "failed"

\* Every pending row gets an outcome, after crashes and lost updates too.
PendingSettles == \A l \in Logs : rows[l].status = "pending" ~> rows[l].status # "pending"
=============================================================================

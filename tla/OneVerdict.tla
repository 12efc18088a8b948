----------------------------- MODULE OneVerdict -----------------------------
(***************************************************************************)
(* What an approval request promises to the goroutines around it, with no  *)
(* locks, channels or timers: it gets at most one verdict, for good, and   *)
(* at most one waiter is ever told "approved", only when that is the       *)
(* verdict.  A waiter may always come back empty-handed (cancelled, timed  *)
(* out, request forgotten).  ApprovalFlow implements this module.          *)
(***************************************************************************)
CONSTANT Waiters

VARIABLES
    verdict,   \* "none", or the final status of the request
    told       \* per waiter: "nothing" yet, "approved" or "refused"

vars == <<verdict, told>>

Verdicts == {"approved", "rejected", "expired"}

TypeOK ==
    /\ verdict \in Verdicts \cup {"none"}
    /\ told \in [Waiters -> {"nothing", "approved", "refused"}]

Init ==
    /\ verdict = "none"
    /\ told = [w \in Waiters |-> "nothing"]

Decide(v) ==
    /\ verdict = "none"
    /\ verdict' = v
    /\ UNCHANGED told

TellApproved(w) ==
    /\ verdict = "approved"
    /\ told[w] = "nothing"
    /\ \A other \in Waiters : told[other] # "approved"
    /\ told' = [told EXCEPT ![w] = "approved"]
    /\ UNCHANGED verdict

TellRefused(w) ==
    /\ told[w] = "nothing"
    /\ told' = [told EXCEPT ![w] = "refused"]
    /\ UNCHANGED verdict

Next ==
    \/ \E v \in Verdicts : Decide(v)
    \/ \E w \in Waiters : TellApproved(w) \/ TellRefused(w)

Spec == Init /\ [][Next]_vars
=============================================================================

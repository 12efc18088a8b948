--------------------------- MODULE MCApprovalFlow ---------------------------
\* Two operators and two waiters: enough for a race of every pair of
\* operations, and for one waiter to read what another caller sent.
EXTENDS ApprovalFlow
=============================================================================

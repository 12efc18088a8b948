---------------------------- MODULE MCDeltaSync ----------------------------
\* An edit the server decides on, which SyncService sends, before one that only the
\* differential sync sends; and the first of them alone.
EXTENDS DeltaSync

StatusThenNotes == <<"status", "notes">>
StatusOnly == <<"status">>
=============================================================================

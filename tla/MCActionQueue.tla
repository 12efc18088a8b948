--------------------------- MODULE MCActionQueue ---------------------------
\* A completion before a checklist update, and two passes for one foreground.
EXTENDS ActionQueue

CompletionThenChecklist == <<"complete", "checklist">>
=============================================================================

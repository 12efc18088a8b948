SPECIFICATION FairSpec
CONSTANTS
    Kind <- CompletionThenChecklist
    Passes = {1, 2}
    MaxLoads = 1
    MaxKills = 1
INVARIANTS
    DuplicatesExplained
    TriesBounded
PROPERTIES
    CompletionsKept
    QueueEmpties
CHECK_DEADLOCK FALSE

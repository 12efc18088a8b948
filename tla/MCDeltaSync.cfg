SPECIFICATION FairDeltaSpec
CONSTANT
    Field <- StatusThenNotes
    Unsent = {2}
    MaxAttempts = 2
    MaxRetries = 2
    Changing = {"work_orders"}
INVARIANTS
    LeftUnsentExplained
    SentTwiceExplained
PROPERTIES
    
    SyncEnds

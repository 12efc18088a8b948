SPECIFICATION FairSpec
CONSTANTS
    Mutations = {1, 2, 3}
    Unsent = {2}
    MaxCrashes = 1
    MaxOutages = 1
INVARIANTS
    NothingForgotten
    DroppedAfterThree
    DuplicatesExplained
PROPERTY
    QueueDrains

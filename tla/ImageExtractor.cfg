CONSTANTS
    Chunks = 3
    Capacity = 2
    PipeFaults = TRUE
SPECIFICATION FairSpec
INVARIANTS OutcomeIsGenuine WholeUnlessDisturbed NoOrphan
PROPERTIES EveryExtractionEnds

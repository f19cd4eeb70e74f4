SPECIFICATION Spec
CONSTANTS
    Libraries <- MCLibraries
    Hash <- MCHash
    BloomBits = 5
    BloomShift = 1
    RelrBits = 3
    PageUnits = 2
    MaxFaults = 1
INVARIANTS
    LoadedAsListed
    SealedAsAsked
    PltiFindsSlots
CHECK_DEADLOCK FALSE

CONSTANTS
    Balances = Balances
    Transfer = Transfer
    None = None
    MetaReserved = 1635018093
    Prefix <- MCPrefix
    Version <- MCVersion
    TypeId <- MCTypeId
    NoEvent <- None
    Blob <- MCBlob
    Keys <- MCAllKeys
    MaxBlocks = 3
    MaxEvents = 2
    Faults <- MCAllFaults
SPECIFICATION Spec
INVARIANTS
    TypeOK
    LogFaithful
PROPERTIES
    ImplementsLog
\* The node stops after MaxBlocks blocks, and a panic ends listen_event.
CHECK_DEADLOCK FALSE

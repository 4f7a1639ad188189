CONSTANTS
    Balances = Balances
    Transfer = Transfer
    None = None
    MetaReserved = 1635018093
    Prefix <- MCPrefix
    Version <- MCVersion
    TypeId <- MCTypeId
    NoEvent <- None
    Blob <- MCBlob
    Keys <- MCDeclaredKeys
    MaxBlocks = 3
    MaxEvents = 2
    Faults <- MCStreamEnd
SPECIFICATION Spec
PROPERTY
    BlocksLogged
\* The node stops after MaxBlocks blocks, and a panic ends listen_event.
CHECK_DEADLOCK FALSE

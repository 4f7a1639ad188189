CONSTANTS
    System = System
    Balances = Balances
    Transfer = Transfer
    Deposit = Deposit
    None = None
    MetaReserved = 1635018093
    Prefix <- MCPrefix
    Version <- MCVersion
    TypeId <- MCTypeId
    Index <- MCIndex
    Blobs <- MCBlobs
    NoEvent <- None
SPECIFICATION Spec
INVARIANTS
    ParseMeetsContract
    EventLookupCorrect
    EventsAfterIsInsertLoop
\* A blob try_from rejects leaves no Metadata to call event on: the run ends.
CHECK_DEADLOCK FALSE

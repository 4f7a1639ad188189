CONSTANTS
    Balances = Balances
    Transfer = Transfer
    None = None
    T1 = T1
    T2 = T2
    Good = Good
    BadPrefix = BadPrefix
    BadEvent = BadEvent
    Garbage = Garbage
    Rv = Rv
    Data = Data
    Hash = Hash
    Sub = Sub
    Null = Null
    Malformed = Malformed
    NoAnswer = NoAnswer
    MetaReserved = 1635018093
    Prefix <- MCPrefix
    Version <- MCVersion
    TypeId <- MCTypeId
    Index <- MCIndex
    NoEvent <- None
    Tasks <- MCTasks
    Decode <- MCDecode
    Answers <- MCAnswers
SPECIFICATION Spec
INVARIANTS
    TypeOK
    ConstructionAllOrNothing
PROPERTIES
    ConstructionReturns
\* A construction that fails leaves no client: from_url has returned its error.
CHECK_DEADLOCK FALSE

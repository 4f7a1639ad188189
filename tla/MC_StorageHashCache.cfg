CONSTANTS
    c1 = c1
    c2 = c2
    c3 = c3
    System = System
    Balances = Balances
    Assets = Assets
    Account = Account
    Number = Number
    Callers <- MCCallers
    PalletName <- MCPalletName
    ItemName <- MCItemName
    EntryShape <- MCEntryShape
    EntryHash <- MCEntryHash
    Pallets <- MCPallets
SYMMETRY MCSymmetry
SPECIFICATION Spec
INVARIANTS
    TypeOK
    ResultCorrect
PROPERTIES
    ImplementsMemo

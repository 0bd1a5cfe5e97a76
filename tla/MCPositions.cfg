SPECIFICATION Spec
CONSTANTS
    AmountScale = 10
    AmountFractionDigits = 1
    MaxAmount = 110
    MaxInt = 1023
    MaxPower = 3
    MaxExponent = 4
    Malformed = Malformed
    Requests <- MCRequests
    Calls <- MCCalls
    Openings <- MCOpenings
    MaxTrades = 3
INVARIANTS
    TypeOK
    HonestAmounts
    FlatHasNoCost
PROPERTIES
    BooksBalance
CHECK_DEADLOCK FALSE

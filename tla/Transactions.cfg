CONSTANTS
    Requests = {r1, r2, r3}
    Total = 2
    AmountIgnored = FALSE
    AnswersLost = TRUE
SPECIFICATION FairSpec
INVARIANTS
    TypeOK
    RefundsWerePaid
    PaidWasCaptured
PROPERTIES
    RestockedWithOrder
    EveryRequestEnds

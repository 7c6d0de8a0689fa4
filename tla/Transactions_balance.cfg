CONSTANTS
    Requests = {r1, r2}
    Total = 2
    AmountIgnored = FALSE
    AnswersLost = FALSE
SPECIFICATION Spec
PROPERTIES
    RefundsAddUp

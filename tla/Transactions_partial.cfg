CONSTANTS
    Requests = {r1}
    Total = 2
    AmountIgnored = TRUE
    AnswersLost = FALSE
SPECIFICATION Spec
PROPERTIES
    PartialRefundsRecorded

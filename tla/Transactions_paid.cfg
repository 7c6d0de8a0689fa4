CONSTANTS
    Requests = {r1, r2, r3}
    Total = 2
    AmountIgnored = FALSE
    AnswersLost = FALSE
SPECIFICATION Spec
PROPERTIES
    PaidStaysPaid

CONSTANTS
    a1 = a1
    a2 = a2
    u1 = u1
    u2 = u2
    Updates = {u1, u2}
    Addresses = {a1, a2}
    KnownAtStart = {a1}
    MaxRounds = 2
    MaxIncidents = 1
SYMMETRY UpdateSymmetry
SPECIFICATION Spec
INVARIANTS
    ConfirmsTheAnswers
    TypeOK
    UnpaidOrdersAreKnown
PROPERTIES
    PlacedOrdersStay
CHECK_DEADLOCK FALSE

CONSTANTS
    u1 = u1
    u2 = u2
    p1 = p1
    p2 = p2
    NoRow = NoRow
    Null = Null
    Telegram = Telegram
    Updates = {u1, u2}
    Pictures = {p1, p2}
    MaxAddresses = 3
SPECIFICATION Spec
INVARIANT PointerIsDefault
CHECK_DEADLOCK FALSE

CONSTANTS
    o1 = o1
    o2 = o2
    u1 = u1
    w1 = w1
    Creations = {o1}
    Updates = {u1}
    Webhooks = {}
    MaxRetries = 2
    MaxLosses = 1
    Faults = {"rollback"}
SPECIFICATION Spec
INVARIANT DeliveredAfterCommit
CHECK_DEADLOCK FALSE

CONSTANTS
    c1 = c1
    c2 = c2
    c3 = c3
    Calls = {c1, c2, c3}
    FailureThreshold = 2
    HalfOpenMaxCalls = 2
    SuccessThreshold = 2
    Outcomes = {"success", "failure", "unreported"}
SPECIFICATION Spec
INVARIANT SlotsComeBack

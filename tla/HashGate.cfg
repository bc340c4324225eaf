SPECIFICATION Spec
CONSTANTS
    Requests = {r1, r2, r3}
    Slots = 2
    Codes = 2
INVARIANTS NoFalseRejection
PROPERTIES GateBounds EveryoneAnswered

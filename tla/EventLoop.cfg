SPECIFICATION Spec
CONSTANTS
    Addresses = {a1, a2}
    MaxChanges = 3
    KindOf <- EachKind
    MaxCalls = 4
INVARIANTS HandedOver
PROPERTIES AddressesFollow CallbackFollows
CHECK_DEADLOCK FALSE

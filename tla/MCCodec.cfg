SPECIFICATION Spec
CONSTANTS
    OwnMessages <- MCOwnMessages
    ForeignItems <- MCItems
    Half32 = 8
    Half64 = 32
    BatchSize = 2
CHECK_DEADLOCK FALSE
INVARIANTS
    CodecTypeOK
    OwnMessagesArrive
    RelayedUnchanged

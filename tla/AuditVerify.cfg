CONSTANTS
    Chunk = 3
    MaxLen = 4
    Cosigs = {"none", "unknownKey", "wrong"}
SPECIFICATION Spec
CHECK_DEADLOCK FALSE
INVARIANTS VerifiersAgree

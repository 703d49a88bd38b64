SPECIFICATION Spec
CONSTANTS
    Writers = {"forward", "bootstrap"}
    Byte <- MCByte
    Payloads <- MCPayloads
    MaxFileSize <- MCMaxFileSize
    MaxStores = 4
INVARIANTS TypeOK ReadsBack DataKept FilesWithinLimit
CHECK_DEADLOCK FALSE

\* Sequence numbers at the byte boundaries of put32, message sequence
\* numbers at those of put24 (up to 2^24 - 1), short payloads.
CONSTANTS
    Seqs = {0, 1, 255, 256, 65535, 65536, 16777216, 2147483647}
    MsgSeqs = {0, 1, 256, 65536, 16777215}
    Payloads <- MCPayloads
    RawTypes = {0, 1, 3, 29, 30, 36, 127, 128, 131, 255}
SPECIFICATION Spec
INVARIANTS
    UnknownTypeRejected

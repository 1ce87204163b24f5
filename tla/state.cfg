SPECIFICATION StateSpec
CONSTANTS
    MemKeys = {m1, m2}
    MemValues = {v1, v2}
    MemNil = MemNil
    TTLEnabled = TRUE
    MemTTLs = {0, 1}
    MaxMemTime = 3
    MaxDeletions = 1
    Keys = {k1, k2}
    Values = {"counter", "text"}
    Blocks <- MCBlocks
    TTLs = {0, 1}
    TicksPerSecond = 2
    MaxTime = 5
    MaxPending = 1
    MaxRestores = 1
SYMMETRY SymmetricKeys
INVARIANTS ValueIntact LossExplained ExpiresWithinASecond
PROPERTY KeepsPromise

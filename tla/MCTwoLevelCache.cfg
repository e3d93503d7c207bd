\* Two reads and a write of one key; the write invalidates, puts or clears.
CONSTANTS
    Readers = {r1, r2}
    Writers = {w1}
    Kinds = {"invalidate", "put", "clear"}
    RedisOn = TRUE
    MaxWrites = 1
    MaxQueue = 2
SPECIFICATION FairSpec
INVARIANTS
    StaleIsARace
    MutationsAreChained
    OneFetchPerMiss
PROPERTIES
    CopiesConverge

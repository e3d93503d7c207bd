CONSTANTS
    Batches = {b1, b2}
    Groups = {g1, g2}
    MaxConcurrent = 1
    FailureThreshold = 2
SPECIFICATION Spec
INVARIANTS
    SkipsNeedNetworkFailures
    ReturnedListIsComplete
PROPERTIES
    EveryBatchEnds
    ImplementsBreaker

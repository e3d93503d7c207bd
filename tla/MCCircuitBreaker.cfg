\* Three calls: one older than the outage, and two that compete for the probe.
CONSTANTS
    c1 = c1
    c2 = c2
    c3 = c3
    Calls <- MCCalls
    FailureThreshold = 2
SPECIFICATION Spec
INVARIANTS
    ProbeHeldByCall
    TripsAtThreshold
PROPERTY OpenIsLeft

CONSTANTS
    main = main
    g1 = g1
    m1 = m1
    m2 = m2
    u1 = u1
    Primary <- MCPrimary
    Groups <- MCGroups
    Mutes <- MCMutes
    Unmutes <- MCUnmutes
    MaxHandlers = 2
SYMMETRY Symmetry
SPECIFICATION MuteSpec
INVARIANTS
    RecordBacksMutes
    MutedEverywhere
CHECK_DEADLOCK FALSE

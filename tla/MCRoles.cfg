CONSTANTS
    t1 = t1
    t2 = t2
    Users = {"founder1", "deputy", "member"}
    First = "founder1"
    Subject = "member"
    Deputies = {"deputy"}
    SubRoles = {"tester", "developer"}
    Tasks <- MCTasks
    MaxRequests = 2
    MaxHandlers = 3
SYMMETRY TaskSymmetry
SPECIFICATION Spec
INVARIANTS
    OwnerIsUnique
    VerdictIsKept
    BannedHoldsNoRole

CONSTANTS
    t1 = t1
    t2 = t2
    Tasks <- MCTasks
    Moves = 2
    MaxHandlers = 3
SYMMETRY TaskSymmetry
SPECIFICATION ConnectionSpec
INVARIANTS
    NoGhost
    StaysConnected
    AnswersAgree
    NoDeadEnd

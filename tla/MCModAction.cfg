CONSTANTS
    c1 = c1
    c2 = c2
    t1 = t1
    t2 = t2
    t3 = t3
    Chats <- MCChats
    Tasks <- MCTasks
    MaxEntries = 3
SYMMETRY Symmetry
SPECIFICATION Spec
INVARIANT ConversationHasItsData
PROPERTIES
    CancelHolds
    ProofIsItsOwn

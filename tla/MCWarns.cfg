\* Two handlers at a time on one chat, three warnings there and an earlier one
\* in another chat; the federation's limit is reached by one of each.
CONSTANTS
    t1 = t1
    t2 = t2
    Chats = {here, elsewhere}
    Handled = {here}
    Tasks <- MCTasks
    WarnLimit = 2
    FedLimit = 2
    MaxWarns = 4
SYMMETRY TaskSymmetry
SPECIFICATION WarnsSpec
INVARIANTS
    CounterAgrees
    LimitIsActedOn

\* A ban of a user who may have two active records already, an unban, a
\* primary chat and a group that comes and goes.
CONSTANTS
    Bans = {b1}
    Lifts = {l1}
    Primary = {main}
    Groups = {g}
    Earlier = 2
SPECIFICATION Spec
INVARIANTS
    FailClosed
    NoGap
    NoOrphan

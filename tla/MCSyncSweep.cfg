\* Two users, two groups: one ban fits the cap, two do not.
CONSTANTS
    Users = {u1, u2}
    g1 = g1
    g2 = g2
    Groups <- MCGroups
    Demoted = {g1}
    Commands = {command}
    MaxChecks = 2
SPECIFICATION Spec
INVARIANTS
    ReportIsTrue
PROPERTY RepeatedRunsConverge

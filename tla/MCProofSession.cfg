\* Two commands, a session for each and one that late media opens.
\* The moderator's finite supply of commands makes the model stop.
CONSTANTS
    MaxAttempts = 2
    MaxSessions = 2
SPECIFICATION Spec
CHECK_DEADLOCK FALSE
INVARIANTS
    OneExecutionPerAttempt
    NoSessionLost
PROPERTIES
    ClaimedProofIsFrozen
    CancelledIsNeverClaimed
    CollectionEnds

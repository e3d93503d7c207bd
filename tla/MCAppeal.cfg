\* Two submissions and two reviewers race for one ban.
CONSTANTS
    MaxEntries = 2
    MaxMessages = 2
    MaxTaps = 2
    MaxInFlight = 2
    Reviewers = {banner, other}
    BanAdmin = banner
    Routed = {"approve", "reject"}
SPECIFICATION AppealSpec
INVARIANTS
    NoOrphanCard
    PendingIsActionable
    LateTapDecidesNothing
    PriorityWindow
PROPERTIES
    CooldownBinds

CONSTANTS
    Phones = {p1, p2}
    Records = {r1}
    Second = p2
    Other = r2
    Air = air
    Methods = {"tf", "stages", "uninstall"}
    MaxBoots = 3
    FewBoots = 2
SPECIFICATION MCSpec
PROPERTIES StaysOnOwnPhone ConfirmedByItsUser UpdatesPlanned
CHECK_DEADLOCK FALSE

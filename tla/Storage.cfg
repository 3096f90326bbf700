CONSTANTS
    Slots = {1, 2, 3, 4}
    First = 1
    Last = 19
    Align = 2
    MinPart = 4
    Txns = {"t1"}
    Factory <- MCFactory
    Needs = {4, 6}
    Contents = 2
    Slack = 1
    Disks <- MCDisks
    Originals <- MCOriginals
    MaxAlter = 2
SPECIFICATION MCSpec
INVARIANTS AndroidKeepsItsData JournalsRemoveTheRoot
PROPERTIES RemovesAsShown ReaderAgrees
CHECK_DEADLOCK FALSE

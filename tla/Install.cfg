CONSTANTS
    Runs = {r1, r2}
    Modes = {"sd", "data", "part", "boot", "check"}
    NoRun = NoRun
    Mib = 2
    Step = 4
    Disk = 49
    Raw = 16
    Least = 16
    Reserve = 8
    Budget = 4
    Extra = 2
    Payloads = 3
    Tools = 1
    Used = {0, 1, 2, 5, 14}
    Changes = {1, 4}
    MaxWrites = 4
SPECIFICATION MCSpec
INVARIANTS NothingIsLost SizesHold
PROPERTIES InstallsWhatStarts BackupHolds RepairHolds
CHECK_DEADLOCK FALSE

SPECIFICATION FairSpec
CONSTANTS
    Installers = {i1}
    NumEffects = 2
    Kinds = {"direct", "tf"}
    MaxCancels = 1
    MaxCrashes = 0
    MaxSaveFailures = 0
    MaxReboots = 1
INVARIANTS
    JournalShape
PROPERTIES
    WorkersSettle

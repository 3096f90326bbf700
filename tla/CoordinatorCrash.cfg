SPECIFICATION Spec
CONSTANTS
    Installers = {i1}
    NumEffects = 3
    Kinds = {"direct", "tf"}
    MaxCancels = 0
    MaxCrashes = 2
    MaxSaveFailures = 1
    MaxReboots = 1
INVARIANTS
    TypeOK
    JournalShape
    NoReplay
    CompletedOrRestorable
PROPERTIES
    FileIsTrue
    ImplementsEffectJournal

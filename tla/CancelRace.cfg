SPECIFICATION Spec
CONSTANTS
    Installers = {i1}
    NumEffects = 1
    Kinds = {"direct"}
    MaxCancels = 1
    MaxCrashes = 1
    MaxSaveFailures = 0
    MaxReboots = 0
INVARIANT NoReplay

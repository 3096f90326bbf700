SPECIFICATION Spec
CONSTANTS
    Installers = {i1, i2}
    NumEffects = 1
    Kinds = {"direct"}
    MaxCancels = 0
    MaxCrashes = 0
    MaxSaveFailures = 0
    MaxReboots = 0
INVARIANT NoReplay

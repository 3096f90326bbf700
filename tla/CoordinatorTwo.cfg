SPECIFICATION Spec
CONSTANTS
    Installers = {i1, i2}
    NumEffects = 1
    Kinds = {"direct", "tf", "update"}
    MaxCancels = 0
    MaxCrashes = 1
    MaxSaveFailures = 0
    MaxReboots = 0
SYMMETRY InstallerSymmetry
INVARIANTS
    ExclusiveDevice

CONSTANTS
    Txns = {t1, t2, r}
    Reinstalls = {r}
    Gui = FALSE
    Overlap = FALSE
    NoTxn = NoTxn
SPECIFICATION MCSpec
INVARIANTS TypeOK CarvedOnce ResetHandedOver PreparedBeforeWritten RootStaysWhole
PROPERTIES SelectsAndCompletes

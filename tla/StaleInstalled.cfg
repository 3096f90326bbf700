CONSTANTS
    Txns = {t1, r}
    Reinstalls = {r}
    Gui = FALSE
    Overlap = FALSE
    NoTxn = NoTxn
SPECIFICATION Spec
PROPERTIES ArmsWhatBoots

CONSTANTS
    SST_FLASH_DEFAULT_VAL = 5
    Contents = {c1, c2, c3}
    Blank = Blank
    Unformatted = Unformatted
SPECIFICATION Spec
INVARIANTS Atomic Durable IInv
PROPERTY NoRollback

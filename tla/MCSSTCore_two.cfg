SPECIFICATION Spec
CONSTANTS
    SST_FLASH_DEFAULT_VAL = 3
    SST_TOTAL_NUM_OF_BLOCKS = 2
    SST_BLOCK_SIZE = 8
    SST_ALL_METADATA_SIZE = 2
    SST_NUM_ASSETS = 2
    SST_FLASH_PROGRAM_UNIT = 2
    SST_MAX_OBJECT_SIZE = 3
    Uuids = {u1, u2}
    Sizes = {1, 3}
    Values = {v1}
    Offsets = {0, 1}
    DeleteBlocks = {0}
    WipesAllowed = TRUE
    MaxFlashErrors = 1
    ErrorCalls = {"create", "write", "prepare"}
INVARIANTS CallIsAtomic RamMatchesFlash Layout
INVARIANTS ProgramsErasedFlash ProgramsWholeUnits
PROPERTIES ImplementsStore
SYMMETRY UuidSymmetry

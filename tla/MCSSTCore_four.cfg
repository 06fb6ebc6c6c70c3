SPECIFICATION Spec
CONSTANTS
    SST_FLASH_DEFAULT_VAL = 3
    SST_TOTAL_NUM_OF_BLOCKS = 4
    SST_BLOCK_SIZE = 4
    SST_ALL_METADATA_SIZE = 1
    SST_NUM_ASSETS = 3
    SST_FLASH_PROGRAM_UNIT = 1
    SST_MAX_OBJECT_SIZE = 2
    Uuids = {u1, u2, u3}
    Sizes = {2}
    Values = {v1, v2}
    Offsets = {0}
    DeleteBlocks = {0, 1}
    WipesAllowed = TRUE
    MaxFlashErrors = 0
    ErrorCalls = {}
INVARIANTS CallIsAtomic Layout RamMatchesFlash ProgramsErasedFlash
SYMMETRY Symmetry

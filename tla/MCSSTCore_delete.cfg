SPECIFICATION Spec
CONSTANTS
    SST_FLASH_DEFAULT_VAL = 3
    SST_TOTAL_NUM_OF_BLOCKS = 4
    SST_BLOCK_SIZE = 3
    SST_ALL_METADATA_SIZE = 1
    SST_NUM_ASSETS = 2
    SST_FLASH_PROGRAM_UNIT = 1
    SST_MAX_OBJECT_SIZE = 2
    Uuids = {u1, u2}
    Sizes = {2}
    Values = {v1, v2}
    Offsets = {0, 1}
    DeleteBlocks = {0, 1}
    WipesAllowed = FALSE
    MaxFlashErrors = 0
    ErrorCalls = {}
INVARIANT DeleteKeepsOthers
SYMMETRY Symmetry

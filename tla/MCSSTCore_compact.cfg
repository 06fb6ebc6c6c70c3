SPECIFICATION Spec
CONSTANTS
    SST_FLASH_DEFAULT_VAL = 3
    SST_TOTAL_NUM_OF_BLOCKS = 4
    SST_BLOCK_SIZE = 4
    SST_ALL_METADATA_SIZE = 1
    SST_NUM_ASSETS = 4
    SST_FLASH_PROGRAM_UNIT = 1
    SST_MAX_OBJECT_SIZE = 2
    Uuids = {u1, u2, u3, u4}
    Sizes = {1, 2}
    Values = {v1}
    Offsets = {}
    DeleteBlocks = {0, 1}
    WipesAllowed = FALSE
    MaxFlashErrors = 0
    ErrorCalls = {}
INVARIANT CompactsFromNextObject
SYMMETRY Symmetry

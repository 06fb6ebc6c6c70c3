\* A caller starts the retrieval anywhere, also after deleting one item.
SPECIFICATION Spec
CONSTANTS
    LOG_SIZE = 10
    LOG_FIXED_FIELD_SIZE = 2
    LOG_MAC_SIZE = 1
    Sizes = {1, 2}
    Words = {0}
    Stamps = 4
    Deletes = {1, 4}
INVARIANTS RetrievesFromAny

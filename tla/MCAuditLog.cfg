\* Callers delete any number of items.
SPECIFICATION Spec
CONSTANTS
    LOG_SIZE = 10
    LOG_FIXED_FIELD_SIZE = 2
    LOG_MAC_SIZE = 1
    Sizes = {0, 1, 2, 4, 7}
    Words = {0}
    Stamps = 4
    Deletes = {0, 1, 2, 4}
INVARIANTS ItemsSealed StoredSizeIsTotal RetrievesRecent RetrievesFromFirst
PROPERTIES ImplementsFifo ReplacesNoMore

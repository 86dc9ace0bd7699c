CONSTANTS
    ARENA_PAGES = 7
    MAX_PROCESSES = 3
    REGION_PAGES = 2
    BOOT_PAGES = 3
    GOPHERD_PAGE = 1
    Programs <- MCPrograms
    POOL_ARENA_PAGES = 1
    PAGE_UNITS = 2
    SlotUnits <- MCSlotUnits
    MAX_ADDR_SPACES = 3
    TABLE_PAGES = 9
SPECIFICATION PagingSpec
INVARIANTS
    ReachesOnlyItsOwn
    ReachesAllItsOwn
    HandlesHaveOwners

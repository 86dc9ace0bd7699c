CONSTANTS
    ARENA_PAGES = 10
    MAX_PROCESSES = 3
    REGION_PAGES = 2
    BOOT_PAGES = 5
    GOPHERD_PAGE = 1
    Programs <- MCPrograms
    POOL_ARENA_PAGES = 1
    PAGE_UNITS = 2
    SlotUnits <- MCSlotUnits
SPECIFICATION Spec
INVARIANTS
    NoPageTwice
    HeapMatchesObjects
PROPERTIES
    OnlyImagesLeak
    ImplementsPageStore

CONSTANTS
    Configurations <- EveryOption
    MaxSlots = 3
    Sizes = {1, 3}
    MaxRecords = 3
    MaxDays = 2
    MaxRuns = 2
    OpenMayFail = TRUE
    MaxMishaps = 1

SPECIFICATION Spec
INVARIANTS TypeOK FilesInOrder SizeBounded RecordsAccounted OneDayPerFileWithoutLimit
PROPERTIES OnlyOldestExpires FlushedSurvives
CHECK_DEADLOCK FALSE

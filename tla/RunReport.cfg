SPECIFICATION Spec
CONSTANTS
  RUNS = 2
  MAX_LINES = 6
  REPORT_CAPACITY = 3
  PAGE_COUNT = 6
  SECTOR_PAGES = 2
  REPORT_PAGE_DATA = 2
  Text <- MCText
INVARIANTS ReportInv ReplayIsPrefixOfOneRun CompleteIsEverything CheckpointIsDurable
PROPERTY JournalKept
CHECK_DEADLOCK FALSE

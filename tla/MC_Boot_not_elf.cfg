SPECIFICATION RoomSpec
CONSTANTS
  PAGESIZE = 2
  Pages = {0, 1, 2, 3, 8, 9, 10, 11, 12, 13, 14, 15, 16, 17, 18}
  Frame = {8, 9, 10, 11, 12, 13, 14, 15, 16, 17, 18}
  TABLES = 4
  Images <- MCImages
  NotFound = NotFound
  Protocols = {"limine", "multiboot"}
  Memmaps <- MCMemmaps
  ModuleLists <- NotElfModules
  POOLPAGES = 2
  INITRD_PATH = "/boot/initrd.mr"
CHECK_DEADLOCK FALSE
INVARIANT Outcome

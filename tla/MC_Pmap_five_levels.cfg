SPECIFICATION Spec
CONSTANTS
  INDEX_BITS = 1
  LA57 = TRUE
  Frame = {1, 2, 3, 4, 5, 6, 7, 8, 9, 10, 11}
  CR3 = 1
  Boot <- FiveLevels
  Pages = {0, 8, 16}
  Lower = {0, 8}
  PMA = {20}
  Prots <- Rights
  NotPresent = NotPresent
INVARIANTS MappedAsAsked

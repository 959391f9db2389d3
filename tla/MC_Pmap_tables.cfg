SPECIFICATION Spec
CONSTANTS
  INDEX_BITS = 1
  LA57 = FALSE
  Frame = {1, 2, 3, 4, 5, 6, 7, 8, 9, 10, 11}
  CR3 = 1
  Boot <- BootChoices
  Pages = {0, 1, 7, 8}
  Lower = {0, 1, 7}
  PMA = {20}
  Prots <- Rights
  NotPresent = NotPresent
INVARIANTS TypeOK TablesSound
PROPERTIES ImplementsAddressSpace

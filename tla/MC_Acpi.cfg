SPECIFICATION FairSpec
CONSTANTS
  Firmwares <- MCFirmwares
  Signatures <- MCSignatures
  APIC = 65
  Types = {0, 1}
  Word = 16
INVARIANTS TypeOK MadtVisits
PROPERTIES QueryRight WalkEnds

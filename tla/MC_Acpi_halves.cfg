SPECIFICATION Spec
CONSTANTS
  Firmwares <- StrayHalf
  Signatures <- MCSignatures
  APIC = 65
  Types = {0, 1}
  Word = 16
INVARIANTS TypeOK MadtVisits
PROPERTY QueryRight

SPECIFICATION Spec
CONSTANTS
  KB = 2
  Space = 16
  RomBase = 12
  RomLen = 3
  EbdaSegs = {0, 3}
  BaseKBs = {4, 5}
  Candidates <- MCCandidates
  Variants <- MCVariants
  MaxPlanted = 2
  NCPU = 2
  TABLE = 1
  NULL = NULL
  LAPIC = 7
  MaxEntries = 3
  EntryTypes = {"PROC", "IOAPIC", "BUS", "IOINTR", "LINTR", "OTHER"}
  Tables <- MCTables
VIEW BootView
CHECK_DEADLOCK FALSE
INVARIANTS
  BootTypeOK
  SearchFindsFirst
  CpusRecorded

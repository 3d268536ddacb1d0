SPECIFICATION Spec
CONSTANTS
  NCPU = 2
  TABLE = 1
  NULL = NULL
  LAPIC = 7
  MaxEntries = 2
  EntryTypes = {"PROC", "IOAPIC", "BUS", "IOINTR", "LINTR", "OTHER"}
  Found <- MCFound
  Tables <- MCTables
CHECK_DEADLOCK FALSE
PROPERTY
  Termination

SPECIFICATION Spec
CONSTANTS
  MaxResets = 2
  MaxReboots = 1
  MaxBoots = 3
  MaxBacklog = 3
  MaxLosses = 1
  NumCells = 2
  MaxRefs = 3
  Heap = 4
  Packets = 2
  Last = 2
  TxBufs = 1
  SmpBufs = 1
  NumSlots = 3
  NumConns = 2
  MaxHr = 1
  Levels = 3
  CHK = 5
  READS = 2
  NumBufs = 3
  NumBlocks = 2
  CNT = 4
  THRESHOLD_CNT = 2
  NUM_SPEED_CACULATIONS = 3
  Voltages = {1699, 1700, 1701, 2500, 3099, 3100, 3101, 3300, 3549, 3550, 3551, 3599, 3600,
              3601, 3700, 3949, 3950, 3951, 4200, 0}
INVARIANTS TypeOK LinkKept Accounted Agrees
PROPERTIES Recovers
\* A fault, a return of main() or a system that is off stops a device.
CHECK_DEADLOCK FALSE

SPECIFICATION FairSpec
CONSTANTS
  NBufs = 4
  UART_BUF_SIZE = 2
  MaxBytes = 3
  MaxWrites = 2
  MaxChunks = 2
INVARIANTS TypeOK OneOwner NoByteLost AtMostOneStranded
PROPERTIES ReceiverRestarts
\* The environment may stop sending bytes and writes.
CHECK_DEADLOCK FALSE

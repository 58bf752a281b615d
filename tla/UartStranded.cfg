SPECIFICATION FairSpec
CONSTANTS
  NBufs = 4
  UART_BUF_SIZE = 2
  MaxBytes = 1
  MaxWrites = 1
  MaxChunks = 1
PROPERTIES QueuedDataIsSent
\* The environment may stop sending bytes and writes.
CHECK_DEADLOCK FALSE

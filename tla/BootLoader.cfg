SPECIFICATION FairSpec
CONSTANTS
  Chunks <- MCChunks
  NoImage = NoImage
  External = {"net"}
  Apps = {"v1", "v2"}
  Bad = "bad"
  Sectors = 2
  MaxResets = 3
  MaxUploads = 2
  MaxFaults = 1
INVARIANTS LoaderTypeOK JumpsIntoWholeImage RevertPossible TrialEndsWithReset SwapLosesNothing AllButLastCopied
PROPERTIES Boots
\* The application may stay idle, and a hung loader without a watchdog stays hung.
CHECK_DEADLOCK FALSE

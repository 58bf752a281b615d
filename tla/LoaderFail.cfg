SPECIFICATION Spec
CONSTANTS
  Chunks <- MCChunks
  NoImage = NoImage
  External = {"net"}
  Apps = {"v1", "v2"}
  Bad = "bad"
  Sectors = 2
  MaxResets = 2
  MaxUploads = 1
  MaxFaults = 0
INVARIANT FailMeansErased
CHECK_DEADLOCK FALSE

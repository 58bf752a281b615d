SPECIFICATION PcdSpec
CONSTANTS
  Chunks <- MCChunks
  NoImage = NoImage
  External = {"r1", "r2", "r3"}
INVARIANT DoneMeansCopied

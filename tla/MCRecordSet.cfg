CONSTANTS
  ByteBits = 2
  ShortBits = 3
  LongBits = 4
  ChunkSize = 2
  Texts = {"x", ""}
  Empty = ""
  Contents <- MCContents
  MaxRows = 3
  Jumps <- MCJumps
SPECIFICATION Spec
INVARIANTS
  ConversionsAreFaithful
PROPERTIES
  ScanKeepsCursor
  FindEnumerates
  SeekIsRight
  CallsReturn

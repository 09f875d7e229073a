CONSTANTS
  small = small
  large = large
  Types <- MCTypes
  SizeOf <- MCSizeOf
  RawType = RawBytes
  BlockSize = 8
  MaxTags <- MCMaxTags
SPECIFICATION Spec
INVARIANTS TagsTypeOK LookupIsNearest RedsSeparated SmallBlocksIndexed OrderlyDescribed OrderlySurvives
PROPERTIES LastWriteTagged
CHECK_DEADLOCK FALSE

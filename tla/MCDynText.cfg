SPECIFICATION FairTextSpec
CONSTANTS
  Bundle = 2
  TextStart = 4
  TextEnd = 14
  DynTextStart = 4
  TextSize = 12
  PageSize = 4
  Mapping = {p, q}
  MapError = MapError
  Address <- MCAddress
  Size <- MCSize
  Cutoff = 1
  MinAllocated = 1
  Idle = Idle
INVARIANTS SortedDisjoint BufferFits ModifyInRegion CacheOwnsMapping WroteAsked
PROPERTIES SetSpec CallReturns

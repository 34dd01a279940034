CONSTANTS
  n1 = n1
  n2 = n2
  n3 = n3
  d1 = d1
  d2 = d2
  Name <- MCName
  Datum <- MCDatum
  Inputs <- MCInputs
  MaxData = 2
  VolatileSpace = 5
  Configs <- SingleFault
SYMMETRY MCSymmetry
SPECIFICATION Spec
INVARIANTS TypeOK CacheMatchesFlash SizesKept OneAddedRecord ProgramsErasedFlash OneStorePerName AddedListedOnce
PROPERTIES VariablesAreAtomic

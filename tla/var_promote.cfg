CONSTANTS
  n1 = n1
  n2 = n2
  n3 = n3
  d1 = d1
  d2 = d2
  Name <- MCName
  Datum <- MCDatum
  Inputs <- MCInputs
  MaxData = 2
  VolatileSpace = 5
  Configs <- TwoRestarts
SYMMETRY MCSymmetry
SPECIFICATION Spec
PROPERTIES VariablesAreAtomic

SPECIFICATION Spec
CONSTANTS
  Savers = {s1, s2}
  Fields = 2
  Values = {0, 1}
  Default = 0
  MaxIds = 2
  MaxCuts = 1
  NoId = NoId
  NoFile = NoFile
  Torn = Torn
SYMMETRY SaverSymmetry
INVARIANTS FileWhole OneIdentity SavedIsCurrent

SPECIFICATION Spec
CONSTANTS
  v1 = v1
  v2 = v2
  Altered = altered
  Images <- MCImages
  Strays <- MCStrays
  MaxEdits = 1
SYMMETRY Alike
INVARIANTS
  BinaryIsWhole
PROPERTIES
  SettingsSurvive
  InstallKeepsItsWord

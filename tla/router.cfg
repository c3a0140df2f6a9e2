SPECIFICATION Spec
CONSTANTS
  MaxUint = 60000
  Amounts = {0, 1, 5, 11, 13}
  ShareLists <- MCShareLists
  FeeConfigs <- MCFeeConfigs
INVARIANTS
  TypeOK
  PaysExactly
  MirrorAgrees
PROPERTIES
  RefusesOnlyTheInvalid

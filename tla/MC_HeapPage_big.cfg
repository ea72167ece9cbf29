CONSTANTS
  ZERO = ZERO
  META = META
  UNREADABLE = UNREADABLE
  PAGE_SIZE = 40
  Lengths = {1, 3, 4, 99}
SPECIFICATION Spec
VIEW MCView
INVARIANTS
  TypeOK
  LayoutSound
  ValueRoundTrip
  FailedInsertUnchanged
  DirectoryTight
  AddOutcomeExact
  NoPanic
PROPERTY
  ContractSpec

CONSTANTS
  ZERO = ZERO
  META = META
  UNREADABLE = UNREADABLE
  PAGE_SIZE = 32
  Lengths = {1, 2, 3, 4, 99}
SPECIFICATION Spec
VIEW MCView
INVARIANTS
  TypeOK
  LayoutSound
  ValueRoundTrip
  FailedInsertUnchanged
  DirectoryTight
  AddOutcomeExact
  NoPanic
PROPERTY
  ContractSpec

SPECIFICATION Spec
CONSTANTS
  LastCluster = 4
  Backed = {2, 3, 4}
  SlotsPerCluster = 2
  Names = {t, d}
  NoName = none
  TestName = t
  MaxLen = 3
  Lengths = {2, 3}
  Look <- MCLook
  Faults = {"crash", "write"}
INVARIANTS TypeOK ChainsSound UniqueNames EntriesVisible SizeWritten
PROPERTIES CatShowsFile FilesIsolated ImplementsFileTree

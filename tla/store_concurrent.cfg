SPECIFICATION MCSpec
CONSTANTS
  Workers = {w1, w2}
  Devices = {d1}
  Configs = {c1, c2}
  Torn = Torn
  Names = {n1, n2}
  Roots = {r1, r2}
  ForeignKeys = FALSE
  Faults = TRUE
  MaxVersions = 2
SYMMETRY Symmetry
INVARIANTS
  StoreInv
  RowHasArtifact
  ContentMatchesRow
  ParentIsOlderAndDifferent
  LinearUnlessRaced
PROPERTIES
  ArtifactsImmutable
  RowsOnlyRepointed
CHECK_DEADLOCK FALSE
CONSTRAINT FewFiles

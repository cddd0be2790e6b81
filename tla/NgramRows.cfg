SPECIFICATION FairSpec
CONSTANTS
  mlx = mlx
  d1 = d1
  d2 = d2
  Rows = {1, 2}
  Batches <- MCBatches
  Mlx = mlx
  Daemons = {d1, d2}
  Cap = 1
  Junk = Junk
  NoLock = NoLock
INVARIANTS
  TypeOK
  RowsFromDisk
PROPERTIES
  MlxComesBack

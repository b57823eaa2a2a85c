SPECIFICATION Spec
CONSTANTS
  u1 = u1  u2 = u2  f1 = f1  d1 = d1  pg1 = pg1  n1 = n1  file1 = file1
  r1 = r1  r2 = r2  NULL = NULL  empty = empty
  Users = {u1, u2}
  FolderIds = {f1}
  DocIds = {d1}
  PageIds = {pg1}
  Names = {n1}
  Files = {file1}
  Images = {}
  Blanks = {empty}
  Requests = {r1, r2}
  ClientTimes = {}
  Epoch = 2
  MaxClock = 3
SYMMETRY Symmetric
INVARIANTS TypeOK FileIsStored
PROPERTIES FileKeptUnlessEmptied RowsKeepTheirPlace

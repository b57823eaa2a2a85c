SPECIFICATION HSpec
CONSTANTS
  u1 = u1  f1 = f1  d1 = d1  pg1 = pg1  n1 = n1  n2 = n2
  file1 = file1  r1 = r1  r2 = r2  NULL = NULL
  Users = {u1}
  FolderIds = {f1}
  DocIds = {d1}
  PageIds = {pg1}
  Names = {n1, n2}
  Files = {file1}
  Images = {}
  Blanks = {}
  Requests = {r1}
  ClientTimes = {3}
  Epoch = 2
  MaxClock = 2
SYMMETRY Symmetric
PROPERTIES FoldersResolve DocumentsResolveAfresh PagesResolve
INVARIANT FoldersLatest

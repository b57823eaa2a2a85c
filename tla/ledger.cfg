SPECIFICATION Spec
CONSTANTS
  u1 = u1  ph1 = ph1  ph2 = ph2  r1 = r1  r2 = r2  id1 = id1  id2 = id2  f1 = f1
  v1 = v1  v2 = v2  NULL = NULL
  Users = {u1}
  Photos = {ph1}
  ReceiptIds = {id1, id2}
  FolderIds = {f1}
  Columns = {"vendor_name"}
  Values = {v1, v2}
  Requests = {r1, r2}
  DefaultLimit = 1
  MaxLimit = 2
  ExportLimit = 3
SYMMETRY Symmetric
INVARIANTS TypeOK ImagesAreStored DeletedStaysDeleted CopiesExplained
PROPERTIES ExtractedIsKept EditsKeepOthers
CHECK_DEADLOCK FALSE

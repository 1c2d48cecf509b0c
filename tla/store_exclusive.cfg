SPECIFICATION StoreSpec
CONSTANTS
  Session = {s1, s2, s3}
  Body = {p, q}
  NoBody = NoBody
  Careless = {s3}
  MaxSeq = 2
CHECK_DEADLOCK FALSE
INVARIANTS
    AloneWellSequenced
PROPERTIES
    RecordsAreFinal

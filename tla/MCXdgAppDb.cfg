CONSTANTS
  Ids = {id1, id2}
  Apps = {app1}
  Perms = {read}
  Data = {data1}
  NULL = NULL
  Absent = Absent
  MaxCopies = 2
SPECIFICATION Spec
INVARIANTS
  IndexConsistent
PROPERTIES
  ImplementsAbstractDb

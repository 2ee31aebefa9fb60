CONSTANTS
  Docs = {doc1, doc2}
  Apps = {app1, app2}
  Host = host
  Paths = {path1, path2}
  PermArgs <- SomePermissions
  MaxRequests = 2
  NULL = NULL
SPECIFICATION FairSpec
INVARIANTS
  NoInventedPermission
  StoreFollowsPortal
  OneSharedDocument
PROPERTIES
  GainsAreAuthorised
  FileCatchesUp

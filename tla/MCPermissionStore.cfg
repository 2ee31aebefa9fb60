CONSTANTS
  Ids = {id1, id2}
  Apps = {app1}
  Perms = {read}
  Values = {data1}
  ByteZero = ByteZero
  Calls = {c1, c2, c3}
  NULL = NULL
SPECIFICATION FairStoreSpec
INVARIANTS
  AnsweredIsDurable
  FileIsPrefix
PROPERTIES
  NoAnsweredChangeLost
  EveryCallAnswered

SPECIFICATION PartsSpec
CONSTANTS
  Ids = {1, 2, 3}
  Books = {1, 2}
  Survivor <- MCSurvivor
  Drafts = {3}
  Same <- MCSame
  Requests = {r1, r2}
  Purgers = {q1, q2}
  DraftCap = 1
  TrashCap = 2
  Retention = 0
  BatchSize = 1
  MaxBatches = 2
  MaxTime = 2
  None = None
  r1 = r1
  r2 = r2
  q1 = q1
  q2 = q2
  Users = {"ann", "bob"}
  BookIds = {1, 2, 3, 4}
  OldBooks <- MCBooks
  OldEditions <- MCEditions
  OldEntries <- MCEntries
  Results <- MCResults
  OldTokens <- MCOldTokens
  Thirteen <- MCThirteen
  Ttl = 0
  MaxDay = 1
  MaxTokens = 2
  MaxEntries = 1
  Malformed = Malformed
INVARIANTS
  OneLivePerWork
  CatalogueIsSigned
  EditionOfItsWork
PROPERTIES
  TrashFrozen
  LeavesByTheRules
SYMMETRY Symmetry
CONSTRAINT OneKind

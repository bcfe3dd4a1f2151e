SPECIFICATION FairSpec
CONSTANTS
  N = 4
  ext = ext
  Outside = {ext}
  Worlds <- mWorlds
  EntrySets <- mEntries
  DeadSets <- mDead
  Height = 3
  Analysis = {"returns", "arguments", "opposes"}
  Calls <- mCalls
  Transfer <- mTransfer
INVARIANTS TypeOK CalleesFirst ComponentsAreExact DeadIsUnreachable ReportsNewMarks SolvedStaysSolved NeverAboveASolution
PROPERTY Terminates

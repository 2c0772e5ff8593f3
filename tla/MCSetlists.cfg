SPECIFICATION Spec
CONSTANTS
  TopComments = 2
  Lines <- MCLines
  Comments <- MCComments
  Chapters <- MCChapters
  Pasted <- MCPasted
  Entries <- MCEntries
  Durations = {0, 61, 7200}
  MaxLines = 4
  MaxComments = 3
  MaxChapters = 2
INVARIANTS
  BlockIsLongest
  SavedIffStrictlyRising
  BestComment
  DraftsFromOneSource
CHECK_DEADLOCK FALSE

SPECIFICATION FairSpec
CONSTANTS
  s1 = s1
  s2 = s2
  Streams = {s1, s2}
  Names = {1, 2, 3}
  Denied = {2}
  Retentions = {0}
  NoSub = NoSub
  MaxAge = 1
  MaxSize = 1
  Capacity = 3
  Low = 1
  Target = 2
INVARIANTS
  TypeOK
  OldestFirst
  CountedIsGone
PROPERTIES
  ExpiredGo

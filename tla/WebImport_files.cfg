SPECIFICATION FairSpec
CONSTANTS
  u1 = u1
  u2 = u2
  Uploads <- TwoUploads
  Plans <- Pairs
  Original = Original
  Absent = Absent
  QueueLen = 1
  SelfPosts = 1
  MayRestart = TRUE
INVARIANTS IndexMatches NoticePending
PROPERTIES AcceptedKept AcceptedInstalled

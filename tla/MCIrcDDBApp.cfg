CONSTANTS
  Servers = {1, 2}
  Rptrs = {r1}
  SelectWait = 1
  ListWait = 2
  InfoWait = 1
  MaxPending = 2
  NotFound = TRUE
  Budget = 3
  MaxReplies = 1
SPECIFICATION FairSpec
INVARIANT ReadyIsOperational ServerOfThisConnection
PROPERTY StoredAfterDownloads DownloadEnds LossIsNoticed RepeaterAnnounced

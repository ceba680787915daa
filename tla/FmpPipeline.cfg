CONSTANTS
  gnw = gnw
  prn = prn
  other = other
  w1 = w1
  w2 = w2
  Releases = {gnw, prn}
  Foreign = {}
  SameText <- MCSameText
  Workers = {w1, w2}
  NoRelease = NoRelease
  MaxAge = 0
  MaxLate = 1
  MaxAttempts = 2
  Pause = 1
  RetryDelay <- MCRetryDelay
  MaxFaults = 1
SPECIFICATION Spec
INVARIANTS
  OneWorkerEach
  PublishedOnce
  CopiesPublishedOnce
PROPERTIES
  ListedIsSettled
  SeenIsSaved

CONSTANTS
  left = left
  right = right
  w1 = w1
  w2 = w2
  Layouts <- AllLayouts
  Windows = {w1, w2}
  Margin <- Margins
  Fractions <- NearTheEnd
  RuleIds = {0, 2}
  ViewModels = {v1}
  MaxChanges = 2
  MaxRules = 1
  Faults = {"memory", "window"}
SPECIFICATION FairSpec
INVARIANTS CacheInv MirrorCurrent CallbackOnLiveViewModel KeptBoundsOfOwnMonitor
PROPERTIES FrameNearWorkArea ChangeReachesPages
CHECK_DEADLOCK FALSE

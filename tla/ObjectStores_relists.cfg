\* Objects come and go while their watch breaks, restarts and is paused.
SPECIFICATION FairSpec
CONSTANTS
  u1 = u1  u2 = u2
  Uids = {u1, u2}
  Kinds = {"pods", "watched", "unversioned", "polled"}
  MaxChanges = 3
  Capacity = 2
INVARIANTS
  TableIsSound
  ShowsOneMoment
  FlashesWhatHappened
PROPERTIES
  ImplementsLiveView
  CatchesUp

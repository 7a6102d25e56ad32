\* One tunnel-bound context shared by two windows, under the fairness of the runtime.
SPECIFICATION FairSpec
CONSTANTS
  c1 = c1  w1 = w1  w2 = w2  pods = pods  kind = kind
  p1 = p1  p2 = p2  p3 = p3  None = None
  Contexts = {c1}
  Windows = {w1, w2}
  Keys = {pods, kind}
  Pods = pods
  Panels = {p1, p2, p3}
  Bound = {c1}
  PanelWindow <- SharedPanelWindow
  PanelContext <- SharedPanelContext
  PanelKey <- SharedPanelKey
  Slots = {1, 2}
  EdgeCapacity = 1
INVARIANTS
  TypeOK
  RefcountMatchesPanels
  RunningIffWanted
  PanelsAreHeld
  PauseIsTended
PROPERTIES
  StoppedWatchRecovers
  PanelGetsItsWatch

\* Two containers and one stream at a time, through restarts and the panel's controls.
SPECIFICATION FairSpec
CONSTANTS
  box1 = box1  box2 = box2  web = web  db = db  n1 = n1  n2 = n2  main = main  side = side
  None = None
  Containers = {box1, box2}
  Pod <- TwoPods
  Namespace <- TwoNamespaces
  Name <- TwoNames
  Rank <- TwoRanks
  Skew <- WithTheNodes
  Coloured = {}
  MaxStreams = 1
  TailLines = 1
  Capacity = 1
  Selectors <- BothPods
  Scopes <- AllOrFirst
  Filters <- AllOrMain
  Active = {box1}
  MaxLines = 2
  MaxSecond = 1
INVARIANTS
  StreamsAreWanted
  LinesInOrder
PROPERTIES
  DueLineIsShown

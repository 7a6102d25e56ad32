\* Two pods of one name, in two namespaces, the first of which writes in colour.
SPECIFICATION Spec
CONSTANTS
  box1 = box1  box2 = box2  web = web  db = db  n1 = n1  n2 = n2  main = main  side = side
  None = None
  Containers = {box1, box2}
  Pod <- SameName
  Namespace <- TwoNamespaces
  Name <- TwoNames
  Rank <- TwoRanks
  Skew <- WithTheNodes
  Coloured = {box1}
  MaxStreams = 2
  TailLines = 1
  Capacity = 1
  Selectors <- OnePod
  Scopes <- AllOrFirst
  Filters <- AllOrMain
  Active = {box1, box2}
  MaxLines = 2
  MaxSecond = 0
INVARIANTS
  ColourStaysWithItsPod

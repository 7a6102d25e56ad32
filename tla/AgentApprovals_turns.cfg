\* Three agents' calls, a queue of two, one other dialog, and a window that closes.
SPECIFICATION GateFairSpec
CONSTANTS
  NoCall = NoCall  Other = Other
  c1 = c1  c2 = c2  c3 = c3
  Calls = {c1, c2, c3}
  MaxConnections = 2
  QueueSize = 2
  MaxOthers = 1
  MaxWindows = 1
INVARIANTS
  QuestionIsTracked
PROPERTIES
  WithdrawalSparesOtherQuestions
  AgentHearsBack

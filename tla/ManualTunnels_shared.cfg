\* Two contexts, one attempt torn down while the next one starts; liveness under the fairness of
\* the runtime.
SPECIFICATION FairSpec
CONSTANTS
  None = None
  Contexts = {c1, c2}
  Forwards = {f1, f2}
INVARIANTS
  PromptsAreSound
  ConfirmedFirst
PROPERTIES
  LoneRetryPromptsAgain
  PromptFollowsItsWaiters
  AnswerReachesEveryWaiter
  ImplementsSharedForward

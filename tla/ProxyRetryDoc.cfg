\* One client message: an RPC that is moved as the documentation describes it.
SPECIFICATION Spec
CONSTANTS
    RetryCount = 2
    Messages = 1
    MaxReplies = 1
INVARIANT DocRetryBudget
CHECK_DEADLOCK FALSE

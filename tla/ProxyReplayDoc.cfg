\* A client stream of two messages.
SPECIFICATION Spec
CONSTANTS
    RetryCount = 2
    Messages = 2
    MaxReplies = 1
INVARIANT DocSingleMessageTransfer
CHECK_DEADLOCK FALSE

CONSTANTS
    MaxMessages = 3
    IdleTimeout = 2
SPECIFICATION WsFairSpec
INVARIANTS ErrorFrameSent
CHECK_DEADLOCK FALSE

\* Five keys: two answers, a cancellation and text typed ahead in one life of
\* the process; two prompts per conversation; a queue that overflows.
SPECIFICATION ProviderSpec
CONSTANTS
    MaxQueue = 2
    MaxKeys = 5
    MaxPrompts = 2
INVARIANTS
    ProviderTypeOK
    AuthorityFromPam
    TypedForThisAnswer
    NoErrorOfItsOwn
PROPERTIES
    ImplementsSecureLock
    TypingRestartsAuthentication
CHECK_DEADLOCK FALSE

\* A key is pressed while the loop is in read_key.
CONSTANTS
    KeyBufSize = 3
    LineMax = 2
    InputMax = 1
    HasChat = TRUE
    MaxTyped = 3
    MaxEnters = 2
    None = None
SPECIFICATION Spec
INVARIANTS
    ReadKeyIsNonBlocking

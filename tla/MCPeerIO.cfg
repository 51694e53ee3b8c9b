\* One connection: two requests from the remote node, up to three
\* async_sends (from handlers or other threads), messages of two chunks.
CONSTANTS
    Listen = L
    NoOwner = NoOwner
    Kinds <- MCKinds
    MaxReqs = 2
    MaxSends = 3
    Parts = 2
SPECIFICATION Spec
\* The remote node's requests are bounded, so the connection goes quiet;
\* a stuck io thread is what the property is about.
CHECK_DEADLOCK FALSE
PROPERTY
    SentArrive

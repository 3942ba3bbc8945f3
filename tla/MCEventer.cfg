CONSTANTS
    Sinks = {s1, s2}
    NoBatch = NoBatch
    BufferSize = 2
    MaxUpdates = 3
    MaxRounds = 2
SPECIFICATION Spec
INVARIANTS EventsAccounted OnceInOrder
PROPERTIES EventsFanOut
CHECK_DEADLOCK FALSE

SPECIFICATION SignalingSpec
CONSTANTS
    MaxMessages = 5
INVARIANTS
    NothingLeftBehind
CHECK_DEADLOCK FALSE

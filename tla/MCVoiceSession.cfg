SPECIFICATION VoiceFairSpec
CONSTANTS
    MaxTurns = 2
    MaxWords = 1
    HbMiss = 0
    IdleLimit = 0
INVARIANTS
    OneTurnAtATime
    SpeakingIsInterruptible
PROPERTIES
    BargeInSilences
    ConnectionReleased
CHECK_DEADLOCK FALSE

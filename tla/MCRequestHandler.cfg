SPECIFICATION HandlerSpec
CONSTANTS
    Character <- MCCharacter
    Plain <- MCPlain
    Escaped <- MCEscaped
    Broken <- MCBroken
    MaxPieces = 5
INVARIANTS
    ServesWhatWasMeant
    RefusedForItsPath
    StaysBelowRoot
    TypeGoesWithName
CHECK_DEADLOCK FALSE

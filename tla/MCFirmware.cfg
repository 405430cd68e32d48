SPECIFICATION FairSpec
CONSTANT HoldCount = 3
INVARIANTS
    RunOrFault
    NoLampForgotten
    ResetWasHeld
PROPERTIES
    EndsUpServing
    UnlicensedShowsFault

CONSTANTS
    SigW = 2
    KeyW = 1
    ByteBase = 8
    Signer <- MC_Signer
    Attacker <- MC_Attacker
    HonestMsg <- MC_HonestMsg
    ForgedMsg <- MC_ForgedMsg
    SigCode <- MC_SigCode
    Unforgeable <- MC_Unforgeable
    Offsets <- MC_Offsets
    Sizes <- MC_Sizes
SPECIFICATION Spec
INVARIANT ExtractedWasSigned HonestExtracts
CHECK_DEADLOCK FALSE

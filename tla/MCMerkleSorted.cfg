CONSTANTS
    Claimers = {"a", "b", "c", "d"}
    Outsider = "x"
    LeafCode <- MC_LeafCode
    MaxLeaves = 4
    MaxProofLen = 3
SPECIFICATION Spec
INVARIANT MembersVerify OnlyMembersVerify
CHECK_DEADLOCK FALSE

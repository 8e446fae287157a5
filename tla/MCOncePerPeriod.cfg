\* Once-per-period admission when the authority never changes the schedule.
CONSTANTS
  Claimers = {c1, c2}
  Allowlisted = {c1}
  Signers = {s1, s2}
  G = G
  OtherGrant = OtherGrant
  ZeroHash = ZeroHash
  AllowRoot = AllowRoot
  AuditHash = AuditHash
  ForeignHash = ForeignHash
  BogusHash = BogusHash
  Ed25519 = Ed25519
  OtherProgram = OtherProgram
  NoCompanion = NoCompanion
  ValidProof = ValidProof
  ForgedProof = ForgedProof
  NoGrant = NoGrant
  NoVault = NoVault
  NoConfig = NoConfig
  GrantParams <- MC_FixedParams
  FundAmounts <- MC_UnitFunding
  POP_MAX_SKEW_SECONDS = 1
  YEAR_SECONDS = 10
  MaxTime = 4
  MaxFunded = 3
  MaxPeriod = 2
  MaxEntries = 3
SYMMETRY MC_Symmetry
SPECIFICATION Spec
PROPERTY OncePerPeriod

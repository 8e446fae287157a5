\* Two users who are each authority, funder and claimer, one mint, one
\* grant id per (authority, mint), two PoP keys.
CONSTANTS
  Users = {u1, u2}
  Mints = {m1}
  GrantIds = {0}
  PopKeys = {k1, k2}
  Allowlisted = {u1}
  Amount = 1
  InitialBalance = 1
  NoAcct = NoAcct
SPECIFICATION Spec
PROPERTY OwnerWritesOnly ClaimsUseOwnPopSigner

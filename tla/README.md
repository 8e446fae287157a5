# TLA+ models of `grant_program`

This project models the Anchor program in
`src/grant_program/programs/grant_program/src/lib.rs` (referred to below as lib.rs). The program
makes periodic token grants. A claimer may withdraw once per period of a grant. Each
claim must carry a signed proof-of-process (PoP) message that extends a per-grant hash
chain, and may also need a Merkle allowlist proof.

## 1. Inventory

### Components and their state

| Component | Code | State it keeps |
|---|---|---|
| Grant administration | `create_grant`, `fund_grant`, `set_paused`, `set_allowlist_root`, `close_grant` (48-212) | `Grant` account: amount, period, start, expiry, merkle_root, paused. Vault token balance. |
| PoP signer config | `upsert_pop_config` (215-221) | `PopConfig`: the trusted signer key of the authority |
| Claim orchestrator | `claim_grant` (102-136), `claim_grant_with_proof` (225-267), accounts `ClaimGrant` (341-410) | none of its own; it writes the receipt, PopState and the vault |
| Signature co-instruction extractor | `verify_and_record_pop_proof` 645-657, `extract_ed25519_signer_and_message` (729-774), `read_u16_le` | none; it reads the instructions sysvar |
| Binary message codec | `parse_pop_message`, `read_*` (776-916) | none; a pure function |
| Hash-chain verifier | `verify_and_record_pop_proof` 658-724, `pop_entry_hash` (820-856) | `PopState`: both strand hashes, last period, last issued_at, initialized |
| Merkle allowlist verifier | `allowlist_leaf`, `verify_merkle_sorted` (918-942) | none; a pure function |
| Period & replay guard | `require_claim_timing` (563-579), receipt PDA `init` (372-385) | `ClaimReceipt` per (grant, claimer, period) |
| Account validation | the `#[derive(Accounts)]` structs (272-492): PDA seeds, `has_one`, `constraint`, `init`/`init_if_needed`, `Signer` | none; they decide which accounts an instruction may touch |
| External | SPL token `transfer_checked`/`close_account`, the ed25519 native verifier, the Clock and instructions sysvars | token balances, clock |

### How they interact

Every instruction is one Solana transaction. Its writes commit all together, or are
rolled back if any check fails. Nothing runs concurrently inside a transaction. What
interleaves is whole transactions from different actors: claimers, the authority, the
off-chain PoP signer (through the proofs it hands out) and the clock. The actors share
the accounts listed above.

A claim proceeds in this order:

1. Anchor initialises the receipt account. This fails if a receipt for
   (grant, claimer, period) already exists.
2. The handler checks that the grant is not paused.
3. It checks the allowlist branch.
4. It reads the previous instruction (the ed25519 companion) and takes the signer key
   and the message from it.
5. It decodes the message.
6. It checks the signer, the grant/claimer/period binding, the v2 audit hash, the
   recomputed entry hash, the skew bound and chain continuity.
7. It advances PopState.
8. It checks the timing (expiry, start, period index).
9. It pays out of the vault.
10. It writes the receipt.

### What is hard

- **Racing claims on one chain.** The chain has a single head per grant, so all claims
  on a grant are serialized through it. A proof signed against a head that has since
  moved must be refused. Otherwise the chain forks or rewinds.
- **Atomicity.** PopState is written before the timing check and before the transfer.
  Only the transaction rollback keeps the chain and the receipts in step.
- **Replay and duplicate submission.** A second claim for the same
  (grant, claimer, period) is stopped only by receipt uniqueness.
- **Admin operations interleaved with claims.** Pause, allowlist root and signer
  rotation can land between claims. `create_grant` uses `init_if_needed`, so it
  re-initialises a live grant. `close_grant` leaves the receipts and PopState behind.
- **Numeric boundaries.** Skew is inclusive at ±600 s. The period index uses truncating
  division. Expiry is inclusive. `checked_sub` overflows for extreme values of `start_ts`.
- **Untrusted byte parsing.** The companion header offsets and the `0xFFFF` sentinels,
  and the exact message lengths.

### What makes each component correct

- **Hash chain.** The head is the end of one chain rooted at an all-zero genesis. Both
  strands link to the previous entry. There is one entry per admitted claim.
- **Replay guard.** A (claimer, period) pair is admitted at most once. At most one
  payout per claimer per period of the schedule.
- **Orchestrator.**
  - A payout happens only while the grant is unpaused and allowlist-respecting.
  - It happens only inside the grant window, at the recomputed period.
  - It is backed by a fresh proof bound to the same claimer and period.
- **Codec and extractor.** Only exact layouts decode. Every read stays in bounds. Cross-instruction references are refused.
- **Merkle.** A sorted-pair path folds to the root exactly for the tree's leaves.

`PROJECT.json` lists every component with its status, and lists the hazards at the lines where they bite.

## 2. Modules

| Module | Models |
|---|---|
| `GrantProgram` | The whole program for one grant: every instruction is an action. |
| `ClaimAdmission` | An abstract specification of what admission promises: an admitted set of (claimer, period) pairs and an append-only, linked PoP log. |
| `MCGrantProgram` | The model-checking instance: scaled constants and the grant schedules. |
| `MerkleSorted` | `allowlist_leaf` and `verify_merkle_sorted`, checked against the off-chain sorted-pair tree builder of spec 4.4. |
| `PopMessageCodec` | `parse_pop_message` and the `read_*` helpers at byte level, checked against the layout table of spec section 6. |
| `Ed25519Extract` | `extract_ed25519_signer_and_message` and `read_u16_le` at byte level, composed with the native ed25519 verifier reading the same instruction. |
| `ClaimTiming` | `require_claim_timing`, `absolute_i64_diff`, the skew check and `create_grant`'s `start_ts` bound at a scaled i64/u64 width. |
| `GrantAccounts` | The account structs of all seven instructions, for several authorities, mints and grants, with the token accounts `transfer_checked` moves tokens between. |
| `MCMerkleSorted`, `MCPopMessageCodec`, `MCEd25519Extract`, `MCClaimTiming` | Their model-checking instances. |

### Correspondence of `GrantProgram` to the code

| Model | lib.rs |
|---|---|
| `grant` | the `Grant` account, or `NoGrant` when it does not exist or was closed |
| `vault` | the vault balance, or `NoVault` |
| `receipts` | the `ClaimReceipt` accounts |
| `popState` | `PopState` |
| `popSigner` | `PopConfig.signer_pubkey`, or `NoConfig` |
| `now` | `Clock::unix_timestamp`; it only increases |

Actions are `CreateGrant`, `FundGrant`, `ClaimGrant`, `ClaimGrantWithProof`,
`CloseGrant`, `SetPaused`, `SetAllowlistRoot`, `UpsertPopConfig` and `Tick`. A claim
action is the conjunction of the Anchor account constraints (`ClaimAccountsOk`) and
every `require!` of the handler. Each check of `verify_and_record_pop_proof` is its own
definition named for its error code:

- `PopCompanionOk`
- `PopSignerOk`
- `PopBindingOk`
- `PopAuditOk`
- `PopEntryHashOk`
- `PopFresh`
- `PopChainContinues`
- `PopAdvance`

A failing transaction changes nothing, so it is a stuttering step. The conjunct order
does not change the outcome. Checks that do not depend on the proof are listed first,
so that TLC prunes early.

#### Abstractions

- **Hashes.** sha256 is treated as a perfect hash. An entry hash is the record of the
  fields `pop_entry_hash` covers, including the domain tag, so v1 and v2 can never
  collide. Because each entry contains its predecessor, `ChainOf(head)` recovers the
  whole accepted chain from PopState alone. The refinement mapping uses this.
- **Claim inputs.** The inputs to a claim (`Requests`) are a chosen set, not every message the program could receive. They are:
  - every message an honest signer could produce now: v1 or v2, linked to the current
    head;
  - each of those with one field changed: the wrong program, no companion, the other
    key, no audit hash, another grant, another claimer, another period, any pair of
    known hashes as previous hashes (genesis, a foreign hash, or an older entry, which
    is the losing side of a race), `issued_at` just outside or at the future edge of
    the skew window, or a bogus `entry_hash`.

  Every message the correct program accepts is in this set. The set is large enough to
  break each check when that check is dropped.
- **Merkle verification.** It is membership: a valid path verifies exactly for the
  claimers in `Allowlisted`, under `AllowRoot`. The `merkle_sorted` run checks the
  sorted-pair fold that justifies this.
- **Decoding and header parsing.** These are taken as already done: the request is the
  decoded message. `PopMessageCodec` and `Ed25519Extract` check those two steps.

### `MerkleSorted`

- **Digests.** A digest is the term it hashes: `[leaf |-> c]` for `allowlist_leaf(c)`,
  and `[l |-> a, r |-> b]` for `hashv(a || b)`. This is a perfect hash. A leaf never
  equals a pair, because their preimages have different lengths. The byte-wise
  `computed <= *p` of line 937 is `DigestLeq`, a total order: leaves by `LeafCode`,
  leaves before pairs, and pairs lexicographically.
- **State and action.** One call is one step. `Init` picks the published allowlist
  `tree`, the `claimer` and the `proof` it submits. `Verify` (lines 240-245) runs
  `VerifyMerkleSorted`, which is `FoldLeft(MerkleStep, leaf, proof) = root`.
  `MerkleStep` is one iteration of the loop (936-940).
- **Builder.** The builder is the external contract of spec 4.4 and is not code of this
  repository. `NextLevel`, `RootOf` and `PathOf` pair neighbours by the sorted-pair rule
  and carry an odd last node up unchanged. They are recursive.
- **Proofs.** The submitted proof is the builder's path for a member, or any sequence of
  up to `MaxProofLen` of the tree's own digests and a foreign leaf.

### `PopMessageCodec`

- **Widths.** A key or hash is `KeyW` bytes and an integer is `IntW` bytes. A byte takes
  `ByteBase` values. `POP_MESSAGE_LEN_V1/V2` are the same sums of widths as lines 32-33.
- **Reads.** `ReadBytes` is `read_pubkey`/`read_hash`, with the bounds check.
  `FromLeBytes` and `FromLeBytesSigned` are `u64`/`i64::from_le_bytes`, so a negative
  `issued_at` decodes as two's complement. `ReadAll` threads the offset through the
  reads of `Layout(version)`, which has no audit hash for v1. `Decode` builds the
  `PopProofMessage`, with a zero audit hash for v1.
- **Inputs.** `Serialize` is the spec section 6 table, the reference for the check.
  Inputs are every message from small per-field value sets, laid out by `Serialize`.
  Each is sent either intact or tampered: truncated, extended by a byte, with the other
  version byte, with an unknown version, or empty.

### `Ed25519Extract`

- **Data.** Instruction data is a byte sequence. The 16-byte header is kept as it is,
  with its u16 fields at bytes 2-15, so `u16::MAX` is `ByteBase^2 - 1`. Signatures and
  keys are scaled: `SigW` and `KeyW` bytes.
- **Transaction.** The transaction has three instructions: 0, which the submitter writes
  freely; 1, the ed25519 instruction; 2, the claim, which reads instruction
  `current_index - 1`.
- **Native verifier.** `NativeVerifies` models the runtime's verifier (not code of this
  repository). It takes each of signature, key and message from the instruction that its
  index names, with `u16::MAX` meaning this one. It checks the bounds and the signature.
- **Signatures.** The submitter holds the key `Attacker` and one signature of `Signer`
  over `HonestMsg`. `SigCode` gives the bytes of each signature it holds. The signature
  of any other (key, message) is `Unforgeable`, bytes it never writes.
- **Actions.** `NativeVerify` runs the verifier. `Extract` runs the extractor, only if
  the verifier passed, because the runtime aborts the transaction otherwise.
- **Overflow.** The `checked_add` calls cannot overflow a `usize` on u16 offsets, so
  `MathOverflow` is unreachable here.

### `ClaimTiming`

- **Width.** `i64` and `u64` have `Width` bits. `CheckedSub` fails outside
  `[I64Min, I64Max]`. `TruncDiv` truncates toward zero, as Rust's `/` does. `AsU64`
  wraps.
- **Actions.** `CreateGrant` keeps the `period_seconds > 0` check and the
  `start_ts <= now + 1 year` check. `Claim` is the skew check (`PopFresh` with
  `AbsoluteI64Diff`) and then `RequireClaimTiming`, for any `period_index` in u64 and
  any `issued_at`. `lastClaim` records the last admitted claim and the schedule it was
  checked under.
- **Clock.** The clock stays far below `I64Max - YEAR_SECONDS`, as the real clock does.

### `GrantAccounts`

- **Addresses.** An address is the term of its seeds: `GrantAddr(authority, mint,
  grant_id)`, `VaultAddr(grant)`, and a PopConfig indexed by its authority. Two
  accounts share an address exactly when their seeds are equal.
- **State.** `grants` maps every grant PDA to its `Grant` or `NoAcct`. `tokens` maps
  every user's token account and every vault to its mint, owner and amount. `popConfigs`
  holds each authority's `PopConfig`. `receipts` holds the (grant, claimer) pairs.
  `tx` records the last committed instruction, its signer and, for a claim, the PoP key
  and the grant its message names. `tx` is history for the action properties only.
- **Actions.** There is one action per instruction. Its parameters are the signer and
  every account the submitter passes. Its guard is the struct's constraints and the
  handler's `require!`s:
  - `GrantOfAuthorityOk` is the shared `has_one` plus seeds of the admin structs.
  - `PopConfigOk` is the seeds plus the authority constraint of `ClaimGrant.pop_config`.
  - `CreateGrant` is `init_if_needed` on the grant and the vault. An existing vault must
    hold the mint and be owned by the grant.
  - `CloseGrant` refunds to the authority's token account, then closes the vault and
    the grant.
- **SPL.** `Transfer` is `transfer_checked` as the SPL token program documents it: the
  source's owner signs, both accounts hold the mint passed, and the balance covers the
  amount. It is not code of this repository.
- **Abstractions.** Schedules and timing are modelled in `GrantProgram` and
  `ClaimTiming`, and the PoP hash chain in `GrantProgram`. Here every grant pays
  `Amount`, all claims fall in one period, and a PoP proof is its signing key and the
  grant its message names.

### Properties

| Property | Kind | What it says |
|---|---|---|
| `TypeOK` | invariant | Types, and the vault balance is never negative. |
| `ChainWellFormed` | invariant | The head is the end of one chain rooted at genesis. Each entry's two strands agree, each is bound to G, each v2 entry carries an audit hash, and the chain has exactly one entry per receipt. |
| `ProofFresh` | invariant | Each receipt is backed by a chain entry for the same claimer and period, issued within the skew bound of `claimed_at`. |
| `ClaimsRespectGrant` | action | A new receipt appears only while the grant exists and is unpaused, is allowlisted when a root is set, and lies inside the window at the recomputed period. |
| `AdmissionRefinement` | temporal | `GrantProgram` implements `ClaimAdmission!Spec` under the mapping claimed = receipt pairs, chain = `ChainOf(head)`. |
| `OncePerPeriod` | action | A claim never pays a claimer who already has a receipt in the same period of the schedule in force. |
| `MembersVerify` | invariant (`MerkleSorted`) | The builder's path for any member of any allowlist, odd sizes included, verifies under the sorted-pair fold. |
| `OnlyMembersVerify` | invariant (`MerkleSorted`) | No proof of tree or foreign digests makes a non-member verify. |
| `RoundTrip` | invariant (`PopMessageCodec`) | Every v1/v2 message laid out as in spec section 6 decodes to itself. |
| `Canonical` | invariant (`PopMessageCodec`) | Whatever decodes re-encodes to exactly the bytes received. |
| `ExtractedWasSigned` | invariant (`Ed25519Extract`) | The key and message handed to the claim were really signed by that key, whatever the header's instruction indices point to. |
| `HonestExtracts` | invariant (`Ed25519Extract`) | A correctly laid-out instruction, whose message ends at the end of the data, yields its inline key and message. |
| `TypeOK` | invariant (`ClaimTiming`) | Types, and every grant has a positive period. |
| `AdmittedInWindow` | invariant (`ClaimTiming`) | An admitted claim lies exactly in the period it names, in exact arithmetic, and within expiry. |
| `AdmittedFresh` | invariant (`ClaimTiming`) | An admitted proof's `issued_at` is within the skew bound of the claim time, in exact arithmetic. |
| `OwnerWritesOnly` | action (`GrantAccounts`) | A grant or PopConfig that exists changes or is closed only in an instruction its authority signed, whatever accounts another user passes. |
| `ClaimsUseOwnPopSigner` | action (`GrantAccounts`) | Every paid claim carries a proof signed by the PoP key of the grant's own authority and bound to that grant, though the claimer picks the `pop_config` account it passes. |
| `OpenGrantClaimable` | invariant (`ClaimTiming`) | Every open grant can compute its period index. The comment on `create_grant` implies this, and the run shows it is false. |

## 3. Runs

| Run | cfg | Expect | Shows |
|---|---|---|---|
| `claim_admission` | `MCGrantProgram.cfg` | pass | The chain, freshness, admission gates and refinement hold under re-creation with two schedules, pause, allowlist, signer rotation and adversarial proofs. About 525k distinct states, about 2 min. |
| `once_per_period_fixed` | `MCOncePerPeriod.cfg` | pass | With one schedule, no double payout per period, even across re-create and close. |
| `recreate_grant` | `MCRecreateGrant.cfg` | violation | `create_grant` re-initialises a live grant with a new schedule. c1 is paid at t=2 for period 1 of schedule start 0 / period 2, and at t=2 again for period 0 of schedule start 1 / period 3. A re-creation between the two claims switches the schedule, and TLC may report the two schedules in either order. This is the first finding in `PROJECT.json`. |
| `merkle_sorted` | `MCMerkleSorted.cfg` | pass | Covers every allowlist of 1 to 4 of 4 claimers in every order, and every proof of up to 3 tree or foreign digests. Members verify, non-members never do. About 170k states. |
| `pop_message_codec` | `MCPopMessageCodec.cfg` | pass | Covers 128 messages, each sent intact and in 5 tampered forms. Intact ones decode to themselves, and nothing else decodes. |
| `ed25519_extract` | `MCEd25519Extract.cfg` | pass | Covers 24,576 submitted instructions. Only what the native verifier checked reaches the claim. Dropping the `0xFFFF` check lets a header point the key at instruction 0, and the claim then sees a key that never signed. |
| `claim_timing` | `MCClaimTiming.cfg` | pass | At 6-bit integers, admitted claims are exactly in their period and fresh, including `start_ts`/`issued_at` at `i64::MIN`/`MAX`. |
| `grant_accounts` | `MCGrantAccounts.cfg` | pass | Two users, each an authority, funder and claimer, pass any accounts to every instruction. Nobody writes another's accounts, and claims use their grant authority's PoP key. Dropping the authority from the grant seeds lets a user re-initialize another's grant. Not pinning `pop_config` to the grant's authority admits proofs from another authority's key. About 130k states, 45 s. |
| `start_ts_overflow` | `MCStartTsOverflow.cfg` | violation | `create_grant(start_ts = i64::MIN)` is accepted, and every claim then fails `MathOverflow`. This is the second finding. |

### Bounds and why they are enough

| Constant | Value | Why |
|---|---|---|
| Claimers | 2 (c1 allowlisted, c2 not) | Enough for a race and for an allowlist refusal. |
| Signer keys | 2 | Enough for rotation; a symmetry set. |
| Time | 0..4 | Covers starts and expiry. |
| Periods | 2 s and 3 s | Several boundaries fall within the time bound. |
| Skew | 1 (600 in code) | Both edges and the just-outside values are inputs. |
| Period indices | 0..2 | |
| Chain | at most 3 entries | An older entry exists to be replayed. |
| Funding | one funding of 3 (`once_per_period_fixed`: fundings of 1, up to 3) | Covers 3 payouts, and exhausts the vault. Unit fundings let a grant that paid be closed, re-created, funded and claimed again. |

Scaling the seconds keeps every comparison of lib.rs. Only the distances change.

The bounds of the other instances:

- **`MerkleSorted`.**
  - Trees of up to 4 leaves have two levels. A 3-leaf tree carries an odd node up.
  - Leaf ranks are chosen so that a member's leaf falls on either side of its sibling.
  - The outsider's leaf falls between members' leaves.
  - Forged proofs are as long as the deepest path plus one.
- **`PopMessageCodec`.**
  - Two-byte integers tell little-endian from big-endian apart: 1 and 4.
  - They reach `u64::MAX`, `i64::MIN` and `i64::MAX`.
  - Each field has its own non-zero bytes, so a read at a shifted offset changes the
    result.
- **`Ed25519Extract`.**
  - Offsets lie on, and one past, every field boundary.
  - Sizes are exact or one over.
  - Each index is inline or instruction 0.
  - The honest message ends exactly at the end of the data, so the `<=` bound is tested
    at equality.
- **`GrantAccounts`.**
  - Two users: each can be an authority, a funder, a claimer and an impostor.
  - Two PoP keys, so each authority can name a different one.
  - One mint and one grant id, so each user has one grant address. Mint mismatches are
    caught by `transfer_checked` whatever the program does. A second mint multiplied
    the state space beyond the time budget.
  - One token per user, so funding, paying out and the refund on close all happen.
- **`ClaimTiming`.**
  - Integers are 6 bits wide: -32..31 and 0..63.
  - Start values lie on both sides of the last value that overflows at the final tick.
  - Start values include the one-year limit and one past it.
  - `issued_at` takes both extremes of the range.

### Fairness

None. The program has no background progress, and the client retries (spec section 5).
No liveness property is claimed. A claimer can lose every race.

## 4. Not modelled

- **Composition of the byte-level modules with `GrantProgram`.** `GrantProgram` takes a
  decoded request. The extractor and codec runs show that this input is what the bytes
  say and what was signed. Composing all three in one state space would multiply the
  `claim_admission` state space by the byte-level inputs. That is beyond the 5-minute
  budget.
- **The SPL token program.** It is external. `GrantProgram` models it as balance
  moves. `GrantAccounts` models `transfer_checked` and `close_account` from their
  documented owner, mint and balance checks.
- **The error enum (943-1010).** A failing instruction is
  a stutter, so which error code it returns is not state. `PopMessageCodec` keeps the
  codec's error codes.
- **The native ed25519 verifier.** It is modelled in `Ed25519Extract` from its
  documented behaviour, with one signature per instruction. It is not code of this
  repository.
- **Liveness.** A claimer can lose every chain race (section 5 of spec.md), and nothing
  in the code prevents it. So there is no fairness to assume.

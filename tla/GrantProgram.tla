---------------------------- MODULE GrantProgram ----------------------------
(***************************************************************************)
(* The grant_program Solana program (programs/grant_program/src/lib.rs)   *)
(* for one grant G of one authority: the Grant account, its vault, the    *)
(* ClaimReceipt accounts, the per-grant PopState hash chain and the       *)
(* authority's PopConfig (trusted proof-of-process signer).               *)
(*                                                                         *)
(* Every instruction runs as one atomic transaction: the runtime rolls    *)
(* back every write of a transaction whose handler returns an error.  An  *)
(* instruction is therefore one action whose guard is the conjunction of  *)
(* the Anchor account constraints and every require! of the handler; a    *)
(* failing instruction is a stuttering step.                              *)
(*                                                                         *)
(* Hashes are abstracted as a perfect (collision-free) hash: the entry    *)
(* hash of a PoP message is the record of exactly the fields sha256       *)
(* covers in pop_entry_hash, tagged with its domain separator.  Because   *)
(* an entry commits to its predecessor, the whole accepted chain can be   *)
(* recovered from the head stored in PopState (ChainOf).                  *)
(***************************************************************************)
EXTENDS Integers, Sequences, SequencesExt, FiniteSets

CONSTANTS
  Claimers,       \* claimer keys (model values)
  Allowlisted,    \* claimers that are leaves of the allowlist tree AllowRoot
  Signers,        \* ed25519 keys that may sign a companion instruction
  G,              \* the key of the grant PDA
  OtherGrant,     \* the key of some other grant (a message bound elsewhere)
  ZeroHash,       \* [0u8; 32]
  AllowRoot,      \* a non-zero Merkle root
  AuditHash,      \* a non-zero audit attestation hash
  ForeignHash,    \* a hash that is not an entry of this grant's chain
  BogusHash,      \* an entry_hash field that is not the hash of the message
  Ed25519,        \* ed25519_program::id()
  OtherProgram,   \* any other program id
  NoCompanion,    \* the claim is instruction 0 of its transaction
  ValidProof,     \* a Merkle path built by the off-chain tree builder
  ForgedProof,    \* any other path
  NoGrant,        \* the grant account does not exist (never created / closed)
  NoVault,        \* the vault token account does not exist
  NoConfig,       \* the authority has no PopConfig account
  GrantParams,    \* [amount_per_period, period_seconds, start_ts, expires_at]
                  \* values the authority passes to create_grant
  FundAmounts,    \* amounts passed to fund_grant
  POP_MAX_SKEW_SECONDS,
  YEAR_SECONDS,   \* 365 * 24 * 60 * 60, the start_ts horizon of create_grant
  MaxTime,        \* bound: the clock stops at MaxTime
  MaxFunded,      \* bound: total amount ever funded
  MaxPeriod,      \* bound: period_index arguments range over 0..MaxPeriod
  MaxEntries      \* bound: claims stop once the PoP chain has MaxEntries entries

ASSUME Allowlisted \subseteq Claimers
ASSUME POP_MAX_SKEW_SECONDS \in Nat /\ YEAR_SECONDS \in Nat
ASSUME MaxTime \in Nat /\ MaxFunded \in Nat /\ MaxPeriod \in Nat /\ MaxEntries \in Nat

VARIABLES
  now,        \* Clock::get()?.unix_timestamp
  grant,      \* Grant account data, or NoGrant
  vault,      \* vault token balance, or NoVault
  receipts,   \* the ClaimReceipt accounts of grant G
  popState,   \* the PopState account of grant G
  popSigner,  \* PopConfig.signer_pubkey of the authority, or NoConfig
  funded      \* total transferred into the vault (bounds fund_grant)

vars == <<now, grant, vault, receipts, popState, popSigner, funded>>

Periods == 0..MaxPeriod
Roots == {ZeroHash, AllowRoot}

(***************************************************************************)
(* Hash-chain helpers                                                      *)
(***************************************************************************)

\* pop_entry_hash: the domain tag separates versions; v1 omits audit_hash.
PopEntryHash(m) ==
  IF m.version = 1
  THEN [tag |-> "we-ne:pop:v1", prev_hash |-> m.prev_hash,
        stream_prev_hash |-> m.stream_prev_hash, grant |-> m.grant,
        claimer |-> m.claimer, period_index |-> m.period_index,
        issued_at |-> m.issued_at]
  ELSE [tag |-> "we-ne:pop:v2", prev_hash |-> m.prev_hash,
        stream_prev_hash |-> m.stream_prev_hash, audit_hash |-> m.audit_hash,
        grant |-> m.grant, claimer |-> m.claimer,
        period_index |-> m.period_index, issued_at |-> m.issued_at]

\* A hash value that is the entry hash of some message.
IsEntry(h) == h \notin {ZeroHash, ForeignHash, BogusHash}

\* The chain of entries ending in h, oldest first, following prev_hash.
RECURSIVE ChainOf(_)
ChainOf(h) == IF IsEntry(h) THEN Append(ChainOf(h.prev_hash), h) ELSE <<>>

Chain == ChainOf(popState.last_global_hash)

AbsDiff(a, b) == IF a >= b THEN a - b ELSE b - a

(***************************************************************************)
(* Claim requests.  A request is the claim's companion ed25519            *)
(* instruction: its program id, the key that signed, and the decoded      *)
(* PopProofMessage it carries.  The inputs are every well-formed message  *)
(* an honest signer could produce now for (c, p), and each of them with   *)
(* one field replaced by another value: a forged, stale or mis-bound     *)
(* proof, or another valid choice such as version 1 or a future          *)
(* issued_at.  A deviated message is re-hashed, so only that field is    *)
(* off, except for the entry_hash deviation itself.                      *)
(***************************************************************************)
ChainHead == popState.last_global_hash

Sign(m) == [m EXCEPT !.entry_hash = PopEntryHash(m)]

HonestRequests(c, p) ==
  { Sign([program |-> Ed25519, signer |-> popSigner, version |-> v, grant |-> G,
          claimer |-> c, period_index |-> p, prev_hash |-> ChainHead,
          stream_prev_hash |-> ChainHead,
          audit_hash |-> IF v = 2 THEN AuditHash ELSE ZeroHash,
          entry_hash |-> ZeroHash, issued_at |-> now - POP_MAX_SKEW_SECONDS]) :
      v \in {1, 2} }

\* Previous-hash pairs a proof may carry: the head, genesis, a foreign
\* hash, or an older entry of the chain (a proof signed before a racing
\* claim advanced the chain).
KnownHashes == {ZeroHash, ForeignHash} \cup ToSet(Chain)
StrandPairs == {<<a, b>> \in KnownHashes \X KnownHashes : a = b \/ a = ChainHead \/ b = ChainHead}

Deviations(r) ==
  {[r EXCEPT !.program = x] : x \in {OtherProgram, NoCompanion}}
  \cup {[r EXCEPT !.signer = s] : s \in Signers}
  \cup {Sign([r EXCEPT !.audit_hash = ZeroHash]), Sign([r EXCEPT !.grant = OtherGrant])}
  \cup {Sign([r EXCEPT !.claimer = c]) : c \in Claimers}
  \cup {Sign([r EXCEPT !.period_index = q]) : q \in Periods}
  \cup {Sign([r EXCEPT !.prev_hash = ab[1], !.stream_prev_hash = ab[2]]) : ab \in StrandPairs}
  \cup {Sign([r EXCEPT !.issued_at = t]) :
          t \in {now - POP_MAX_SKEW_SECONDS - 1, now + POP_MAX_SKEW_SECONDS,
                 now + POP_MAX_SKEW_SECONDS + 1}}
  \cup {[r EXCEPT !.entry_hash = BogusHash]}

Requests(c, p) == UNION {{r} \cup Deviations(r) : r \in HonestRequests(c, p)}

(***************************************************************************)
(* verify_and_record_pop_proof                                             *)
(***************************************************************************)

\* The companion is the previous instruction and targets the ed25519 program.
PopCompanionOk(r) ==
  /\ r.program # NoCompanion
  /\ r.program = Ed25519

\* The signer of the companion is the configured PoP signer.
PopSignerOk(r) == r.signer = popSigner

\* The message is bound to this grant, this claimer and this period index.
PopBindingOk(c, p, r) ==
  /\ r.grant = G
  /\ r.claimer = c
  /\ r.period_index = p

\* Version 2 messages must carry a non-zero audit hash.
PopAuditOk(r) == r.version = 2 => r.audit_hash # ZeroHash

\* The recomputed entry hash equals the message's entry_hash.
PopEntryHashOk(r) == PopEntryHash(r) = r.entry_hash

\* Mutant: the skew bound admits one second too many.
PopFreshOffByOne(r) == AbsDiff(now, r.issued_at) <= POP_MAX_SKEW_SECONDS + 1

\* |now - issued_at| <= POP_MAX_SKEW_SECONDS.
PopFresh(r) == AbsDiff(now, r.issued_at) <= POP_MAX_SKEW_SECONDS

\* Mutant: only the global strand is compared with the recorded state.
PopChainContinuesGlobalOnly(r) ==
  IF popState.initialized
  THEN popState.last_global_hash = r.prev_hash
  ELSE /\ r.prev_hash = ZeroHash
       /\ r.stream_prev_hash = ZeroHash

\* Both strands continue the recorded chain; an uninitialized chain
\* accepts only a genesis message.
PopChainContinues(r) ==
  IF popState.initialized
  THEN /\ popState.last_global_hash = r.prev_hash
       /\ popState.last_stream_hash = r.stream_prev_hash
  ELSE /\ r.prev_hash = ZeroHash
       /\ r.stream_prev_hash = ZeroHash

\* The chain advances: both strands become the entry hash.
PopAdvance(r) ==
  popState' = [initialized |-> TRUE,
               last_global_hash |-> r.entry_hash,
               last_stream_hash |-> r.entry_hash,
               last_period_index |-> r.period_index,
               last_issued_at |-> r.issued_at]

VerifyAndRecordPopProof(c, p, r) ==
  /\ PopCompanionOk(r)
  /\ PopSignerOk(r)
  /\ PopBindingOk(c, p, r)
  /\ PopAuditOk(r)
  /\ PopEntryHashOk(r)
  /\ PopFresh(r)
  /\ PopChainContinues(r)
  /\ PopAdvance(r)

(***************************************************************************)
(* Claim helpers                                                           *)
(***************************************************************************)

\* The period index of time t under the grant's schedule (integer division
\* truncates; t >= start_ts wherever it is used).
PeriodAt(gr, t) == (t - gr.start_ts) \div gr.period_seconds

\* Mutant: the client-supplied period index is not recomputed.
ClaimTimingOkNoPeriodCheck(p) ==
  /\ grant.expires_at # 0 => now <= grant.expires_at
  /\ now >= grant.start_ts

\* require_claim_timing: not expired (expires_at = 0 means never), started,
\* and the claimed period index is the one computed on chain from now.
ClaimTimingOk(p) ==
  /\ grant.expires_at # 0 => now <= grant.expires_at
  /\ now >= grant.start_ts
  /\ p = PeriodAt(grant, now)

\* Mutant: the vault balance is checked neither by the require! nor by
\* the token program.  Deleting the require! alone would not overdraw the
\* vault, because transfer_checked also refuses an overdraft.
TransferFromVaultUnchecked(amount) == vault' = vault - amount

\* transfer_from_vault: require! on the vault balance, then transfer_checked,
\* which refuses an overdraft too; either refusal aborts the transaction.
TransferFromVault(amount) ==
  /\ vault >= amount
  /\ vault' = vault - amount

ReceiptExists(c, p) == \E rc \in receipts : rc.claimer = c /\ rc.period_index = p

\* Mutant: the receipt account is `init_if_needed`, so an existing receipt
\* does not fail the claim.
ClaimAccountsOkInitIfNeeded(c, p) ==
  /\ grant # NoGrant
  /\ vault # NoVault
  /\ popSigner # NoConfig

\* Anchor constraints of the ClaimGrant accounts: grant, vault and
\* pop_config deserialize, and receipt is `init` on the PDA
\* [b"receipt", grant, claimer, period_index], which fails if it exists.
ClaimAccountsOk(c, p) ==
  /\ grant # NoGrant
  /\ vault # NoVault
  /\ popSigner # NoConfig
  /\ ~ReceiptExists(c, p)

\* record_receipt into the freshly initialized receipt account.
RecordReceipt(c, p) ==
  receipts' = receipts \cup {[claimer |-> c, period_index |-> p, claimed_at |-> now]}

\* verify_merkle_sorted(root, allowlist_leaf(c), proof): a path produced by
\* the off-chain builder folds to AllowRoot exactly for allowlisted leaves.
VerifyMerkleSorted(root, c, proof) ==
  /\ proof = ValidProof
  /\ root = AllowRoot
  /\ c \in Allowlisted

(***************************************************************************)
(* Instructions                                                            *)
(***************************************************************************)

\* create_grant: `init_if_needed` on the grant and the vault PDAs, so a
\* second call by the authority re-initializes an existing grant.
CreateGrant(prm) ==
  /\ prm.amount_per_period > 0
  /\ prm.period_seconds > 0
  /\ prm.start_ts <= now + YEAR_SECONDS
  /\ grant' = [amount_per_period |-> prm.amount_per_period,
               period_seconds |-> prm.period_seconds,
               start_ts |-> prm.start_ts,
               expires_at |-> prm.expires_at,
               merkle_root |-> ZeroHash,
               paused |-> FALSE]
  /\ vault' = IF vault = NoVault THEN 0 ELSE vault
  /\ UNCHANGED <<now, receipts, popState, popSigner, funded>>

\* fund_grant: transfer_checked from the funder into the vault.
FundGrant(amount) ==
  /\ amount > 0
  /\ grant # NoGrant
  /\ vault # NoVault
  /\ funded + amount <= MaxFunded
  /\ vault' = vault + amount
  /\ funded' = funded + amount
  /\ UNCHANGED <<now, grant, receipts, popState, popSigner>>

\* The steps both claim instructions share once the allowlist branch has
\* passed: pause, PoP verification, timing, transfer_from_vault and
\* record_receipt.  The transaction commits only if every check passes, so
\* the checks are conjoined; the proof-independent ones come first.
ClaimPaid(c, p) ==
  /\ Len(Chain) < MaxEntries
  /\ ~grant.paused
  /\ ClaimTimingOk(p)
  /\ TransferFromVault(grant.amount_per_period)
  /\ \E r \in Requests(c, p) : VerifyAndRecordPopProof(c, p, r)
  /\ RecordReceipt(c, p)
  /\ UNCHANGED <<now, grant, popSigner, funded>>

\* Mutant: claim_grant does not refuse grants that have an allowlist.
ClaimGrantNoAllowlistCheck(c, p) == ClaimAccountsOk(c, p) /\ ClaimPaid(c, p)

\* claim_grant: only for grants without an allowlist.
ClaimGrant(c, p) ==
  /\ ClaimAccountsOk(c, p)
  /\ grant.merkle_root = ZeroHash
  /\ ClaimPaid(c, p)

\* claim_grant_with_proof: only for grants with an allowlist.
ClaimGrantWithProof(c, p, proof) ==
  /\ ClaimAccountsOk(c, p)
  /\ grant.merkle_root # ZeroHash
  /\ VerifyMerkleSorted(grant.merkle_root, c, proof)
  /\ ClaimPaid(c, p)

\* close_grant: refund the remaining balance, close the vault, and close
\* the grant account.  Receipts and PopState are not closed.
CloseGrant ==
  /\ grant # NoGrant
  /\ vault # NoVault
  /\ grant' = NoGrant
  /\ vault' = NoVault
  /\ UNCHANGED <<now, receipts, popState, popSigner, funded>>

SetPaused(b) ==
  /\ grant # NoGrant
  /\ grant' = [grant EXCEPT !.paused = b]
  /\ UNCHANGED <<now, vault, receipts, popState, popSigner, funded>>

SetAllowlistRoot(root) ==
  /\ grant # NoGrant
  /\ grant' = [grant EXCEPT !.merkle_root = root]
  /\ UNCHANGED <<now, vault, receipts, popState, popSigner, funded>>

\* upsert_pop_config: `init_if_needed` on the authority's PopConfig.
UpsertPopConfig(s) ==
  /\ popSigner' = s
  /\ UNCHANGED <<now, grant, vault, receipts, popState, funded>>

\* The cluster clock advances.
Tick ==
  /\ now < MaxTime
  /\ now' = now + 1
  /\ UNCHANGED <<grant, vault, receipts, popState, popSigner, funded>>

Init ==
  /\ now = 0
  /\ grant = NoGrant
  /\ vault = NoVault
  /\ receipts = {}
  /\ popState = [initialized |-> FALSE, last_global_hash |-> ZeroHash,
                 last_stream_hash |-> ZeroHash, last_period_index |-> 0,
                 last_issued_at |-> 0]
  /\ popSigner = NoConfig
  /\ funded = 0

Next ==
  \/ \E prm \in GrantParams : CreateGrant(prm)
  \/ \E a \in FundAmounts : FundGrant(a)
  \/ \E c \in Claimers, p \in Periods : ClaimGrant(c, p)
  \/ \E c \in Claimers, p \in Periods, proof \in {ValidProof, ForgedProof} :
       ClaimGrantWithProof(c, p, proof)
  \/ CloseGrant
  \/ \E b \in BOOLEAN : SetPaused(b)
  \/ \E root \in Roots : SetAllowlistRoot(root)
  \/ \E s \in Signers : UpsertPopConfig(s)
  \/ Tick

Spec == Init /\ [][Next]_vars

(***************************************************************************)
(* Properties                                                              *)
(***************************************************************************)

GrantRecs == [amount_per_period : Nat, period_seconds : Nat, start_ts : Int,
              expires_at : Int, merkle_root : Roots, paused : BOOLEAN]

TypeOK ==
  /\ now \in 0..MaxTime
  /\ grant \in GrantRecs \cup {NoGrant}
  /\ vault \in Nat \cup {NoVault}
  /\ receipts \subseteq [claimer : Claimers, period_index : Periods, claimed_at : 0..MaxTime]
  /\ popState.initialized \in BOOLEAN
  /\ popSigner \in Signers \cup {NoConfig}
  /\ funded \in 0..MaxFunded

\* The PopState head is the end of one unforked hash chain rooted at
\* genesis: the first entry has all-zero previous hashes, every entry
\* links both strands to its predecessor, is bound to this grant, and
\* carries an audit hash if it is version 2; and the chain has exactly
\* one entry per receipt.  Breaking it takes a claim that
\* verify_and_record_pop_proof admits with a stale, foreign or forged
\* link, after other claims have advanced the chain.
ChainWellFormed ==
  /\ popState.initialized = (Chain # <<>>)
  /\ Len(Chain) = Cardinality(receipts)
  /\ \A i \in 1..Len(Chain) :
       LET e == Chain[i] IN
       /\ e.stream_prev_hash = e.prev_hash
       /\ (i = 1 => e.prev_hash = ZeroHash)
       /\ e.grant = G
       /\ (e.tag = "we-ne:pop:v2" => e.audit_hash # ZeroHash)

\* Every receipt is backed by an accepted proof for the same claimer and
\* period that was issued within POP_MAX_SKEW_SECONDS of the receipt's
\* claimed_at: a stale proof (signed before a long delay) or one from the
\* future never pays out.  Both times are read in the same transaction,
\* so a wrong bound in the skew check of verify_and_record_pop_proof is
\* what breaks it.
ProofFresh ==
  \A rc \in receipts :
    \E i \in 1..Len(Chain) :
      /\ Chain[i].claimer = rc.claimer
      /\ Chain[i].period_index = rc.period_index
      /\ AbsDiff(rc.claimed_at, Chain[i].issued_at) <= POP_MAX_SKEW_SECONDS

\* A step that creates a receipt happens while the grant exists and is not
\* paused, pays an allowlisted claimer whenever an allowlist root is set,
\* and lies inside the grant's window at the period index of its time --
\* whichever of the two claim instructions is used, and whatever the
\* authority did to pause, allowlist and schedule before it.
ClaimsRespectGrant ==
  [][\A rc \in receipts' \ receipts :
       /\ grant # NoGrant
       /\ ~grant.paused
       /\ grant.merkle_root # ZeroHash => rc.claimer \in Allowlisted
       /\ rc.claimed_at >= grant.start_ts
       /\ grant.expires_at # 0 => rc.claimed_at <= grant.expires_at
       /\ rc.period_index = PeriodAt(grant, rc.claimed_at)]_vars

\* The program implements ClaimAdmission: the admitted set is the set of
\* (claimer, period) pairs with a receipt, and the log is the chain that
\* the PopState head commits to.  Every transaction either admits one new
\* pair and appends one linked entry for it, or changes neither.
Admission == INSTANCE ClaimAdmission
  WITH claimed <- {<<rc.claimer, rc.period_index>> : rc \in receipts},
       chain <- Chain,
       Genesis <- ZeroHash

AdmissionRefinement == Admission!Spec

\* Spec section 1: a recipient withdraws at most once per fixed-length
\* period.  A claim pays claimer c for the current period only if no
\* earlier receipt of c was claimed in that same period of the grant's
\* schedule as it stands when the claim is made.
OncePerPeriod ==
  [][grant # NoGrant =>
       \A rc \in receipts' \ receipts :
         \A old \in receipts :
           old.claimer = rc.claimer =>
             PeriodAt(grant, old.claimed_at) # rc.period_index]_vars

=============================================================================

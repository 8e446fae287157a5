---------------------------- MODULE GrantAccounts ----------------------------
(***************************************************************************)
(* The account layer of lib.rs: the #[derive(Accounts)] constraints        *)
(* (lines 272-492) of every instruction, for several authorities, mints   *)
(* and grants at once, with the SPL token accounts the instructions move   *)
(* tokens between.                                                         *)
(*                                                                         *)
(* An account address is the term of its seeds (a PDA is a perfect hash of *)
(* its seeds), so two accounts share an address exactly when their seeds   *)
(* are equal. Each instruction is one atomic action; its parameters are    *)
(* the signer and the accounts the submitter passes, and its guard is the  *)
(* conjunction of the account constraints and the handler's require!s; a  *)
(* failing transaction is a stutter.                                       *)
(*                                                                         *)
(* Data the properties do not tell apart is abstracted: a grant's schedule *)
(* (ClaimTiming, GrantProgram) and the PoP hash chain (GrantProgram) are   *)
(* left out, every grant pays Amount per claim, and all claims fall in one *)
(* period, so a receipt is keyed by grant and claimer. A PoP proof is the  *)
(* key that signed it and the grant its message names.                     *)
(*                                                                         *)
(* transfer_checked and close_account are the SPL token program's, as it   *)
(* documents them; they are not code of this repository.                   *)
(***************************************************************************)
EXTENDS Naturals

CONSTANTS
    Users,          \* wallet keys: authorities, funders and claimers
    Mints,          \* SPL mints
    GrantIds,       \* grant_id arguments of create_grant
    PopKeys,        \* ed25519 keys a PopConfig may name
    Allowlisted,    \* claimers whose leaf is under the allowlist root
    Amount,         \* amount_per_period of every grant
    InitialBalance, \* tokens of each mint every user holds at the start
    NoAcct          \* an address that holds no account

ZeroRoot == "zero"      \* merkle_root = [0u8; 32]
AllowRoot == "root"     \* a non-zero merkle_root

VARIABLES
    grants,      \* grant PDA -> Grant, or NoAcct
    tokens,      \* token account address -> [mint, owner, amount], or NoAcct
    popConfigs,  \* authority -> PopConfig at [b"pop-config", authority], or NoAcct
    receipts,    \* <<grant, claimer>> of every ClaimReceipt
    tx           \* the last committed instruction, its signer and its proof

vars == <<grants, tokens, popConfigs, receipts, tx>>

GrantAddrNoAuthority(auth, mint, id) == <<"grant", mint, id>>
(* The grant PDA seeds [b"grant", authority, mint, grant_id]. *)
GrantAddr(auth, mint, id) == <<"grant", auth, mint, id>>

(* The vault PDA seeds [b"vault", grant]. *)
VaultAddr(g) == <<"vault", g>>

(* The token account of a user for a mint (an ATA). *)
AtaAddr(u, m) == <<"ata", u, m>>

GrantAddrs == {GrantAddr(u, m, i) : u \in Users, m \in Mints, i \in GrantIds}
Atas == {AtaAddr(u, m) : u \in Users, m \in Mints}
TokenAddrs == Atas \cup {VaultAddr(g) : g \in GrantAddrs}

(* transfer_checked: the source is owned by the authority, both accounts  *)
(* hold the mint passed, and the source covers the amount.                *)
Transfer(tk, from, to, auth, mint, amt) ==
    IF /\ tk[from] # NoAcct /\ tk[to] # NoAcct
       /\ tk[from].owner = auth
       /\ tk[from].mint = mint /\ tk[to].mint = mint
       /\ tk[from].amount >= amt
    THEN [ok |-> TRUE,
          tokens |-> [tk EXCEPT ![from].amount = @ - amt, ![to].amount = @ + amt]]
    ELSE [ok |-> FALSE, tokens |-> tk]

(* The record of a committed instruction. *)
Tx(ix, s, g, key, pg) == [ix |-> ix, signer |-> s, grant |-> g, proofKey |-> key, proofGrant |-> pg]

(* The seeds and has_one constraints shared by FundGrant, CloseGrant,     *)
(* SetPaused and SetAllowlistRoot: the grant exists, the authority account *)
(* passed is its authority, and it sits at the PDA of that authority, the  *)
(* mint account passed and its grant_id.                                   *)
GrantOfAuthorityOk(g, a, m) ==
    /\ grants[g] # NoAcct
    /\ grants[g].authority = a
    /\ g = GrantAddr(a, m, grants[g].grant_id)

-----------------------------------------------------------------------------
Init ==
    /\ grants = [g \in GrantAddrs |-> NoAcct]
    /\ tokens = [t \in TokenAddrs |->
                    IF t \in Atas THEN [mint |-> t[3], owner |-> t[2], amount |-> InitialBalance]
                    ELSE NoAcct]
    /\ popConfigs = [u \in Users |-> NoAcct]
    /\ receipts = {}
    /\ tx = Tx("none", NoAcct, NoAcct, NoAcct, NoAcct)

(* create_grant by signer s for mint m: init_if_needed on the grant PDA   *)
(* and on the vault, which must hold m and be owned by the grant when it  *)
(* already exists. An existing grant is re-initialized.                    *)
CreateGrant(s, m, id) ==
    LET g == GrantAddr(s, m, id)
        v == VaultAddr(g)
    IN  /\ tokens[v] # NoAcct => (tokens[v].mint = m /\ tokens[v].owner = g)
        /\ grants' = [grants EXCEPT ![g] = [authority |-> s, mint |-> m, grant_id |-> id,
                                            paused |-> FALSE, merkle_root |-> ZeroRoot]]
        /\ tokens' = IF tokens[v] = NoAcct
                     THEN [tokens EXCEPT ![v] = [mint |-> m, owner |-> g, amount |-> 0]]
                     ELSE tokens
        /\ tx' = Tx("create_grant", s, g, NoAcct, NoAcct)
        /\ UNCHANGED <<popConfigs, receipts>>

(* fund_grant by funder s from token account from, naming authority a.   *)
FundGrant(s, g, a, m, from, amt) ==
    LET t == Transfer(tokens, from, VaultAddr(g), s, m, amt)
    IN  /\ GrantOfAuthorityOk(g, a, m)
        /\ tokens[VaultAddr(g)] # NoAcct
        /\ tokens[from].mint = m /\ tokens[from].owner = s
        /\ amt > 0
        /\ grants[g].mint = m /\ tokens[VaultAddr(g)].mint = m
        /\ t.ok
        /\ tokens' = t.tokens
        /\ tx' = Tx("fund_grant", s, g, NoAcct, NoAcct)
        /\ UNCHANGED <<grants, popConfigs, receipts>>

PopConfigOkAny(g, cfg) == popConfigs[cfg] # NoAcct
(* The pop_config account of ClaimGrant: at [b"pop-config",               *)
(* grant.authority] and with authority equal to the grant's.              *)
PopConfigOk(g, cfg) ==
    /\ popConfigs[cfg] # NoAcct
    /\ cfg = grants[g].authority
    /\ popConfigs[cfg].authority = grants[g].authority

(* The ClaimGrant accounts for claimer c: the grant at the PDA of its own *)
(* fields, its vault, the claimer's token account of the mint passed, a    *)
(* receipt that does not exist yet (init) and the authority's PopConfig.   *)
ClaimAccountsOk(c, g, m, to, cfg) ==
    /\ grants[g] # NoAcct
    /\ g = GrantAddr(grants[g].authority, grants[g].mint, grants[g].grant_id)
    /\ tokens[VaultAddr(g)] # NoAcct
    /\ tokens[to].mint = m /\ tokens[to].owner = c
    /\ <<g, c>> \notin receipts
    /\ PopConfigOk(g, cfg)

(* claim_grant (withProof = FALSE) and claim_grant_with_proof: the pause  *)
(* and allowlist checks, the PoP signer and grant binding of               *)
(* verify_and_record_pop_proof, transfer_from_vault and record_receipt.    *)
(* The proof is signed by key and its message names grant pg.             *)
Claim(c, g, m, to, cfg, key, pg, withProof) ==
    LET t == Transfer(tokens, VaultAddr(g), to, g, m, Amount)
    IN  /\ ClaimAccountsOk(c, g, m, to, cfg)
        /\ ~grants[g].paused
        /\ IF withProof THEN grants[g].merkle_root # ZeroRoot /\ c \in Allowlisted
                        ELSE grants[g].merkle_root = ZeroRoot
        /\ key = popConfigs[cfg].signer_pubkey
        /\ pg = g
        /\ tokens[VaultAddr(g)].amount >= Amount
        /\ t.ok
        /\ tokens' = t.tokens
        /\ receipts' = receipts \cup {<<g, c>>}
        /\ tx' = Tx(IF withProof THEN "claim_grant_with_proof" ELSE "claim_grant", c, g, key, pg)
        /\ UNCHANGED <<grants, popConfigs>>

(* close_grant by signer s: the remaining balance goes to the token       *)
(* account `to` (of the mint passed, owned by the authority), the vault is *)
(* closed by close_account and the grant by `close = authority`.          *)
CloseGrant(s, g, m, to) ==
    LET v == VaultAddr(g)
        t == Transfer(tokens, v, to, g, m, tokens[v].amount)
    IN  /\ GrantOfAuthorityOk(g, s, m)
        /\ tokens[v] # NoAcct
        /\ tokens[to].mint = m /\ tokens[to].owner = s
        /\ tokens[v].amount > 0 => t.ok
        /\ tokens' = [(IF tokens[v].amount > 0 THEN t.tokens ELSE tokens) EXCEPT ![v] = NoAcct]
        /\ grants' = [grants EXCEPT ![g] = NoAcct]
        /\ tx' = Tx("close_grant", s, g, NoAcct, NoAcct)
        /\ UNCHANGED <<popConfigs, receipts>>

(* set_paused by signer s. *)
SetPaused(s, g, m, b) ==
    /\ GrantOfAuthorityOk(g, s, m)
    /\ grants' = [grants EXCEPT ![g].paused = b]
    /\ tx' = Tx("set_paused", s, g, NoAcct, NoAcct)
    /\ UNCHANGED <<tokens, popConfigs, receipts>>

(* set_allowlist_root by signer s. *)
SetAllowlistRoot(s, g, m, r) ==
    /\ GrantOfAuthorityOk(g, s, m)
    /\ grants' = [grants EXCEPT ![g].merkle_root = r]
    /\ tx' = Tx("set_allowlist_root", s, g, NoAcct, NoAcct)
    /\ UNCHANGED <<tokens, popConfigs, receipts>>

(* upsert_pop_config by signer s: init_if_needed at [b"pop-config", s]. *)
UpsertPopConfig(s, key) ==
    /\ popConfigs' = [popConfigs EXCEPT ![s] = [authority |-> s, signer_pubkey |-> key]]
    /\ tx' = Tx("upsert_pop_config", s, NoAcct, NoAcct, NoAcct)
    /\ UNCHANGED <<grants, tokens, receipts>>

Next ==
    \E s \in Users, m \in Mints :
        \/ \E id \in GrantIds : CreateGrant(s, m, id)
        \/ \E g \in DOMAIN grants, a \in Users, from \in Atas, amt \in 1..InitialBalance :
              FundGrant(s, g, a, m, from, amt)
        \/ \E g \in DOMAIN grants, to \in Atas, cfg \in Users, key \in PopKeys,
              pg \in DOMAIN grants, w \in BOOLEAN :
              Claim(s, g, m, to, cfg, key, pg, w)
        \/ \E g \in DOMAIN grants, to \in Atas : CloseGrant(s, g, m, to)
        \/ \E g \in DOMAIN grants, b \in BOOLEAN : SetPaused(s, g, m, b)
        \/ \E g \in DOMAIN grants, r \in {ZeroRoot, AllowRoot} : SetAllowlistRoot(s, g, m, r)
        \/ \E key \in PopKeys : UpsertPopConfig(s, key)

Spec == Init /\ [][Next]_vars

-----------------------------------------------------------------------------
(* Every account an authority owns, its grants and its PopConfig, changes *)
(* or is closed only in an instruction that authority signed: no other     *)
(* user can re-initialize, pause, re-root or close someone's grant, or     *)
(* replace its PoP signer, through any account it passes (create_grant's   *)
(* init_if_needed, FundGrant's unsigned authority, the seeds of each PDA). *)
OwnerWritesOnly ==
    [][/\ \A g \in DOMAIN grants :
            (grants[g] # NoAcct /\ grants'[g] # grants[g]) => tx'.signer = grants[g].authority
       /\ \A u \in Users :
            (popConfigs[u] # NoAcct /\ popConfigs'[u] # popConfigs[u])
                => tx'.signer = popConfigs[u].authority]_vars

(* Every claim a grant pays carries a proof signed by the PoP key that    *)
(* the grant's own authority configured, and bound to that grant, even    *)
(* though the claimer chooses the pop_config account it passes and other  *)
(* authorities configure keys of their own.                               *)
ClaimsUseOwnPopSigner ==
    [][tx'.ix \in {"claim_grant", "claim_grant_with_proof"} =>
         /\ popConfigs[grants[tx'.grant].authority] # NoAcct
         /\ tx'.proofKey = popConfigs[grants[tx'.grant].authority].signer_pubkey
         /\ tx'.proofGrant = tx'.grant]_vars

=============================================================================

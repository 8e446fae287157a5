---------------------------- MODULE Ed25519Extract ----------------------------
(***************************************************************************)
(* The signature co-instruction extractor of lib.rs:                      *)
(* extract_ed25519_signer_and_message and read_u16_le (lines 729-774,     *)
(* 866-870), composed with the native ed25519 verifier that runs the same *)
(* instruction before the claim.                                          *)
(*                                                                         *)
(* The transaction holds three instructions: 0, one the submitter writes  *)
(* freely; 1, the ed25519 instruction; 2, the claim, which reads           *)
(* instruction current_index - 1 = 1. The claim trusts the key and message *)
(* it extracts only because the runtime has verified instruction 1; that   *)
(* is sound only if both read the same bytes.                              *)
(*                                                                         *)
(* Widths are scaled: a signature is SigW bytes (64 in the code), a key    *)
(* KeyW (32), a byte one of ByteBase values (256). The 16-byte header and  *)
(* its u16 fields at bytes 2..15 are kept, so u16::MAX is ByteBase^2 - 1.  *)
(* Signatures. The submitter holds the key Attacker, so it can sign any    *)
(* message with it, and it has seen one signature of the trusted key       *)
(* Signer, over HonestMsg. SigCode gives the bytes of each signature it    *)
(* holds; the signature of any other (key, message) is Unforgeable, bytes  *)
(* the submitter never writes.                                             *)
(***************************************************************************)
EXTENDS Integers, Sequences, SequencesExt

CONSTANTS
    SigW, KeyW, ByteBase,
    Signer, Attacker,          \* keys, as KeyW-byte strings
    HonestMsg, ForgedMsg,      \* messages, as byte strings of one length
    SigCode,                   \* the signatures the submitter holds
    Unforgeable,               \* the bytes of any other signature
    Offsets,                   \* offset values written into a header
    Sizes                      \* message_data_size values written

U16Max == ByteBase * ByteBase - 1
HeaderLen == 16

KnownPairs == {<<Attacker, HonestMsg>>, <<Attacker, ForgedMsg>>, <<Signer, HonestMsg>>}

ASSUME DOMAIN SigCode = KnownPairs
ASSUME Unforgeable \notin {SigCode[p] : p \in KnownPairs}

(* The signature bytes of key k over message m. *)
Sig(k, m) == IF <<k, m>> \in KnownPairs THEN SigCode[<<k, m>>] ELSE Unforgeable

-----------------------------------------------------------------------------
(* read_u16_le: two bytes at a 0-based offset, after the bounds check. *)
ReadU16Le(data, offset) ==
    IF offset + 2 <= Len(data)
    THEN [ok |-> TRUE, val |-> data[offset + 1] + ByteBase * data[offset + 2]]
    ELSE [ok |-> FALSE, val |-> 0]

(* data[from..to] with 0-based, end-exclusive bounds. *)
Slice(data, from, to) == SubSeq(data, from + 1, to)

Fail == [ok |-> FALSE, key |-> <<>>, msg |-> <<>>]

(* The header fields, read at bytes 2, 4, ..., 14. *)
Header(data) ==
    [sigOff |-> ReadU16Le(data, 2).val, sigIx |-> ReadU16Le(data, 4).val,
     keyOff |-> ReadU16Le(data, 6).val, keyIx |-> ReadU16Le(data, 8).val,
     msgOff |-> ReadU16Le(data, 10).val, msgSize |-> ReadU16Le(data, 12).val,
     msgIx |-> ReadU16Le(data, 14).val]

InlineOnlyIgnored(h) == TRUE
InlineOnly(h) == h.sigIx = U16Max /\ h.keyIx = U16Max /\ h.msgIx = U16Max

InBoundsStrict(h, n) ==
    h.sigOff + SigW < n /\ h.keyOff + KeyW < n /\ h.msgOff + h.msgSize < n
InBounds(h, n) ==
    h.sigOff + SigW <= n /\ h.keyOff + KeyW <= n /\ h.msgOff + h.msgSize <= n

(* extract_ed25519_signer_and_message. The checked_adds cannot overflow a *)
(* usize, so MathOverflow is unreachable and not modelled.                *)
ExtractEd25519SignerAndMessage(data) ==
    IF Len(data) < HeaderLen \/ data[1] # 1 THEN Fail
    ELSE LET h == Header(data)
         IN  IF ~InlineOnly(h) \/ ~InBounds(h, Len(data)) THEN Fail
             ELSE [ok |-> TRUE,
                   key |-> Slice(data, h.keyOff, h.keyOff + KeyW),
                   msg |-> Slice(data, h.msgOff, h.msgOff + h.msgSize)]

-----------------------------------------------------------------------------
(* The native ed25519 verifier, as the runtime documents it: for each of  *)
(* data[0] signatures, each field is taken from this instruction when its *)
(* index is u16::MAX and from instruction index otherwise; every slice    *)
(* must fit, and the signature must verify. A count of 0 is refused for   *)
(* data longer than the 2-byte prefix.                                     *)
Source(txData, self, ix) ==
    IF ix = U16Max THEN self
    ELSE IF ix < Len(txData) THEN txData[ix + 1] ELSE <<>>

NativeVerifies(txData, self) ==
    /\ Len(self) >= HeaderLen
    /\ self[1] = 1
    /\ LET h == Header(self)
           sigSrc == Source(txData, self, h.sigIx)
           keySrc == Source(txData, self, h.keyIx)
           msgSrc == Source(txData, self, h.msgIx)
       IN  /\ h.sigOff + SigW <= Len(sigSrc)
           /\ h.keyOff + KeyW <= Len(keySrc)
           /\ h.msgOff + h.msgSize <= Len(msgSrc)
           /\ Slice(sigSrc, h.sigOff, h.sigOff + SigW)
                = Sig(Slice(keySrc, h.keyOff, h.keyOff + KeyW),
                      Slice(msgSrc, h.msgOff, h.msgOff + h.msgSize))

-----------------------------------------------------------------------------
(* The ed25519 instruction the submitter builds: a header, then the       *)
(* signature, key and message inline in that order.                       *)

U16Bytes(v) == <<v % ByteBase, v \div ByteBase>>

Build(h, count, sig, key, msg) ==
    <<count, 0>> \o U16Bytes(h.sigOff) \o U16Bytes(h.sigIx)
        \o U16Bytes(h.keyOff) \o U16Bytes(h.keyIx) \o U16Bytes(h.msgOff)
        \o U16Bytes(h.msgSize) \o U16Bytes(h.msgIx) \o sig \o key \o msg

(* The header a correct client writes. *)
HonestHeader ==
    [sigOff |-> HeaderLen, sigIx |-> U16Max, keyOff |-> HeaderLen + SigW,
     keyIx |-> U16Max, msgOff |-> HeaderLen + SigW + KeyW,
     msgSize |-> Len(HonestMsg), msgIx |-> U16Max]

Headers ==
    [sigOff: Offsets, sigIx: {U16Max, 0}, keyOff: Offsets, keyIx: {U16Max, 0},
     msgOff: Offsets, msgSize: Sizes, msgIx: {U16Max, 0}]

(* Instruction 0 carries the submitter's own signature, key and message   *)
(* at the same offsets; the claim instruction (2) carries none.           *)
OtherIx == Build(HonestHeader, 1, SigCode[<<Attacker, ForgedMsg>>], Attacker, ForgedMsg)
ClaimIx == <<>>

VARIABLES
    hdr, count, sig, key, msg,  \* what the submitter wrote into instruction 1
    phase,                      \* "submitted", "verified", "rejected", "extracted"
    result                      \* what the extractor returned

vars == <<hdr, count, sig, key, msg, phase, result>>

Data == Build(hdr, count, sig, key, msg)
TxData == <<OtherIx, Data, ClaimIx>>

Init ==
    /\ hdr \in Headers
    /\ count \in {0, 1}
    /\ sig \in {SigCode[p] : p \in KnownPairs}
    /\ key \in {Signer, Attacker}
    /\ msg \in {HonestMsg, ForgedMsg}
    /\ phase = "submitted"
    /\ result = Fail

(* The runtime runs the native verifier on instruction 1 before the      *)
(* claim; a failure aborts the transaction.                               *)
NativeVerify ==
    /\ phase = "submitted"
    /\ phase' = IF NativeVerifies(TxData, Data) THEN "verified" ELSE "rejected"
    /\ UNCHANGED <<hdr, count, sig, key, msg, result>>

(* verify_and_record_pop_proof line 657. *)
Extract ==
    /\ phase = "verified"
    /\ phase' = "extracted"
    /\ result' = ExtractEd25519SignerAndMessage(Data)
    /\ UNCHANGED <<hdr, count, sig, key, msg>>

Next == NativeVerify \/ Extract

Spec == Init /\ [][Next]_vars

-----------------------------------------------------------------------------
(* Whatever key and message the extractor hands to the claim, that key    *)
(* really signed that message: the bytes it reads are the bytes the       *)
(* native verifier checked, even when the submitter points the header's  *)
(* instruction indices at another instruction of the transaction.         *)
ExtractedWasSigned ==
    (phase = "extracted" /\ result.ok) => <<result.key, result.msg>> \in KnownPairs

(* A correctly laid out instruction, whose message ends exactly at the    *)
(* end of the data, yields its inline key and message.                    *)
HonestExtracts ==
    (phase = "extracted" /\ hdr = HonestHeader /\ count = 1)
        => result = [ok |-> TRUE, key |-> key, msg |-> msg]

=============================================================================

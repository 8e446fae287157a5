--------------------------- MODULE PopMessageCodec ---------------------------
(***************************************************************************)
(* The binary message codec of lib.rs: parse_pop_message and the read_*   *)
(* helpers (lines 30-33, 776-816, 872-916), checked against the wire       *)
(* layout of spec section 6.                                               *)
(*                                                                         *)
(* Widths are scaled: a pubkey or hash is KeyW bytes (32 in the code), an  *)
(* integer IntW bytes (8), a byte one of ByteBase values (256). Every      *)
(* offset and length of the code is kept as the same sum of widths.        *)
(* Integers are decoded little-endian, issued_at as two's complement.      *)
(***************************************************************************)
EXTENDS Integers, Sequences, SequencesExt

CONSTANTS
    KeyW,       \* bytes of a Pubkey or a [u8; 32]
    IntW,       \* bytes of a u64 or an i64
    ByteBase,   \* values of a byte
    FieldBytes, \* a function from field names to the byte strings they take
    PeriodValues,  \* period_index values an honest signer writes
    IssuedValues   \* issued_at values an honest signer writes

Bytes == 0..(ByteBase - 1)
IntRange == ByteBase ^ IntW

ASSUME KeyW \in Nat \ {0} /\ IntW \in Nat \ {0} /\ ByteBase >= 3
ASSUME PeriodValues \subseteq 0..(IntRange - 1)
ASSUME IssuedValues \subseteq (-(IntRange \div 2))..(IntRange \div 2 - 1)

POP_MESSAGE_VERSION_V1 == 1
POP_MESSAGE_VERSION_V2 == 2
POP_MESSAGE_LEN_V1 == 1 + KeyW + KeyW + IntW + KeyW + KeyW + KeyW + IntW
POP_MESSAGE_LEN_V2 == 1 + KeyW + KeyW + IntW + KeyW + KeyW + KeyW + KeyW + IntW

ZeroHash == [i \in 1..KeyW |-> 0]

(* u64::from_le_bytes and i64::from_le_bytes. *)
FromLeBytesBigEndian(b) == FoldLeft(LAMBDA acc, x : acc * ByteBase + x, 0, b)
FromLeBytes(b) == FoldRight(LAMBDA x, acc : x + ByteBase * acc, b, 0)
FromLeBytesSigned(b) ==
    LET u == FromLeBytes(b)
    IN  IF u >= IntRange \div 2 THEN u - IntRange ELSE u

(* read_pubkey / read_hash / read_u64_le / read_i64_le: the bytes         *)
(* data[offset..offset+n], after the bounds check; offsets are 0-based.   *)
ReadBytes(data, offset, n) ==
    IF offset + n <= Len(data)
    THEN [ok |-> TRUE, val |-> SubSeq(data, offset + 1, offset + n), next |-> offset + n]
    ELSE [ok |-> FALSE, val |-> <<>>, next |-> offset]

(* The reads of parse_pop_message in order, each advancing the offset.    *)
(* The audit hash is read only for version 2.                             *)
Layout(version) ==
    IF version = POP_MESSAGE_VERSION_V2
    THEN <<KeyW, KeyW, IntW, KeyW, KeyW, KeyW, KeyW, IntW>>
    ELSE <<KeyW, KeyW, IntW, KeyW, KeyW, KeyW, IntW>>

RECURSIVE ReadAll(_, _, _)
ReadAll(data, widths, offset) ==
    IF widths = <<>> THEN [ok |-> TRUE, vals |-> <<>>]
    ELSE LET r == ReadBytes(data, offset, Head(widths))
             rest == ReadAll(data, Tail(widths), r.next)
         IN  IF r.ok /\ rest.ok
             THEN [ok |-> TRUE, vals |-> <<r.val>> \o rest.vals]
             ELSE [ok |-> FALSE, vals |-> <<>>]

NoMessage == [version |-> 0, grant |-> <<>>, claimer |-> <<>>, period_index |-> 0,
              prev_hash |-> <<>>, stream_prev_hash |-> <<>>, audit_hash |-> <<>>,
              entry_hash |-> <<>>, issued_at |-> 0]

Err(code) == [ok |-> FALSE, err |-> code, msg |-> NoMessage]

(* The PopProofMessage built from the fields read. *)
Decode(version, f) ==
    LET v2 == version = POP_MESSAGE_VERSION_V2
        k == IF v2 THEN 1 ELSE 0
    IN  [version |-> version, grant |-> f[1], claimer |-> f[2],
         period_index |-> FromLeBytes(f[3]), prev_hash |-> f[4],
         stream_prev_hash |-> f[5],
         audit_hash |-> IF v2 THEN f[6] ELSE ZeroHash,
         entry_hash |-> f[6 + k], issued_at |-> FromLeBytesSigned(f[7 + k])]

ExpectedLenAtLeast(version, n) ==
    n >= IF version = POP_MESSAGE_VERSION_V2 THEN POP_MESSAGE_LEN_V2 ELSE POP_MESSAGE_LEN_V1
ExpectedLen(version, n) ==
    n = IF version = POP_MESSAGE_VERSION_V2 THEN POP_MESSAGE_LEN_V2 ELSE POP_MESSAGE_LEN_V1

(* parse_pop_message. *)
ParsePopMessage(m) ==
    CASE m = <<>> -> Err("InvalidPopMessageLength")
      [] m[1] \notin {POP_MESSAGE_VERSION_V1, POP_MESSAGE_VERSION_V2} ->
            Err("InvalidPopMessageVersion")
      [] ~ExpectedLen(m[1], Len(m)) -> Err("InvalidPopMessageLength")
      [] OTHER ->
            LET r == ReadAll(m, Layout(m[1]), 1)
            IN  IF r.ok THEN [ok |-> TRUE, err |-> "none", msg |-> Decode(m[1], r.vals)]
                ELSE Err("InvalidPopMessageLength")

-----------------------------------------------------------------------------
(* The wire layout of spec section 6, the reference the parser is checked *)
(* against: the fields in table order, integers little-endian.            *)

ToLeBytes(v) ==
    LET u == IF v < 0 THEN v + IntRange ELSE v
    IN  [i \in 1..IntW |-> (u \div (ByteBase ^ (i - 1))) % ByteBase]

Serialize(m) ==
    FlattenSeq(<<<<m.version>>, m.grant, m.claimer, ToLeBytes(m.period_index),
                 m.prev_hash, m.stream_prev_hash>>
               \o (IF m.version = POP_MESSAGE_VERSION_V2 THEN <<m.audit_hash>> ELSE <<>>)
               \o <<m.entry_hash, ToLeBytes(m.issued_at)>>)

(* Messages an honest signer writes: v1 carries a zero audit hash. *)
Messages ==
    {m \in [version: {POP_MESSAGE_VERSION_V1, POP_MESSAGE_VERSION_V2},
            grant: FieldBytes["grant"], claimer: FieldBytes["claimer"],
            period_index: PeriodValues, prev_hash: FieldBytes["prev"],
            stream_prev_hash: FieldBytes["stream"],
            audit_hash: FieldBytes["audit"] \cup {ZeroHash},
            entry_hash: FieldBytes["entry"], issued_at: IssuedValues] :
        m.version = POP_MESSAGE_VERSION_V1 <=> m.audit_hash = ZeroHash}

(* What can happen to the bytes on the way: nothing, the last byte cut,   *)
(* a byte appended, the version byte set to the other or an unknown       *)
(* version, or the whole message dropped.                                 *)
Tampers == {"none", "truncate", "extend", "otherVersion", "unknownVersion", "empty"}

Tamper(d, t) ==
    CASE t = "none" -> d
      [] t = "truncate" -> Front(d)
      [] t = "extend" -> Append(d, 0)
      [] t = "otherVersion" -> [d EXCEPT ![1] = 3 - d[1]]
      [] t = "unknownVersion" -> [d EXCEPT ![1] = 0]
      [] t = "empty" -> <<>>

VARIABLES
    origin,   \* the message the signer serialised
    tamper,   \* what happened to its bytes
    data,     \* the bytes parse_pop_message receives
    done,     \* parse_pop_message has returned
    result    \* what it returned

vars == <<origin, tamper, data, done, result>>

Init ==
    /\ origin \in Messages
    /\ tamper \in Tampers
    /\ data = Tamper(Serialize(origin), tamper)
    /\ done = FALSE
    /\ result = Err("none")

(* verify_and_record_pop_proof line 663: the extracted bytes are parsed. *)
Parse ==
    /\ ~done
    /\ done' = TRUE
    /\ result' = ParsePopMessage(data)
    /\ UNCHANGED <<origin, tamper, data>>

Next == Parse

Spec == Init /\ [][Next]_vars

-----------------------------------------------------------------------------
(* Every message laid out as spec section 6 says, v1 or v2, decodes to    *)
(* the same PopProofMessage: each read_* takes its field at the table's   *)
(* offset, the integers little-endian, and v1 gets a zero audit hash.     *)
RoundTrip ==
    (done /\ tamper = "none") => result = [ok |-> TRUE, err |-> "none", msg |-> origin]

(* Only canonical bytes decode: whatever parse_pop_message accepts, the    *)
(* layout re-encodes to exactly the bytes received, so no truncated,      *)
(* extended or version-confused buffer is ever read as a message.          *)
Canonical ==
    (done /\ result.ok) => Serialize(result.msg) = data

=============================================================================

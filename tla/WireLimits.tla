----------------------------- MODULE WireLimits -----------------------------
(***************************************************************************)
(* Wire versions and sizes of transactions (protocol crate, wire.rs):      *)
(* classify() tells the version of a transaction from its first bytes, the *)
(* rest says how long one may be, raw or encoded as text.                  *)
(***************************************************************************)
EXTENDS Integers, Sequences

CONSTANTS
    HIGH,                  \* MESSAGE_VERSION_PREFIX, 0x80: the high bit of a byte
    SIGNATURE_BYTES,
    MAX_SIGNATURES,
    LEGACY_V0_RAW_LIMIT,
    V1_RAW_LIMIT

ASSUME WireAssumption ==
    /\ HIGH \in Nat /\ HIGH > 1
    /\ SIGNATURE_BYTES \in Nat \ {0}
    /\ MAX_SIGNATURES \in 1..(HIGH - 1)
    /\ LEGACY_V0_RAW_LIMIT \in Nat
    /\ V1_RAW_LIMIT \in Nat /\ V1_RAW_LIMIT >= LEGACY_V0_RAW_LIMIT

Byte == 0..(2 * HIGH - 1)

WireVersions == {"Legacy", "V0", "V1"}

V1_PREFIX == HIGH + 1

\* Mutant of MessageOffset: the signature count itself is forgotten.
MessageOffsetFromZero(num_signatures) == num_signatures * SIGNATURE_BYTES

MessageOffset(num_signatures) == 1 + num_signatures * SIGNATURE_BYTES

\* A version, or a WireClassificationError.
classify(bytes) ==
    LET first == bytes[1]
        message_offset == MessageOffset(first)
        message_prefix == bytes[message_offset + 1]
    IN  IF bytes = <<>> THEN "Empty"
        ELSE IF first = V1_PREFIX THEN "V1"
        ELSE IF first >= HIGH THEN "UnsupportedVersion"
        ELSE IF first \notin 1..MAX_SIGNATURES THEN "InvalidSignatureCount"
        ELSE IF Len(bytes) < message_offset THEN "TruncatedSignatures"
        ELSE IF Len(bytes) = message_offset THEN "MissingMessagePrefix"
        ELSE IF message_prefix < HIGH THEN "Legacy"
        ELSE IF message_prefix = HIGH THEN "V0"
        ELSE "UnsupportedVersion"

raw_limit(version) == IF version = "V1" THEN V1_RAW_LIMIT ELSE LEGACY_V0_RAW_LIMIT

validate_raw_size(version, actual) == actual <= raw_limit(version)
=============================================================================

---------------------------- MODULE FrameLayout ----------------------------
(***************************************************************************)
(* The header of a canonical frame (protocol crate, frame.rs) and what     *)
(* FrameHeaderV1::validate accepts.  A header describes its body more than *)
(* once: offsets, lengths, counts, words and padding must all agree.       *)
(*                                                                         *)
(* Numbers are those of the fields; usize is wide enough for the sum of    *)
(* two u32, so the checked additions never overflow and are plain sums.    *)
(* Where each field stands among the bytes of the header is in two tables, *)
(* one for encode() and one for decode(), as it is in the code.  Bytes     *)
(* that only mark the format (magic, schema, layout version, header        *)
(* length, reserved bytes, unknown version or flag bits) are one field,    *)
(* format, "Ok" or the error that decode() reports for it.                 *)
(***************************************************************************)
EXTENDS Naturals

CONSTANTS
    FRAME_HEADER_BYTES,    \* 256
    FRAME_BODY_CAPACITY,   \* 12032
    KEY_BYTES              \* 32

ASSUME SizeAssumption ==
    /\ FRAME_HEADER_BYTES \in Nat \ {0}
    /\ FRAME_BODY_CAPACITY \in Nat \ {0}
    /\ KEY_BYTES \in Nat \ {0}

MessageVersions == {"Legacy", "V0", "V1"}

FrameFlags ==
    {"NATURAL_READY", "FEC_RECOVERED", "LEADER_SIGNATURE_VERIFIED",
     "MERKLE_PROOF_VERIFIED", "TRANSACTION_SANITIZED", "LUT_RESOLVED",
     "DATA_SET_START_VALID", "DATA_SET_END_VALID"}

FormatErrors ==
    {"TruncatedHeader", "InvalidMagic", "UnsupportedSchema", "UnsupportedLayout", 
     "InvalidHeaderLength", "NonzeroReserved",
     "UnsupportedMessageVersion", "UnknownFlags"}

\* FrameMetadataV1: the fields an encoder copies into the header.
Metadata ==
    [message_version : MessageVersions, earliest_source : Nat, flags : SUBSET FrameFlags,
     producer_epoch : Nat, canonical_sequence : Nat, slot : Nat, prefix_generation : Nat,
     contributing_source_mask : Nat,
     first_data_shred_index : Nat, last_data_shred_index : Nat,
     data_set_starting_shred_index : Nat,
     completed_data_set_ending_shred_index_exclusive : Nat,
     entry_ordinal : Nat, transaction_ordinal : Nat,
     first_shred_receive_ns : Nat, transaction_complete_ns : Nat,
     lut_resolution_complete_ns : Nat, publication_start_ns : Nat]

\* The fields that describe the body.
Layouts ==
    [body_length : Nat, atomic_word_count : Nat, final_padding_bytes : Nat,
     transaction_offset : Nat, transaction_length : Nat,
     loaded_writable_offset : Nat, loaded_writable_length : Nat,
     loaded_readonly_offset : Nat, loaded_readonly_length : Nat,
     loaded_writable_count : Nat, loaded_readonly_count : Nat]

-----------------------------------------------------------------------------
(* The bytes of the header: the first byte of each field and its width.    *)

\* decode()
ReadAt ==
    [message_version |-> <<78, 1>>, earliest_source |-> <<79, 1>>, flags |-> <<80, 4>>,
     body_length |-> <<84, 4>>, atomic_word_count |-> <<88, 4>>,
     producer_epoch |-> <<96, 8>>, canonical_sequence |-> <<104, 8>>, slot |-> <<112, 8>>,
     prefix_generation |-> <<120, 8>>, contributing_source_mask |-> <<128, 8>>,
     first_data_shred_index |-> <<136, 4>>, last_data_shred_index |-> <<140, 4>>,
     data_set_starting_shred_index |-> <<144, 4>>,
     completed_data_set_ending_shred_index_exclusive |-> <<148, 4>>,
     entry_ordinal |-> <<152, 4>>, transaction_ordinal |-> <<156, 4>>,
     transaction_offset |-> <<160, 4>>, transaction_length |-> <<164, 4>>,
     loaded_writable_offset |-> <<168, 4>>, loaded_writable_length |-> <<172, 4>>,
     loaded_readonly_offset |-> <<176, 4>>, loaded_readonly_length |-> <<180, 4>>,
     loaded_writable_count |-> <<184, 2>>, loaded_readonly_count |-> <<186, 2>>,
     final_padding_bytes |-> <<188, 1>>,
     first_shred_receive_ns |-> <<192, 8>>, transaction_complete_ns |-> <<200, 8>>,
     lut_resolution_complete_ns |-> <<208, 8>>, publication_start_ns |-> <<216, 8>>]

\* Mutant of WrittenAt: the two key counts change places.
WrittenAtSwapped ==
    [ReadAt EXCEPT !.loaded_writable_count = <<186, 2>>, !.loaded_readonly_count = <<184, 2>>]

\* encode()
WrittenAt ==
    [message_version |-> <<78, 1>>, earliest_source |-> <<79, 1>>, flags |-> <<80, 4>>,
     body_length |-> <<84, 4>>, atomic_word_count |-> <<88, 4>>,
     producer_epoch |-> <<96, 8>>, canonical_sequence |-> <<104, 8>>, slot |-> <<112, 8>>,
     prefix_generation |-> <<120, 8>>, contributing_source_mask |-> <<128, 8>>,
     first_data_shred_index |-> <<136, 4>>, last_data_shred_index |-> <<140, 4>>,
     data_set_starting_shred_index |-> <<144, 4>>,
     completed_data_set_ending_shred_index_exclusive |-> <<148, 4>>,
     entry_ordinal |-> <<152, 4>>, transaction_ordinal |-> <<156, 4>>,
     transaction_offset |-> <<160, 4>>, transaction_length |-> <<164, 4>>,
     loaded_writable_offset |-> <<168, 4>>, loaded_writable_length |-> <<172, 4>>,
     loaded_readonly_offset |-> <<176, 4>>, loaded_readonly_length |-> <<180, 4>>,
     loaded_writable_count |-> <<184, 2>>, loaded_readonly_count |-> <<186, 2>>,
     final_padding_bytes |-> <<188, 1>>,
     first_shred_receive_ns |-> <<192, 8>>, transaction_complete_ns |-> <<200, 8>>,
     lut_resolution_complete_ns |-> <<208, 8>>, publication_start_ns |-> <<216, 8>>]

\* The field whose bytes decode() takes for a field.
SourceOf(f) == CHOOSE g \in DOMAIN WrittenAt : WrittenAt[g] = ReadAt[f]

\* The fields a byte of the header belongs to, as encode() writes them.
FieldsAt(byte) ==
    {f \in DOMAIN WrittenAt : byte \in WrittenAt[f][1]..(WrittenAt[f][1] + WrittenAt[f][2] - 1)}

\* What decode() says when a byte that belongs to no field has changed.  The
\* first eight are not looked at.
FormatErrorAt(byte) ==
    CASE byte \in 64..71 -> "InvalidMagic"
      [] byte \in 72..73 -> "UnsupportedSchema"
      [] byte \in 74..75 -> "UnsupportedLayout"
      [] byte \in 76..77 -> "InvalidHeaderLength"
      [] byte \in 8..63 \cup 92..95 \cup 189..191 \cup 224..255 -> "NonzeroReserved"
      [] OTHER -> "Ok"

-----------------------------------------------------------------------------

\* frame_length rounded up to whole atomic words of eight bytes
Words(frame_length) == (frame_length + 7) \div 8

Padding(frame_length) == (8 - (frame_length % 8)) % 8

\* The layout encode_into() writes for a transaction and its loaded keys.
LayoutOf(transaction_length, writable, readonly) ==
    LET body == transaction_length + (writable + readonly) * KEY_BYTES
    IN  [body_length |-> body,
         atomic_word_count |-> Words(FRAME_HEADER_BYTES + body),
         final_padding_bytes |-> 8 * Words(FRAME_HEADER_BYTES + body)
                                   - (FRAME_HEADER_BYTES + body),
         transaction_offset |-> 0,
         transaction_length |-> transaction_length,
         loaded_writable_offset |-> transaction_length,
         loaded_writable_length |-> writable * KEY_BYTES,
         loaded_readonly_offset |-> transaction_length + writable * KEY_BYTES,
         loaded_readonly_length |-> readonly * KEY_BYTES,
         loaded_writable_count |-> writable,
         loaded_readonly_count |-> readonly]

\* checked_frame_body_length() fails
BodyTooLarge(transaction_length, writable, readonly) ==
    transaction_length + (writable + readonly) * KEY_BYTES > FRAME_BODY_CAPACITY

-----------------------------------------------------------------------------
(* FrameHeaderV1::validate, in the order of its early returns.             *)

InvalidReadiness(m) == "NATURAL_READY" \in m.flags <=> "FEC_RECOVERED" \in m.flags

InvalidIdentity(m) ==
    0 \in {m.producer_epoch, m.canonical_sequence, m.prefix_generation,
           m.contributing_source_mask}

InvalidBoundaryValidity(m) ==
    LET start_valid == "DATA_SET_START_VALID" \in m.flags
        end_valid == "DATA_SET_END_VALID" \in m.flags
        start == m.data_set_starting_shred_index
        end == m.completed_data_set_ending_shred_index_exclusive
    IN  \/ ~start_valid /\ start # 0
        \/ ~end_valid /\ end # 0
        \/ end_valid /\ ~start_valid
        \/ start_valid /\ start > m.first_data_shred_index
        \/ m.first_data_shred_index > m.last_data_shred_index
        \/ end_valid /\ m.last_data_shred_index >= end

InvalidTimestamps(m) ==
    \/ m.first_shred_receive_ns = 0
    \/ m.first_shred_receive_ns > m.transaction_complete_ns
    \/ m.transaction_complete_ns > m.lut_resolution_complete_ns
    \/ m.lut_resolution_complete_ns > m.publication_start_ns

FrameTooLarge(l) == l.body_length = 0 \/ l.body_length > FRAME_BODY_CAPACITY

InvalidBodyRegions(l) ==
    \/ l.transaction_length = 0
    \/ l.transaction_offset # 0
    \/ l.loaded_writable_offset # l.transaction_offset + l.transaction_length
    \/ l.loaded_readonly_offset # l.loaded_writable_offset + l.loaded_writable_length
    \/ l.loaded_readonly_offset + l.loaded_readonly_length # l.body_length

InvalidLoadedKeyLength(l) ==
    \/ l.loaded_writable_length # l.loaded_writable_count * KEY_BYTES
    \/ l.loaded_readonly_length # l.loaded_readonly_count * KEY_BYTES

InvalidLoadedKeysForVersion(m, l) ==
    /\ m.message_version \in {"Legacy", "V1"}
    /\ l.loaded_writable_count # 0 \/ l.loaded_readonly_count # 0

ValidateHeader(m, l) ==
    LET frame_length == FRAME_HEADER_BYTES + l.body_length
    IN  IF InvalidReadiness(m) THEN "InvalidReadiness"
        ELSE IF InvalidIdentity(m) THEN "InvalidIdentity"
        ELSE IF InvalidBoundaryValidity(m) THEN "InvalidBoundaryValidity"
        ELSE IF FrameTooLarge(l) THEN "FrameTooLarge"
        ELSE IF l.atomic_word_count # Words(frame_length) THEN "InvalidAtomicWordCount"
        ELSE IF l.final_padding_bytes # Padding(frame_length) THEN "InvalidPadding"
        ELSE IF InvalidBodyRegions(l) THEN "InvalidBodyRegions"
        ELSE IF InvalidLoadedKeyLength(l) THEN "InvalidLoadedKeyLength"
        ELSE IF InvalidLoadedKeysForVersion(m, l) THEN "InvalidLoadedKeysForVersion"
        ELSE IF InvalidTimestamps(m) THEN "InvalidTimestamps"
        ELSE "Ok"
=============================================================================

----------------------------- MODULE FrameCodec -----------------------------
(***************************************************************************)
(* One canonical frame from the encoder's output buffer to the receiver    *)
(* (protocol crate, frame.rs): FrameEncoder::encode_into, one damage on    *)
(* the way, to the header or to the body, and ValidatedFrame::parse.       *)
(*                                                                         *)
(* A body is the sequence of its bytes, each labelled with what it is a    *)
(* byte of, "foreign" once it has changed.  A transaction is what          *)
(* SanitizedTransactionView::try_new says of it.                           *)
(***************************************************************************)
EXTENDS FrameLayout, Sequences, SequencesExt

CONSTANTS
    MetadataSet,         \* the metadata that frames are encoded with
    ParsedTransactions,  \* [length, message_version, writable, readonly, sanitized]
    MaxLoaded,           \* bound: loaded keys given to the encoder
    MaxDamage            \* bound: see Damaged

ASSUME CodecAssumption ==
    /\ MetadataSet \subseteq Metadata
    /\ ParsedTransactions \subseteq
          [length : Nat, message_version : MessageVersions, writable : Nat, readonly : Nat,
           sanitized : BOOLEAN]
    /\ MaxLoaded \in Nat /\ MaxDamage \in Nat

VARIABLES
    metadata, parts,   \* the arguments of encode_into
    output,            \* the buffer: a frame, or Untouched
    phase,             \* "start", "encoded", "sent" or "parsed"
    result,            \* what the last call returned
    received           \* what the receiver's parse() returned, or Nothing

vars == <<metadata, parts, output, phase, result, received>>

Nothing == <<>>

Untouched ==
    [format |-> "none", metadata |-> metadata, layout |-> LayoutOf(0, 0, 0), body |-> <<>>]

\* FrameParts: a transaction and its loaded keys, by number.
PartsSet == [transaction : ParsedTransactions, writable : 0..MaxLoaded, readonly : 0..MaxLoaded]

Frame(m, l, body) == [format |-> "Ok", metadata |-> m, layout |-> l, body |-> body]

\* Mutant of BodyOf: the buffer is not cleared before the copy.
BodyOfUncleared(p, padding) ==
    LET n == p.transaction.length
        w == n + p.writable * KEY_BYTES
        r == w + p.readonly * KEY_BYTES
    IN  [i \in 1..(r + padding) |->
            IF i <= n THEN "transaction" ELSE IF i <= w THEN "writable"
            ELSE IF i <= r THEN "readonly" ELSE "stale"]

\* The bytes behind the header: the parts in order, then zeros.
BodyOf(p, padding) ==
    LET n == p.transaction.length
        w == n + p.writable * KEY_BYTES
        r == w + p.readonly * KEY_BYTES
    IN  [i \in 1..(r + padding) |->
            IF i <= n THEN "transaction" ELSE IF i <= w THEN "writable"
            ELSE IF i <= r THEN "readonly" ELSE "zero"]

-----------------------------------------------------------------------------
(* ValidatedFrame::parse                                                   *)

\* The value that the bytes of a field hold.
ValueOf(f, field) ==
    IF field \in DOMAIN f.metadata THEN f.metadata[field] ELSE f.layout[field]

\* FrameHeaderV1::decode, each field from where decode() looks for it.
Decode(f) ==
    [f EXCEPT !.metadata = [field \in DOMAIN @ |-> ValueOf(f, SourceOf(field))],
              !.layout = [field \in DOMAIN @ |-> ValueOf(f, SourceOf(field))]]

\* body.get(region(offset, length)?); nothing where there is no such region.
Region(body, offset, length) ==
    IF offset + length <= Len(body) THEN SubSeq(body, offset + 1, offset + length) ELSE <<>>

TransactionBytes(f) == Region(f.body, f.layout.transaction_offset, f.layout.transaction_length)
WritableBytes(f) == Region(f.body, f.layout.loaded_writable_offset, f.layout.loaded_writable_length)
ReadonlyBytes(f) == Region(f.body, f.layout.loaded_readonly_offset, f.layout.loaded_readonly_length)

\* External to this module: what try_new may say of the bytes that arrive for
\* a transaction.  Of other bytes, as many, anything: there is no checksum.
\* Of fewer or more nothing, for it consumes its input exactly.
TransactionsIn(bytes, transaction) ==
    IF bytes = [i \in 1..transaction.length |-> "transaction"] THEN {transaction}
    ELSE IF Len(bytes) = transaction.length
    THEN [length : {transaction.length}, message_version : MessageVersions,
          writable : 0..MaxLoaded, readonly : 0..MaxLoaded, sanitized : BOOLEAN]
    ELSE {[transaction EXCEPT !.sanitized = FALSE]}

\* Mutant of CountsDisagree: only the sum of the counts is compared.
CountsDisagreeInSum(transaction, writable, readonly) ==
    transaction.writable + transaction.readonly # writable + readonly

CountsDisagree(transaction, writable, readonly) ==
    transaction.writable # writable \/ transaction.readonly # readonly

\* The bytes that follow the header in the frame the header declares.
FrameBytes(f) == 8 * f.layout.atomic_word_count - FRAME_HEADER_BYTES

NonzeroFinalPadding(f) ==
    \E i \in (f.layout.body_length + 1)..FrameBytes(f) : f.body[i] # "zero"

\* After decode(), of which f is the result; the transaction is what try_new
\* says of its region.
ParseDecodedError(f, transaction) ==
    IF f.format # "Ok" THEN f.format
    ELSE IF ValidateHeader(f.metadata, f.layout) # "Ok"
    THEN ValidateHeader(f.metadata, f.layout)
    ELSE IF Len(f.body) < FrameBytes(f) THEN "TruncatedFrame"
    ELSE IF NonzeroFinalPadding(f) THEN "NonzeroFinalPadding"
    ELSE IF ~transaction.sanitized THEN "TransactionParse"
    ELSE IF transaction.message_version # f.metadata.message_version
    THEN "MessageVersionMismatch"
    ELSE IF CountsDisagree(transaction, f.layout.loaded_writable_count,
                           f.layout.loaded_readonly_count)
    THEN "LoadedAddressCountMismatch"
    ELSE "Ok"

\* What parse() may return of a frame in which p's transaction was encoded.
ParseErrors(f, p) ==
    {ParseDecodedError(Decode(f), transaction) :
        transaction \in TransactionsIn(TransactionBytes(Decode(f)), p.transaction)}

-----------------------------------------------------------------------------
(* FrameEncoder::encode_into                                               *)

\* What encode_into() would write.
Encoded(m, p) ==
    LET l == LayoutOf(p.transaction.length, p.writable, p.readonly)
    IN  Frame(m, l, BodyOf(p, l.final_padding_bytes))

\* Mutant of EncodeError: the header is left to the check after the copy.
EncodeErrorWithoutValidate(m, p, room) ==
    LET f == Encoded(m, p)
    IN  IF ~p.transaction.sanitized THEN "TransactionParse"
        ELSE IF p.transaction.message_version # m.message_version
        THEN "MessageVersionMismatch"
        ELSE IF CountsDisagree(p.transaction, p.writable, p.readonly)
        THEN "LoadedAddressCountMismatch"
        ELSE IF BodyTooLarge(p.transaction.length, p.writable, p.readonly)
        THEN "FrameTooLarge"
        ELSE IF room < FrameBytes(f) THEN "OutputTooSmall"
        ELSE "Ok"

\* The checks before the first byte is written; room is what the buffer
\* holds beyond a header.
EncodeError(m, p, room) ==
    LET f == Encoded(m, p)
    IN  IF ~p.transaction.sanitized THEN "TransactionParse"
        ELSE IF p.transaction.message_version # m.message_version
        THEN "MessageVersionMismatch"
        ELSE IF CountsDisagree(p.transaction, p.writable, p.readonly)
        THEN "LoadedAddressCountMismatch"
        ELSE IF BodyTooLarge(p.transaction.length, p.writable, p.readonly)
        THEN "FrameTooLarge"
        ELSE IF room < FrameBytes(f) THEN "OutputTooSmall"
        ELSE ValidateHeader(m, f.layout)

Init ==
    /\ metadata \in MetadataSet
    /\ parts \in PartsSet
    /\ output = Untouched
    /\ phase = "start"
    /\ result = "Ok"
    /\ received = Nothing

\* Checks, then the copy, then parse() on what was copied.
EncodeInto(room) ==
    /\ phase = "start"
    /\ phase' = "encoded"
    /\ IF EncodeError(metadata, parts, room) = "Ok"
       THEN /\ output' = Encoded(metadata, parts)
            /\ result' \in ParseErrors(output', parts)
       ELSE /\ output' = output
            /\ result' = EncodeError(metadata, parts, room)
    /\ UNCHANGED <<metadata, parts, received>>

-----------------------------------------------------------------------------
(* On the way, one damage to a frame.  Every header that passes validate() *)
(* has the layout of some transaction length and key counts (proved in     *)
(* ProtocolProofs), so those, and any one field changed in them, are the   *)
(* damage to a header that matters.                                        *)

Send(frame) ==
    /\ phase = "encoded" /\ result = "Ok"
    /\ phase' = "sent"
    /\ output' = frame
    /\ UNCHANGED <<metadata, parts, result, received>>

SendIntact == Send(output)

SendRelabelled ==
    \E n \in 1..MaxDamage, w, r \in 0..MaxLoaded, version \in MessageVersions :
        Send([output EXCEPT !.layout = LayoutOf(n, w, r),
                            !.metadata.message_version = version])

\* What a field may hold once one of its bytes has changed.
Damaged(field) ==
    CASE field = "message_version" -> MessageVersions
      [] field = "flags" -> {{"NATURAL_READY"}, {"FEC_RECOVERED"}, {"DATA_SET_END_VALID"}}
      [] OTHER -> 0..MaxDamage \cup
                  Words(FRAME_HEADER_BYTES)..Words(FRAME_HEADER_BYTES + FRAME_BODY_CAPACITY)

WithField(f, field, value) ==
    IF field \in DOMAIN f.layout THEN [f EXCEPT !.layout[field] = value]
    ELSE [f EXCEPT !.metadata[field] = value]

\* Any byte of the header changes.
SendWithByteChanged(byte) ==
    /\ phase = "encoded"
    /\ \/ \E field \in FieldsAt(byte) : \E value \in Damaged(field) :
             Send(WithField(output, field, value))
       \/ FieldsAt(byte) = {} /\ Send([output EXCEPT !.format = FormatErrorAt(byte)])

\* A byte that no message version or no flag has.
SendUnrecognised ==
    \E error \in {"UnsupportedMessageVersion", "UnknownFlags"} :
        Send([output EXCEPT !.format = error])

\* Any byte of the body changes, padding included.
SendWithBodyByteChanged(i) ==
    Send([output EXCEPT !.body[i] = "foreign"])

\* The tail is cut off, or foreign bytes follow.
SendTruncated == \E n \in 0..(Len(output.body) - 1) : Send([output EXCEPT !.body = SubSeq(@, 1, n)])
SendExtended == Send([output EXCEPT !.body = Append(@, "foreign")])
SendHeaderTruncated == Send([output EXCEPT !.format = "TruncatedHeader", !.body = <<>>])

Parse ==
    /\ phase = "sent"
    /\ phase' = "parsed"
    /\ result' \in ParseErrors(output, parts)
    /\ received' = IF result' = "Ok" THEN Decode(output) ELSE Nothing
    /\ UNCHANGED <<metadata, parts, output>>

Next ==
    \/ \E room \in 0..(FRAME_BODY_CAPACITY + 8) : EncodeInto(room)
    \/ SendIntact
    \/ SendRelabelled
    \/ \E byte \in 0..(FRAME_HEADER_BYTES - 1) : SendWithByteChanged(byte)
    \/ SendUnrecognised
    \/ \E i \in 1..Len(output.body) : SendWithBodyByteChanged(i)
    \/ SendTruncated
    \/ SendExtended
    \/ SendHeaderTruncated
    \/ Parse

Spec == Init /\ [][Next]_vars

-----------------------------------------------------------------------------

Errors ==
    {"Ok", "InvalidReadiness", "InvalidIdentity", "InvalidBoundaryValidity",
     "FrameTooLarge", "InvalidAtomicWordCount", "InvalidPadding", "InvalidBodyRegions",
     "InvalidLoadedKeyLength", "InvalidLoadedKeysForVersion", "InvalidTimestamps",
     "TruncatedFrame", "NonzeroFinalPadding", "TransactionParse",
     "MessageVersionMismatch", "LoadedAddressCountMismatch", "OutputTooSmall"} \cup FormatErrors

TypeOK ==
    /\ metadata \in Metadata
    /\ parts \in PartsSet
    /\ output.metadata \in Metadata /\ output.layout \in Layouts
    /\ output.body \in Seq({"transaction", "writable", "readonly", "zero", "foreign"})
    /\ phase \in {"start", "encoded", "sent", "parsed"}
    /\ result \in Errors

\* encode_into() either returns Ok or leaves the buffer as it was: the parse
\* after the copy never fails, its checks have all been made before.
EncodeIsAtomic == phase = "encoded" /\ result # "Ok" => output = Untouched

\* The bytes behind the header, and the fields of metadata, that are not what
\* was encoded.
ChangedBytes ==
    {i \in 1..FrameBytes(received) : received.body[i] # Encoded(metadata, parts).body[i]}

ChangedMetadata == {field \in DOMAIN metadata : received.metadata[field] # metadata[field]}

\* No byte of one part of a frame is ever handed out as a byte of another, and
\* none is missing or added: whatever was damaged on the way, a frame that
\* parse() accepts has the regions and the version it was encoded with, and
\* each of them holds its own bytes.  What can differ, for a frame carries no
\* checksum, is the damaged item alone: one byte inside a region, of a frame
\* whose metadata are as encoded, or one field of metadata, of a frame all of
\* whose bytes are.
AcceptedIsAuthentic ==
    phase = "parsed" /\ result = "Ok" =>
        /\ received.layout = Encoded(metadata, parts).layout
        /\ received.metadata.message_version = metadata.message_version
        /\ TransactionBytes(received) \in
              [1..parts.transaction.length -> {"transaction", "foreign"}]
        /\ WritableBytes(received) \in
              [1..(parts.writable * KEY_BYTES) -> {"writable", "foreign"}]
        /\ ReadonlyBytes(received) \in
              [1..(parts.readonly * KEY_BYTES) -> {"readonly", "foreign"}]
        /\ ChangedBytes \subseteq 1..received.layout.body_length
        /\ \/ ChangedBytes = {} /\ Cardinality(ChangedMetadata) <= 1
           \/ ChangedMetadata = {} /\ Cardinality(ChangedBytes) <= 1

=============================================================================

--------------------------- MODULE ProtocolProofs ---------------------------
(***************************************************************************)
(* Proofs about the frames and the sizes of the protocol.  First the       *)
(* layout: what a header that passes FrameHeaderV1::validate says of its   *)
(* body, for every header and every size of header, slot and key.  Then    *)
(* the codec: encode_into and parse.  Then the sizes that are written down *)
(* in several places of the code, each on its own, and must fit together.  *)
(* Last the transaction parser: its cursor, the loops it makes twice, the  *)
(* rules it accepts by, and that what it reads is what was written, both   *)
(* ways.  Of CanonicalStreamValidatorProofs only the lemmas on recursive   *)
(* functions are used.                                                     *)
(***************************************************************************)
EXTENDS FrameCodec, TransportConfig, RequestLimits, TransactionView,
        CanonicalStreamValidatorProofs, FiniteSetTheorems

\* Both ways of counting the final padding, validate()'s and the encoder's,
\* agree: they fill the last word.
LEMMA PaddingFillsLastWord ==
    ASSUME NEW n \in Nat
    PROVE  /\ Padding(n) = 8 * Words(n) - n
           /\ Words(n) \in Nat
           /\ Padding(n) \in 0..7
<1>1. PICK q \in Nat, r \in 0..7 : n = 8 * q + r
  <2>1. n = 8 * (n \div 8) + (n % 8) /\ n \div 8 \in Nat /\ n % 8 \in 0..7
    OBVIOUS
  <2> QED BY <2>1
<1>2. n % 8 = r
  BY <1>1
<1>3. CASE r = 0
  <2>1. Words(n) = q
    BY <1>1, <1>3 DEF Words
  <2>2. Padding(n) = 0
    BY <1>2, <1>3 DEF Padding
  <2> QED BY <1>1, <1>3, <2>1, <2>2
<1>4. CASE r # 0
  <2>1. Words(n) = q + 1
    BY <1>1, <1>4 DEF Words
  <2>2. Padding(n) = 8 - r
    BY <1>1, <1>2, <1>4 DEF Padding
  <2> QED BY <1>1, <1>4, <2>1, <2>2
<1> QED BY <1>3, <1>4

\* An accepting verdict means that every check of validate() has passed.
LEMMA ValidHeaderPassesChecks ==
    ASSUME NEW m, NEW l, ValidateHeader(m, l) = "Ok"
    PROVE  /\ ~InvalidReadiness(m) /\ ~InvalidIdentity(m)
           /\ ~InvalidBoundaryValidity(m) /\ ~InvalidTimestamps(m)
           /\ ~FrameTooLarge(l) /\ ~InvalidBodyRegions(l)
           /\ ~InvalidLoadedKeyLength(l) /\ ~InvalidLoadedKeysForVersion(m, l)
           /\ l.atomic_word_count = Words(FRAME_HEADER_BYTES + l.body_length)
           /\ l.final_padding_bytes = Padding(FRAME_HEADER_BYTES + l.body_length)
BY DEF ValidateHeader

\* The bytes of keys of two groups are the bytes of all keys.
LEMMA KeyBytesAdd ==
    ASSUME NEW w \in Nat, NEW r \in Nat
    PROVE  /\ w * KEY_BYTES \in Nat /\ r * KEY_BYTES \in Nat
           /\ (w + r) * KEY_BYTES = w * KEY_BYTES + r * KEY_BYTES
BY SizeAssumption

\* A valid header has the layout the encoder writes for its transaction
\* length and key counts: no other combination of offsets, lengths, words and
\* padding is accepted (frame.rs, validate()).
THEOREM ValidLayoutIsDetermined ==
    ASSUME NEW m, NEW l \in Layouts, ValidateHeader(m, l) = "Ok"
    PROVE  l = LayoutOf(l.transaction_length, l.loaded_writable_count,
                        l.loaded_readonly_count)
<1> DEFINE t == l.transaction_length
           w == l.loaded_writable_count
           r == l.loaded_readonly_count
           d == LayoutOf(t, w, r)
<1>1. /\ t \in Nat /\ w \in Nat /\ r \in Nat /\ l.body_length \in Nat
      /\ l.loaded_writable_offset \in Nat /\ l.loaded_readonly_offset \in Nat
      /\ l.transaction_offset \in Nat
  BY DEF Layouts
<1>2. /\ l.transaction_offset = 0
      /\ l.loaded_writable_offset = l.transaction_offset + t
      /\ l.loaded_readonly_offset = l.loaded_writable_offset + l.loaded_writable_length
      /\ l.body_length = l.loaded_readonly_offset + l.loaded_readonly_length
  BY ValidHeaderPassesChecks DEF InvalidBodyRegions
<1>3. l.loaded_writable_length = w * KEY_BYTES /\ l.loaded_readonly_length = r * KEY_BYTES
  BY ValidHeaderPassesChecks DEF InvalidLoadedKeyLength
<1>4. /\ w * KEY_BYTES \in Nat /\ r * KEY_BYTES \in Nat
      /\ (w + r) * KEY_BYTES = w * KEY_BYTES + r * KEY_BYTES
  BY <1>1, KeyBytesAdd
<1> HIDE DEF t, w, r
<1>5. /\ l.loaded_writable_offset = t
      /\ l.loaded_readonly_offset = t + w * KEY_BYTES
      /\ l.body_length = t + (w + r) * KEY_BYTES
  BY <1>1, <1>2, <1>3, <1>4
<1>6. /\ l.atomic_word_count = Words(FRAME_HEADER_BYTES + l.body_length)
      /\ l.final_padding_bytes = 8 * Words(FRAME_HEADER_BYTES + l.body_length)
                                   - (FRAME_HEADER_BYTES + l.body_length)
  <2>1. FRAME_HEADER_BYTES + l.body_length \in Nat
    BY <1>1, SizeAssumption
  <2> QED BY <2>1, PaddingFillsLastWord, ValidHeaderPassesChecks
<1>7. /\ d = [body_length |-> l.body_length,
              atomic_word_count |-> l.atomic_word_count,
              final_padding_bytes |-> l.final_padding_bytes,
              transaction_offset |-> l.transaction_offset,
              transaction_length |-> t,
              loaded_writable_offset |-> l.loaded_writable_offset,
              loaded_writable_length |-> l.loaded_writable_length,
              loaded_readonly_offset |-> l.loaded_readonly_offset,
              loaded_readonly_length |-> l.loaded_readonly_length,
              loaded_writable_count |-> w,
              loaded_readonly_count |-> r]
  BY <1>2, <1>3, <1>5, <1>6 DEF LayoutOf
<1> HIDE DEF d
<1>8. l = d
  BY <1>7 DEF Layouts, t, w, r
<1> QED BY <1>8 DEF d, t, w, r

\* Every byte of the body of a valid frame lies in exactly one region, and
\* the regions come in order: parse() hands out each byte once.
THEOREM RegionsTileBody ==
    ASSUME NEW m, NEW l \in Layouts, ValidateHeader(m, l) = "Ok",
           NEW i \in 0..(l.body_length - 1)
    PROVE  LET InTransaction == i < l.transaction_length
               InWritable == /\ l.loaded_writable_offset <= i
                             /\ i < l.loaded_writable_offset + l.loaded_writable_length
               InReadonly == /\ l.loaded_readonly_offset <= i
                             /\ i < l.loaded_readonly_offset + l.loaded_readonly_length
           IN  \/ InTransaction /\ ~InWritable /\ ~InReadonly
               \/ ~InTransaction /\ InWritable /\ ~InReadonly
               \/ ~InTransaction /\ ~InWritable /\ InReadonly
<1>1. /\ l.transaction_offset = 0
      /\ l.loaded_writable_offset = l.transaction_offset + l.transaction_length
      /\ l.loaded_readonly_offset = l.loaded_writable_offset + l.loaded_writable_length
      /\ l.body_length = l.loaded_readonly_offset + l.loaded_readonly_length
  BY ValidHeaderPassesChecks DEF InvalidBodyRegions
<1>2. /\ l.transaction_length \in Nat /\ l.body_length \in Nat
      /\ l.loaded_writable_offset \in Nat /\ l.loaded_writable_length \in Nat
      /\ l.loaded_readonly_offset \in Nat /\ l.loaded_readonly_length \in Nat
  BY DEF Layouts
<1> QED BY <1>1, <1>2

\* The frame a valid header declares holds its header, its body and less than
\* a word of padding, and never exceeds its slot when the slot is whole words.
THEOREM FrameFitsSlot ==
    ASSUME NEW m, NEW l \in Layouts, ValidateHeader(m, l) = "Ok",
           NEW s \in Nat, FRAME_HEADER_BYTES + FRAME_BODY_CAPACITY = 8 * s
    PROVE  /\ 8 * l.atomic_word_count >= FRAME_HEADER_BYTES + l.body_length
           /\ 8 * l.atomic_word_count < FRAME_HEADER_BYTES + l.body_length + 8
           /\ 8 * l.atomic_word_count <= FRAME_HEADER_BYTES + FRAME_BODY_CAPACITY
<1> DEFINE n == FRAME_HEADER_BYTES + l.body_length
           words == l.atomic_word_count
<1>1. n \in Nat /\ words \in Nat /\ l.body_length \in Nat
  BY SizeAssumption DEF Layouts
<1>2. words = Words(n)
  BY ValidHeaderPassesChecks
<1>3. 8 * words - n \in 0..7
  BY <1>1, <1>2, PaddingFillsLastWord
<1>4. n <= 8 * s
  BY <1>1, SizeAssumption, ValidHeaderPassesChecks DEF FrameTooLarge
<1> HIDE DEF n, words
<1>5. /\ 8 * words >= n /\ 8 * words < n + 8 /\ 8 * words <= 8 * s
  BY <1>1, <1>3, <1>4
<1> QED BY <1>5 DEF n, words

\* No byte of the header belongs to two fields.
LEMMA FieldsAreDisjoint ==
    ASSUME NEW f \in DOMAIN WrittenAt, NEW g \in DOMAIN WrittenAt, NEW byte \in Int,
           f \in FieldsAt(byte), g \in FieldsAt(byte)
    PROVE  f = g
BY SMTT(30) DEF FieldsAt, WrittenAt

\* decode() finds each field where encode() puts it, and nowhere else.
THEOREM DecodeInvertsEncode ==
    ASSUME NEW f \in DOMAIN ReadAt
    PROVE  SourceOf(f) = f
<1>1. ReadAt = WrittenAt
  BY DEF ReadAt, WrittenAt
<1>2. ASSUME NEW g \in DOMAIN WrittenAt, WrittenAt[g] = WrittenAt[f]
      PROVE  g = f
  <2>1. WrittenAt[f][1] \in Int /\ WrittenAt[f][2] \in Int /\ WrittenAt[f][2] >= 1
    BY <1>1 DEF WrittenAt
  <2>2. f \in FieldsAt(WrittenAt[f][1])
    BY <1>1, <2>1 DEF FieldsAt
  <2>3. g \in FieldsAt(WrittenAt[f][1])
    BY <1>2, <2>1 DEF FieldsAt
  <2> QED BY <1>1, <2>1, <2>2, <2>3, FieldsAreDisjoint
<1> QED BY <1>1, <1>2 DEF SourceOf

\* Every byte of the header from the ninth on is either a byte of a field or
\* checked against the format, so damage to it is seen by validate(), by
\* decode(), or in the one field it belongs to; the first eight are ignored.
THEOREM HeaderBytesAccountedFor ==
    ASSUME NEW byte \in 0..255
    PROVE  FieldsAt(byte) = {} <=> byte < 8 \/ FormatErrorAt(byte) # "Ok"
<1>1. FormatErrorAt(byte) # "Ok" <=>
         byte \in 8..77 \cup 92..95 \cup 189..191 \cup 224..255
  BY DEF FormatErrorAt
<1>2. FieldsAt(byte) = {} <=> byte \notin 78..91 \cup 96..188 \cup 192..223
  BY SMTT(30) DEF FieldsAt, WrittenAt
<1> QED BY <1>1, <1>2

-----------------------------------------------------------------------------
(* The codec.                                                              *)

Labels == {"transaction", "writable", "readonly", "zero", "foreign"}

\* Everything that can stand in the buffer.
AnyFrames ==
    [format : {"Ok", "none"} \cup FormatErrors, metadata : Metadata, layout : Layouts,
     body : Seq(Labels)]

\* The parts an encoder is given are well formed.
LEMMA PartsType ==
    ASSUME NEW p \in PartsSet
    PROVE  /\ p.transaction.length \in Nat /\ p.writable \in Nat /\ p.readonly \in Nat
           /\ p.transaction.message_version \in MessageVersions
BY CodecAssumption DEF PartsSet

\* A layout made of three numbers has numbers in all its fields, and its last
\* word is filled.
LEMMA LayoutType ==
    ASSUME NEW n \in Nat, NEW w \in Nat, NEW r \in Nat
    PROVE  LET l == LayoutOf(n, w, r)
           IN  /\ l \in Layouts
               /\ l.body_length = n + w * KEY_BYTES + r * KEY_BYTES
               /\ l.final_padding_bytes \in 0..7
               /\ 8 * l.atomic_word_count - FRAME_HEADER_BYTES
                     = l.body_length + l.final_padding_bytes
<1> DEFINE k == w * KEY_BYTES
           j == r * KEY_BYTES
           body == n + (w + r) * KEY_BYTES
           words == Words(FRAME_HEADER_BYTES + body)
           padding == 8 * words - (FRAME_HEADER_BYTES + body)
<1>1. k \in Nat /\ j \in Nat /\ body = n + k + j /\ body \in Nat
  <2>1. k \in Nat /\ j \in Nat /\ (w + r) * KEY_BYTES = k + j
    BY KeyBytesAdd
  <2> HIDE DEF k, j
  <2> QED BY <2>1
<1>2. FRAME_HEADER_BYTES \in Nat /\ FRAME_HEADER_BYTES + body \in Nat
  BY <1>1, SizeAssumption
<1>3. words \in Nat /\ padding \in 0..7
  BY <1>2, PaddingFillsLastWord
<1>4. n + k \in Nat
  BY <1>1
<1>5. LayoutOf(n, w, r) =
        [body_length |-> body, atomic_word_count |-> words, final_padding_bytes |-> padding,
         transaction_offset |-> 0, transaction_length |-> n,
         loaded_writable_offset |-> n, loaded_writable_length |-> k,
         loaded_readonly_offset |-> n + k, loaded_readonly_length |-> j,
         loaded_writable_count |-> w, loaded_readonly_count |-> r]
  BY DEF LayoutOf
<1>6. 8 * words - FRAME_HEADER_BYTES = body + padding
  BY <1>1, <1>2, <1>3
<1> HIDE DEF k, j, body, words, padding
<1>7. padding \in Nat
  BY <1>3
<1>8. LayoutOf(n, w, r) \in Layouts
  BY <1>1, <1>3, <1>4, <1>5, <1>7 DEF Layouts
<1> QED BY <1>1, <1>3, <1>5, <1>6, <1>8 DEF k, j

\* What the encoder writes: a frame, as long as it declares, the parts in order
\* and zeros behind them.
LEMMA EncodedFrame ==
    ASSUME NEW m \in Metadata, NEW p \in PartsSet
    PROVE  LET f == Encoded(m, p)
               n == p.transaction.length
               w == n + p.writable * KEY_BYTES
               r == w + p.readonly * KEY_BYTES
           IN  /\ f \in AnyFrames /\ f.format = "Ok" /\ f.metadata = m
               /\ f.layout = LayoutOf(n, p.writable, p.readonly)
               /\ f.layout.body_length = r
               /\ n \in Nat /\ w \in Nat /\ r \in Nat /\ n <= w /\ w <= r
               /\ Len(f.body) = FrameBytes(f) /\ r <= Len(f.body)
               /\ \A i \in 1..Len(f.body) :
                     f.body[i] = IF i <= n THEN "transaction" ELSE IF i <= w THEN "writable"
                                 ELSE IF i <= r THEN "readonly" ELSE "zero"
<1> DEFINE f == Encoded(m, p)
           n == p.transaction.length
           k == p.writable * KEY_BYTES
           j == p.readonly * KEY_BYTES
           l == LayoutOf(n, p.writable, p.readonly)
           size == n + k + j + l.final_padding_bytes
<1>1. n \in Nat /\ k \in Nat /\ j \in Nat
  BY PartsType, KeyBytesAdd
<1>2. /\ l \in Layouts /\ l.body_length = n + k + j /\ l.final_padding_bytes \in 0..7
      /\ 8 * l.atomic_word_count - FRAME_HEADER_BYTES = l.body_length + l.final_padding_bytes
  BY PartsType, LayoutType
<1>3. /\ f.format = "Ok" /\ f.metadata = m /\ f.layout = l
      /\ f = [format |-> "Ok", metadata |-> m, layout |-> l, body |-> f.body]
      /\ f.body = BodyOf(p, l.final_padding_bytes)
  BY DEF Encoded, Frame
<1> HIDE DEF l
<1>4. f.body = [i \in 1..size |->
                   IF i <= n THEN "transaction" ELSE IF i <= n + k THEN "writable"
                   ELSE IF i <= n + k + j THEN "readonly" ELSE "zero"]
  BY <1>3 DEF BodyOf
<1> HIDE DEF f, n, k, j
<1>5. size \in Nat /\ size = 8 * l.atomic_word_count - FRAME_HEADER_BYTES /\ n + k + j <= size
  BY <1>1, <1>2
<1> HIDE DEF size
<1>6. f.body \in Seq(Labels) /\ Len(f.body) = size
  <2>1. f.body \in [1..size -> Labels]
    BY <1>4 DEF Labels
  <2>2. f.body \in Seq(Labels)
    BY <1>5, <2>1, SeqDef
  <2>3. DOMAIN f.body = 1..Len(f.body) /\ Len(f.body) \in Nat
    BY <2>2
  <2> QED BY <1>5, <2>1, <2>2, <2>3
<1>7. f \in AnyFrames
  BY <1>2, <1>3, <1>6 DEF AnyFrames
<1>8. Len(f.body) = FrameBytes(f)
  BY <1>3, <1>5, <1>6 DEF FrameBytes
<1>9. /\ n + k \in Nat /\ n + k + j \in Nat /\ n <= n + k /\ n + k <= n + k + j
  BY <1>1
<1>10. \A i \in 1..size :
          f.body[i] = IF i <= n THEN "transaction" ELSE IF i <= n + k THEN "writable"
                      ELSE IF i <= n + k + j THEN "readonly" ELSE "zero"
  BY <1>4
<1> QED BY <1>1, <1>2, <1>3, <1>5, <1>6, <1>7, <1>8, <1>9, <1>10 DEF f, n, k, j, l

\* decode() returns the fields as they were encoded.
LEMMA DecodeIsIdentity ==
    ASSUME NEW f \in AnyFrames
    PROVE  Decode(f) = f
<1> DEFINE m == f.metadata
           l == f.layout
<1>1. m \in Metadata /\ l \in Layouts
  BY DEF AnyFrames
<1>2. \A field \in DOMAIN m : field \in DOMAIN ReadAt
  BY <1>1 DEF Metadata, ReadAt
<1>3. \A field \in DOMAIN l : field \in DOMAIN ReadAt /\ field \notin DOMAIN m
  BY <1>1 DEF Metadata, Layouts, ReadAt
<1>4. m = [field \in DOMAIN m |-> m[field]] /\ l = [field \in DOMAIN l |-> l[field]]
  BY <1>1 DEF Metadata, Layouts
<1>5. \A field \in DOMAIN m : ValueOf(f, SourceOf(field)) = m[field]
  BY <1>2, DecodeInvertsEncode DEF ValueOf
<1>6. \A field \in DOMAIN l : ValueOf(f, SourceOf(field)) = l[field]
  BY <1>3, DecodeInvertsEncode DEF ValueOf
<1>7. [field \in DOMAIN m |-> ValueOf(f, SourceOf(field))] = m
  BY <1>4, <1>5
<1>8. [field \in DOMAIN l |-> ValueOf(f, SourceOf(field))] = l
  BY <1>4, <1>6
<1>9. Decode(f) = [f EXCEPT !.metadata = m, !.layout = l]
  BY <1>7, <1>8 DEF Decode
<1> QED BY <1>9 DEF AnyFrames

\* The bytes of a region are there, each with one of some labels.
Uniform(body, offset, length, labels) ==
    /\ offset + length <= Len(body)
    /\ \A i \in 1..Len(body) : offset < i /\ i <= offset + length => body[i] \in labels

\* A region of such bytes.
LEMMA RegionOfBytes ==
    ASSUME NEW body \in Seq(Labels), NEW offset \in Nat, NEW length \in Nat,
           NEW labels, Uniform(body, offset, length, labels)
    PROVE  Region(body, offset, length) \in [1..length -> labels]
<1> USE DEF Uniform
<1> DEFINE s == SubSeq(body, offset + 1, offset + length)
<1>1. Len(body) \in Nat /\ \A i \in 1..Len(body) : body[i] \in Labels
  OBVIOUS
<1>2. \A i \in (offset + 1)..(offset + length) : i \in 1..Len(body)
  BY <1>1
<1>3. /\ s \in Seq(Labels)
      /\ Len(s) = IF offset + 1 <= offset + length
                  THEN (offset + length) - (offset + 1) + 1 ELSE 0
      /\ \A i \in 1..((offset + length) - (offset + 1) + 1) : s[i] = body[(offset + 1) + i - 1]
  <2>1. offset + 1 \in Int /\ offset + length \in Int
        /\ \A i \in (offset + 1)..(offset + length) : body[i] \in Labels
    BY <1>1, <1>2
  <2> QED BY <2>1, SubSeqProperties
<1> HIDE DEF s
<1>4. Len(s) = length /\ (offset + length) - (offset + 1) + 1 = length
  BY <1>3
<1>5. ASSUME NEW i \in 1..length PROVE s[i] \in labels
  <2>1. (offset + 1) + i - 1 \in 1..Len(body) /\ offset < (offset + 1) + i - 1
        /\ (offset + 1) + i - 1 <= offset + length
    BY <1>1
  <2> QED BY <1>3, <1>4, <2>1
<1>6. s \in [1..Len(s) -> Labels]
  BY <1>3
<1>7. s \in [1..length -> labels]
  BY <1>4, <1>5, <1>6
<1>8. Region(body, offset, length) = s
  BY DEF Region, s
<1> QED BY <1>7, <1>8

\* A region inside the body is as long as it should be.
LEMMA RegionLength ==
    ASSUME NEW body \in Seq(Labels), NEW offset \in Nat, NEW length \in Nat,
           offset + length <= Len(body)
    PROVE  Len(Region(body, offset, length)) = length
<1>1. Len(body) \in Nat /\ \A i \in 1..Len(body) : body[i] \in Labels
  OBVIOUS
<1>2. \A i \in (offset + 1)..(offset + length) : body[i] \in Labels
  BY <1>1
<1>3. Len(SubSeq(body, offset + 1, offset + length)) =
         IF offset + 1 <= offset + length THEN (offset + length) - (offset + 1) + 1 ELSE 0
  BY <1>2, SubSeqProperties
<1> QED BY <1>3 DEF Region

\* Both calls report errors of the codec and no others.
LEMMA ErrorTypes ==
    ASSUME NEW f \in AnyFrames, NEW m, NEW p, NEW room
    PROVE  /\ f.format # "none" => ParseErrors(f, p) \subseteq Errors
           /\ EncodeError(m, p, room) \in Errors
<1>1. \A l : ValidateHeader(m, l) \in Errors /\ ValidateHeader(f.metadata, l) \in Errors
  BY DEF ValidateHeader, Errors
<1>2. f.format # "none" => f.format \in Errors
  BY DEF AnyFrames, Errors
<1>3. f.format # "none" => \A t : ParseDecodedError(f, t) \in Errors
  BY <1>1, <1>2 DEF ParseDecodedError, Errors
<1>4. f.format # "none" => ParseErrors(f, p) \subseteq Errors
  BY <1>3, DecodeIsIdentity DEF ParseErrors
<1>5. EncodeError(m, p, room) \in Errors
  BY <1>1 DEF EncodeError, Errors
<1> QED BY <1>4, <1>5

\* What encode_into() checks before it writes, the room in the buffer aside.
Encodable(m, p) ==
    /\ p.transaction.sanitized
    /\ p.transaction.message_version = m.message_version
    /\ ~CountsDisagree(p.transaction, p.writable, p.readonly)
    /\ ValidateHeader(m, Encoded(m, p).layout) = "Ok"

\* parse() accepts everything that encode_into() writes, so the check it makes
\* after the copy never fails (frame.rs, encode_into()).
THEOREM EncodedIsAccepted ==
    ASSUME NEW m \in Metadata, NEW p \in PartsSet, Encodable(m, p)
    PROVE  ParseErrors(Encoded(m, p), p) = {"Ok"}
<1> DEFINE f == Encoded(m, p)
           n == p.transaction.length
           w == n + p.writable * KEY_BYTES
           r == w + p.readonly * KEY_BYTES
<1>1. /\ f \in AnyFrames /\ f.format = "Ok" /\ f.metadata = m
      /\ f.layout = LayoutOf(n, p.writable, p.readonly) /\ f.layout.body_length = r
      /\ n \in Nat /\ w \in Nat /\ r \in Nat /\ n <= w /\ w <= r
      /\ Len(f.body) = FrameBytes(f) /\ r <= Len(f.body)
      /\ \A i \in 1..Len(f.body) :
            f.body[i] = IF i <= n THEN "transaction" ELSE IF i <= w THEN "writable"
                        ELSE IF i <= r THEN "readonly" ELSE "zero"
  BY EncodedFrame
<1>2. ParseErrors(f, p) =
         {ParseDecodedError(f, t) : t \in TransactionsIn(TransactionBytes(f), p.transaction)}
  BY <1>1, DecodeIsIdentity DEF ParseErrors
<1>3. ValidateHeader(f.metadata, f.layout) = "Ok"
  BY <1>1 DEF Encodable
<1>4. /\ f.layout.transaction_offset = 0 /\ f.layout.transaction_length = n
      /\ f.layout.loaded_writable_count = p.writable
      /\ f.layout.loaded_readonly_count = p.readonly
  BY <1>1 DEF LayoutOf
<1> HIDE DEF f, n, w, r
<1>5. f.body \in Seq(Labels) /\ Len(f.body) \in Nat
  BY <1>1 DEF AnyFrames
<1>6. ~NonzeroFinalPadding(f)
  <2>1. \A i \in (r + 1)..Len(f.body) : i \in 1..Len(f.body) /\ ~(i <= n) /\ ~(i <= w) /\ ~(i <= r)
    BY <1>1, <1>5
  <2> QED BY <1>1, <2>1 DEF NonzeroFinalPadding
<1>7. TransactionBytes(f) = [i \in 1..n |-> "transaction"]
  <2>1. 0 + n <= Len(f.body) /\ \A i \in 1..Len(f.body) : 0 < i /\ i <= 0 + n => i <= n
    BY <1>1, <1>5
  <2>2. \A i \in 1..Len(f.body) : 0 < i /\ i <= 0 + n => f.body[i] \in {"transaction"}
    BY <1>1, <2>1
  <2>3. n \in Nat /\ 0 \in Nat
    BY <1>1
  <2>4. Uniform(f.body, 0, n, {"transaction"})
    BY <2>1, <2>2 DEF Uniform
  <2>5. Region(f.body, 0, n) \in [1..n -> {"transaction"}]
    BY <1>5, <2>3, <2>4, RegionOfBytes
  <2>6. Region(f.body, 0, n) = [i \in 1..n |-> "transaction"]
    BY <2>5
  <2> QED BY <1>4, <2>6 DEF TransactionBytes
<1>8. TransactionsIn(TransactionBytes(f), p.transaction) = {p.transaction}
  BY <1>7 DEF TransactionsIn, n
<1>9. ~(Len(f.body) < FrameBytes(f))
  BY <1>1, <1>5
<1>10. ~CountsDisagree(p.transaction, f.layout.loaded_writable_count,
                       f.layout.loaded_readonly_count)
  BY <1>4 DEF Encodable
<1>11. ParseDecodedError(f, p.transaction) = "Ok"
  BY <1>1, <1>3, <1>6, <1>9, <1>10 DEF ParseDecodedError, Encodable
<1> QED BY <1>2, <1>8, <1>11 DEF f

\* What a frame that parse() may accept has passed.
LEMMA AcceptedPassesChecks ==
    ASSUME NEW g \in AnyFrames, NEW p, "Ok" \in ParseErrors(g, p)
    PROVE  /\ ValidateHeader(g.metadata, g.layout) = "Ok"
           /\ FrameBytes(g) <= Len(g.body) /\ FrameBytes(g) \in Int
           /\ ~NonzeroFinalPadding(g)
           /\ \E t \in TransactionsIn(TransactionBytes(g), p.transaction) :
                 /\ t.sanitized /\ t.message_version = g.metadata.message_version
                 /\ ~CountsDisagree(t, g.layout.loaded_writable_count,
                                    g.layout.loaded_readonly_count)
<1>1. PICK t \in TransactionsIn(TransactionBytes(g), p.transaction) : ParseDecodedError(g, t) = "Ok"
  BY DecodeIsIdentity DEF ParseErrors
<1>2. /\ ValidateHeader(g.metadata, g.layout) = "Ok" /\ ~(Len(g.body) < FrameBytes(g))
      /\ ~NonzeroFinalPadding(g)
      /\ t.sanitized /\ t.message_version = g.metadata.message_version
      /\ ~CountsDisagree(t, g.layout.loaded_writable_count, g.layout.loaded_readonly_count)
  BY <1>1 DEF ParseDecodedError
<1>3. Len(g.body) \in Int /\ FrameBytes(g) \in Int
  BY SizeAssumption DEF AnyFrames, Layouts, FrameBytes
<1> QED BY <1>1, <1>2, <1>3

\* Whatever has become of its header, and wherever it has been cut off or
\* continued: a frame that parse() accepts has the layout and the version that
\* were encoded.
THEOREM AcceptedFrameIsWhatWasEncoded ==
    ASSUME NEW m \in Metadata, NEW p \in PartsSet, Encodable(m, p),
           NEW g \in AnyFrames, "Ok" \in ParseErrors(g, p),
           \A i \in 1..Len(g.body) :
              i <= Len(Encoded(m, p).body) => g.body[i] = Encoded(m, p).body[i]
    PROVE  /\ g.layout = Encoded(m, p).layout
           /\ g.metadata.message_version = m.message_version
<1> DEFINE f == Encoded(m, p)
           n == p.transaction.length
           l == g.layout
           t == l.transaction_length
           w == l.loaded_writable_count
           r == l.loaded_readonly_count
           k == w * KEY_BYTES
           j == r * KEY_BYTES
<1>1. /\ f \in AnyFrames /\ f.layout = LayoutOf(n, p.writable, p.readonly)
      /\ n \in Nat /\ n <= Len(f.body)
      /\ \A i \in 1..Len(f.body) : i <= n => f.body[i] = "transaction"
  <2>1. n + p.writable * KEY_BYTES \in Nat
        /\ n + p.writable * KEY_BYTES + p.readonly * KEY_BYTES \in Nat
        /\ n <= n + p.writable * KEY_BYTES
        /\ n + p.writable * KEY_BYTES <= n + p.writable * KEY_BYTES + p.readonly * KEY_BYTES
        /\ n + p.writable * KEY_BYTES + p.readonly * KEY_BYTES <= Len(f.body)
    BY EncodedFrame
  <2>2. f \in AnyFrames /\ n \in Nat
    BY EncodedFrame
  <2>3. Len(f.body) \in Nat
    BY <2>2 DEF AnyFrames
  <2>4. n <= Len(f.body)
    BY <2>1, <2>2, <2>3
  <2> QED BY <2>2, <2>4, EncodedFrame
<1>2. /\ ValidateHeader(g.metadata, l) = "Ok" /\ FrameBytes(g) <= Len(g.body)
      /\ FrameBytes(g) \in Int
  BY AcceptedPassesChecks
<1>3. PICK found \in TransactionsIn(TransactionBytes(g), p.transaction) :
         /\ found.sanitized /\ found.message_version = g.metadata.message_version
         /\ ~CountsDisagree(found, w, r)
  BY AcceptedPassesChecks
<1>4. /\ g.body \in Seq(Labels) /\ Len(g.body) \in Nat /\ l \in Layouts
      /\ t \in Nat /\ w \in Nat /\ r \in Nat
  BY DEF AnyFrames, Layouts
<1>5. l = LayoutOf(t, w, r)
  BY <1>2, <1>4, ValidLayoutIsDetermined
<1>6. k \in Nat /\ j \in Nat
  BY <1>4, KeyBytesAdd
<1>7. /\ l.body_length = t + k + j /\ l.final_padding_bytes \in 0..7
      /\ 8 * l.atomic_word_count - FRAME_HEADER_BYTES = l.body_length + l.final_padding_bytes
  <2> DEFINE e == LayoutOf(t, w, r)
  <2>1. /\ e.body_length = t + k + j /\ e.final_padding_bytes \in 0..7
        /\ 8 * e.atomic_word_count - FRAME_HEADER_BYTES = e.body_length + e.final_padding_bytes
    <3> HIDE DEF t, w, r
    <3> QED BY <1>4, LayoutType DEF k, j
  <2> HIDE DEF e, l, k, j
  <2>2. l = e
    BY <1>5 DEF e
  <2> QED BY <2>1, <2>2
<1>8. l.transaction_offset = 0
  BY <1>5 DEF LayoutOf
<1> HIDE DEF f, n, k, j, l, t, w, r
<1>9. t <= Len(g.body)
  <2>1. FrameBytes(g) = t + k + j + l.final_padding_bytes
    BY <1>7 DEF FrameBytes, l
  <2>2. l.final_padding_bytes \in Nat /\ Len(g.body) \in Nat
    BY <1>4, <1>7
  <2> QED BY <1>2, <1>4, <1>6, <2>1, <2>2
<1>10. TransactionBytes(g) = Region(g.body, 0, t) /\ Len(Region(g.body, 0, t)) = t
  BY <1>4, <1>8, <1>9, RegionLength DEF TransactionBytes, l, t
<1>11. t = n
  <2>1. p.transaction.sanitized \in BOOLEAN
        /\ [p.transaction EXCEPT !.sanitized = FALSE].sanitized = FALSE
    BY CodecAssumption DEF PartsSet
  <2>2. found # [p.transaction EXCEPT !.sanitized = FALSE]
    BY <1>3, <2>1
  <2>3. \/ TransactionBytes(g) = [i \in 1..n |-> "transaction"]
        \/ Len(TransactionBytes(g)) = n
    BY <1>3, <2>2 DEF TransactionsIn, n
  <2>4. Len([i \in 1..n |-> "transaction"]) = n
    BY <1>1
  <2> QED BY <1>10, <2>3, <2>4
<1>12. TransactionBytes(g) = [i \in 1..n |-> "transaction"]
  <2>1. \A i \in 1..Len(g.body) : 0 < i /\ i <= 0 + n => i \in 1..Len(f.body) /\ i <= n
    BY <1>1, <1>4 DEF AnyFrames
  <2>2. \A i \in 1..Len(g.body) : 0 < i /\ i <= 0 + n => g.body[i] \in {"transaction"}
    BY <1>1, <2>1 DEF f
  <2>3. Uniform(g.body, 0, n, {"transaction"})
    BY <1>1, <1>9, <1>11, <2>2 DEF Uniform
  <2>4. Region(g.body, 0, n) \in [1..n -> {"transaction"}]
    BY <1>1, <1>4, <2>3, RegionOfBytes
  <2>5. Region(g.body, 0, n) = [i \in 1..n |-> "transaction"]
    BY <2>4
  <2> QED BY <1>10, <1>11, <2>5
<1>13. found = p.transaction
  BY <1>3, <1>12 DEF TransactionsIn, n
<1>14. w = p.writable /\ r = p.readonly /\ g.metadata.message_version = m.message_version
  BY <1>3, <1>13 DEF CountsDisagree, Encodable
<1> QED BY <1>1, <1>5, <1>11, <1>14 DEF f, l

\* Where the layout is the one that was encoded and single bytes may have
\* changed, each region holds its own bytes.
LEMMA RegionsHoldTheirBytes ==
    ASSUME NEW m \in Metadata, NEW p \in PartsSet, NEW g \in AnyFrames,
           g.layout = Encoded(m, p).layout, FrameBytes(g) <= Len(g.body),
           \A i \in 1..FrameBytes(g) : g.body[i] \in {Encoded(m, p).body[i], "foreign"}
    PROVE  /\ TransactionBytes(g) \in [1..p.transaction.length -> {"transaction", "foreign"}]
           /\ WritableBytes(g) \in [1..(p.writable * KEY_BYTES) -> {"writable", "foreign"}]
           /\ ReadonlyBytes(g) \in [1..(p.readonly * KEY_BYTES) -> {"readonly", "foreign"}]
<1> DEFINE f == Encoded(m, p)
           n == p.transaction.length
           k == p.writable * KEY_BYTES
           j == p.readonly * KEY_BYTES
<1>1. /\ f \in AnyFrames /\ f.layout = LayoutOf(n, p.writable, p.readonly)
      /\ n \in Nat /\ n + k \in Nat /\ n + k + j \in Nat /\ n <= n + k /\ n + k <= n + k + j
      /\ Len(f.body) = FrameBytes(f) /\ n + k + j <= Len(f.body)
      /\ \A i \in 1..Len(f.body) :
            f.body[i] = IF i <= n THEN "transaction" ELSE IF i <= n + k THEN "writable"
                        ELSE IF i <= n + k + j THEN "readonly" ELSE "zero"
  BY EncodedFrame
<1>2. /\ g.layout.transaction_offset = 0 /\ g.layout.transaction_length = n
      /\ g.layout.loaded_writable_offset = n /\ g.layout.loaded_writable_length = k
      /\ g.layout.loaded_readonly_offset = n + k /\ g.layout.loaded_readonly_length = j
  BY <1>1 DEF LayoutOf
<1>3. k \in Nat /\ j \in Nat
  BY PartsType, KeyBytesAdd
<1> HIDE DEF n, k, j
<1>4. FrameBytes(g) = Len(f.body) /\ Len(f.body) \in Nat
  BY <1>1 DEF FrameBytes, AnyFrames
<1>5. g.body \in Seq(Labels) /\ Len(g.body) \in Nat /\ n + k + j <= Len(g.body)
  BY <1>1, <1>4 DEF AnyFrames
<1>6. \A i \in 1..Len(g.body) : i <= n + k + j =>
         g.body[i] \in {IF i <= n THEN "transaction" ELSE IF i <= n + k THEN "writable"
                        ELSE "readonly", "foreign"}
  <2>1. \A i \in 1..Len(g.body) : i <= n + k + j => i \in 1..Len(f.body)
    BY <1>1, <1>4, <1>5
  <2> QED BY <1>1, <1>4, <2>1
<1> HIDE DEF f
<1>7. TransactionBytes(g) \in [1..n -> {"transaction", "foreign"}]
  <2>1. \A i \in 1..Len(g.body) : 0 < i /\ i <= 0 + n => i <= n + k + j /\ i <= n
    BY <1>1, <1>3, <1>5
  <2>2. \A i \in 1..Len(g.body) : 0 < i /\ i <= 0 + n => g.body[i] \in {"transaction", "foreign"}
    BY <1>6, <2>1
  <2>3. 0 + n <= Len(g.body)
    BY <1>1, <1>3, <1>5
  <2>4. Uniform(g.body, 0, n, {"transaction", "foreign"})
    BY <2>2, <2>3 DEF Uniform
  <2>5. Region(g.body, 0, n) \in [1..n -> {"transaction", "foreign"}]
    BY <1>1, <1>5, <2>4, RegionOfBytes
  <2> QED BY <1>2, <2>5 DEF TransactionBytes
<1>8. WritableBytes(g) \in [1..k -> {"writable", "foreign"}]
  <2>1. \A i \in 1..Len(g.body) : n < i /\ i <= n + k => i <= n + k + j /\ ~(i <= n)
    BY <1>1, <1>3, <1>5
  <2>2. \A i \in 1..Len(g.body) : n < i /\ i <= n + k => g.body[i] \in {"writable", "foreign"}
    BY <1>6, <2>1
  <2>3. n + k <= Len(g.body)
    BY <1>1, <1>3, <1>5
  <2>4. Uniform(g.body, n, k, {"writable", "foreign"})
    BY <2>2, <2>3 DEF Uniform
  <2>5. Region(g.body, n, k) \in [1..k -> {"writable", "foreign"}]
    BY <1>1, <1>3, <1>5, <2>4, RegionOfBytes
  <2> QED BY <1>2, <2>5 DEF WritableBytes
<1>9. ReadonlyBytes(g) \in [1..j -> {"readonly", "foreign"}]
  <2>1. \A i \in 1..Len(g.body) : n + k < i => ~(i <= n) /\ ~(i <= n + k)
    BY <1>1, <1>3, <1>5
  <2>2. \A i \in 1..Len(g.body) : n + k < i /\ i <= (n + k) + j =>
           g.body[i] \in {"readonly", "foreign"}
    BY <1>6, <2>1
  <2>3. (n + k) + j <= Len(g.body)
    BY <1>5
  <2>4. Uniform(g.body, n + k, j, {"readonly", "foreign"})
    BY <2>2, <2>3 DEF Uniform
  <2>5. Region(g.body, n + k, j) \in [1..j -> {"readonly", "foreign"}]
    BY <1>1, <1>3, <1>5, <2>4, RegionOfBytes
  <2> QED BY <1>2, <2>5 DEF ReadonlyBytes
<1> QED BY <1>7, <1>8, <1>9 DEF n, k, j

-----------------------------------------------------------------------------
(* The invariant of the codec.                                             *)

\* A frame on the way carries the bytes that were encoded, as far as it goes.
SameBytes(f) ==
    \A i \in 1..Len(f.body) :
       i <= Len(Encoded(metadata, parts).body) => f.body[i] = Encoded(metadata, parts).body[i]

\* No more than one field of its metadata has been changed.
OneFieldDiffers(f) ==
    \E field \in DOMAIN metadata :
       \A other \in DOMAIN metadata \ {field} : f.metadata[other] = metadata[other]

\* One byte of the body has been changed, and nothing of the header.
OneByteDiffers(f) ==
    /\ f.metadata = metadata
    /\ f.layout = Encoded(metadata, parts).layout
    /\ \E i \in 1..Len(Encoded(metadata, parts).body) :
          f.body = [Encoded(metadata, parts).body EXCEPT ![i] = "foreign"]

\* What may have become of a frame on the way.
OnTheWay(f) ==
    /\ f \in AnyFrames /\ f.format # "none"
    /\ (SameBytes(f) /\ OneFieldDiffers(f)) \/ OneByteDiffers(f)

\* The state of the codec, phase by phase.
CodecInv ==
    /\ metadata \in MetadataSet /\ parts \in PartsSet /\ output \in AnyFrames
    /\ phase \in {"start", "encoded", "sent", "parsed"} /\ result \in Errors
    /\ phase = "start" => output = Untouched
    /\ phase = "encoded" =>
          IF result = "Ok" THEN Encodable(metadata, parts) /\ output = Encoded(metadata, parts)
          ELSE output = Untouched
    /\ phase \in {"sent", "parsed"} => Encodable(metadata, parts) /\ OnTheWay(output)
    /\ phase = "parsed" =>
          result \in ParseErrors(output, parts) /\ (result = "Ok" => received = output)

\* Nothing has happened to the frame that leaves the encoder.
LEMMA EncodedIsOnTheWay ==
    ASSUME metadata \in Metadata, parts \in PartsSet
    PROVE  LET f == Encoded(metadata, parts)
           IN  OnTheWay(f) /\ SameBytes(f) /\ OneFieldDiffers(f)
<1> DEFINE f == Encoded(metadata, parts)
<1>1. f \in AnyFrames /\ f.format = "Ok" /\ f.metadata = metadata
  BY EncodedFrame
<1> HIDE DEF f
<1>2. "slot" \in DOMAIN metadata
  BY DEF Metadata
<1>3. OneFieldDiffers(f)
  BY <1>1, <1>2 DEF OneFieldDiffers
<1>4. SameBytes(f)
  BY DEF SameBytes, f
<1> QED BY <1>1, <1>3, <1>4 DEF OnTheWay, f

\* A damaged field still holds a value of its type.
LEMMA DamagedType ==
    ASSUME NEW field, NEW value \in Damaged(field)
    PROVE  /\ field = "message_version" => value \in MessageVersions
           /\ field = "flags" => value \in SUBSET FrameFlags
           /\ field \notin {"message_version", "flags"} => value \in Nat
<1>1. field = "message_version" => value \in MessageVersions
  BY DEF Damaged
<1>2. field = "flags" => value \in SUBSET FrameFlags
  BY DEF Damaged, FrameFlags
<1>3. ASSUME field \notin {"message_version", "flags"} PROVE value \in Nat
  <2> DEFINE a == Words(FRAME_HEADER_BYTES)
             b == Words(FRAME_HEADER_BYTES + FRAME_BODY_CAPACITY)
  <2>1. a \in Nat /\ b \in Nat
    BY SizeAssumption, PaddingFillsLastWord
  <2>2. value \in 0..MaxDamage \cup a..b
    BY <1>3 DEF Damaged
  <2> HIDE DEF a, b
  <2> QED BY <2>1, <2>2, CodecAssumption
<1> QED BY <1>1, <1>2, <1>3

\* One damaged field leaves a frame whose other metadata are intact.
LEMMA WithFieldType ==
    ASSUME NEW f \in AnyFrames, NEW field \in DOMAIN f.metadata \cup DOMAIN f.layout,
           NEW value \in Damaged(field)
    PROVE  LET g == WithField(f, field, value)
           IN  /\ g \in AnyFrames /\ g.format = f.format /\ g.body = f.body
               /\ \A other \in DOMAIN f.metadata \ {field} : g.metadata[other] = f.metadata[other]
<1> DEFINE g == WithField(f, field, value)
<1>1. f.metadata \in Metadata /\ f.layout \in Layouts
  BY DEF AnyFrames
<1>2. CASE field \in DOMAIN f.layout
  <2>1. field \notin {"message_version", "flags"}
    BY <1>1, <1>2 DEF Layouts
  <2>2. value \in Nat
    BY <2>1, DamagedType
  <2>3. [f.layout EXCEPT ![field] = value] \in Layouts
    BY <1>1, <2>2 DEF Layouts
  <2>4. g = [f EXCEPT !.layout = [f.layout EXCEPT ![field] = value]]
    BY <1>2 DEF WithField
  <2> QED BY <2>3, <2>4 DEF AnyFrames
<1>3. CASE field \notin DOMAIN f.layout
  <2>1. field \in DOMAIN f.metadata
    BY <1>3
  <2>2. [f.metadata EXCEPT ![field] = value] \in Metadata
    BY <1>1, <2>1, DamagedType DEF Metadata
  <2>3. g = [f EXCEPT !.metadata = [f.metadata EXCEPT ![field] = value]]
    BY <1>3 DEF WithField
  <2>4. g.metadata = [f.metadata EXCEPT ![field] = value] /\ g \in AnyFrames
        /\ g.format = f.format /\ g.body = f.body
    BY <2>2, <2>3 DEF AnyFrames
  <2> QED BY <2>4
<1> QED BY <1>2, <1>3

\* The buffer is a frame before the first call, too.
LEMMA UntouchedType ==
    ASSUME metadata \in Metadata
    PROVE  Untouched \in AnyFrames
<1>1. LayoutOf(0, 0, 0) \in Layouts
  BY LayoutType
<1>2. <<>> \in Seq(Labels)
  OBVIOUS
<1> QED BY <1>1, <1>2 DEF Untouched, AnyFrames

\* What Send() does to the state, given a frame that keeps what it should.
LEMMA SendKeepsCodecInv ==
    ASSUME CodecInv, NEW f, Send(f), OnTheWay(f)
    PROVE  CodecInv'
<1> USE DEF CodecInv, Send
<1>1. Encodable(metadata, parts) /\ output' = f /\ phase' = "sent" /\ UNCHANGED <<metadata, parts>>
  OBVIOUS
<1>2. Encodable(metadata, parts)' /\ OnTheWay(output)'
  BY <1>1 DEF OnTheWay, SameBytes, OneFieldDiffers, OneByteDiffers
<1>3. f \in AnyFrames
  BY DEF OnTheWay
<1> QED BY <1>1, <1>2, <1>3

\* The frame that Send() starts from.
LEMMA SentFrame ==
    ASSUME CodecInv, phase = "encoded", result = "Ok"
    PROVE  /\ output = Encoded(metadata, parts) /\ OnTheWay(output)
           /\ SameBytes(output) /\ OneFieldDiffers(output) /\ output \in AnyFrames
           /\ output.format = "Ok" /\ output.metadata = metadata
           /\ output.body \in Seq(Labels) /\ Len(output.body) \in Nat
           /\ metadata \in Metadata /\ parts \in PartsSet
<1>1. metadata \in Metadata /\ parts \in PartsSet /\ output = Encoded(metadata, parts)
  BY CodecAssumption DEF CodecInv
<1>2. output.format = "Ok" /\ output.metadata = metadata /\ output \in AnyFrames
  BY <1>1, EncodedFrame
<1>3. output.body \in Seq(Labels) /\ Len(output.body) \in Nat
  BY <1>2 DEF AnyFrames
<1> QED BY <1>1, <1>2, <1>3, EncodedIsOnTheWay

\* Every step keeps the invariant of the codec.
LEMMA StepKeepsCodecInv ==
    ASSUME CodecInv, [Next]_vars
    PROVE  CodecInv'
<1>1. metadata \in Metadata /\ parts \in PartsSet
  BY CodecAssumption DEF CodecInv
<1>2. ASSUME NEW room, EncodeInto(room) PROVE CodecInv'
  <2>1. output = Untouched /\ UNCHANGED <<metadata, parts, received>> /\ phase' = "encoded"
    BY <1>2 DEF EncodeInto, CodecInv
  <2>2. CASE EncodeError(metadata, parts, room) = "Ok"
    <3>1. Encodable(metadata, parts)
      BY <2>2 DEF EncodeError, Encodable
    <3>2. output' = Encoded(metadata, parts) /\ result' \in ParseErrors(output', parts)
      BY <1>2, <2>2 DEF EncodeInto
    <3>3. result' = "Ok"
      BY <1>1, <3>1, <3>2, EncodedIsAccepted
    <3>4. output' \in AnyFrames
      BY <1>1, <3>2, EncodedFrame
    <3>5. Encodable(metadata, parts)' /\ output' = Encoded(metadata, parts)'
      BY <2>1, <3>1, <3>2
    <3> QED BY <2>1, <3>3, <3>4, <3>5 DEF CodecInv, Errors
  <2>3. CASE EncodeError(metadata, parts, room) # "Ok"
    <3>1. output' = output /\ result' = EncodeError(metadata, parts, room) /\ result' # "Ok"
      BY <1>2, <2>3 DEF EncodeInto
    <3>2. result' \in Errors
      <4>1. output \in AnyFrames
        BY DEF CodecInv
      <4> QED BY <3>1, <4>1, ErrorTypes
    <3>3. output' = Untouched' /\ Untouched' = Untouched
      BY <2>1, <3>1 DEF Untouched
    <3> QED BY <2>1, <3>1, <3>2, <3>3 DEF CodecInv
  <2> QED BY <2>2, <2>3
<1>3. CASE SendIntact
  BY <1>3, SentFrame, SendKeepsCodecInv DEF SendIntact, Send
<1>4. CASE SendRelabelled
  <2>1. PICK n \in 1..MaxDamage, w \in 0..MaxLoaded, r \in 0..MaxLoaded,
             version \in MessageVersions :
           Send([output EXCEPT !.layout = LayoutOf(n, w, r), !.metadata.message_version = version])
    BY <1>4 DEF SendRelabelled
  <2> DEFINE f == [output EXCEPT !.layout = LayoutOf(n, w, r),
                                 !.metadata.message_version = version]
  <2>2. phase = "encoded" /\ result = "Ok"
    BY <2>1 DEF Send
  <2>3. LayoutOf(n, w, r) \in Layouts
    <3>1. n \in Nat /\ w \in Nat /\ r \in Nat
      BY CodecAssumption
    <3> QED BY <3>1, LayoutType
  <2>4. [metadata EXCEPT !.message_version = version] \in Metadata
        /\ \A other \in DOMAIN metadata \ {"message_version"} :
              [metadata EXCEPT !.message_version = version][other] = metadata[other]
    BY <1>1 DEF Metadata
  <2>5. /\ f \in AnyFrames /\ f.format = "Ok" /\ f.body = output.body
        /\ f.metadata = [metadata EXCEPT !.message_version = version]
    BY <2>2, <2>3, <2>4, SentFrame DEF AnyFrames, OnTheWay
  <2> HIDE DEF f
  <2>6. SameBytes(f)
    BY <2>2, <2>5, SentFrame DEF SameBytes
  <2>7. OneFieldDiffers(f)
    <3>1. "message_version" \in DOMAIN metadata
      BY <1>1 DEF Metadata
    <3> QED BY <2>4, <2>5, <3>1 DEF OneFieldDiffers
  <2> QED BY <2>1, <2>5, <2>6, <2>7, SendKeepsCodecInv DEF OnTheWay, f
<1>5. ASSUME NEW byte, SendWithByteChanged(byte) PROVE CodecInv'
  <2>1. CASE \E field \in FieldsAt(byte) : \E value \in Damaged(field) :
                Send(WithField(output, field, value))
    <3>1. PICK field \in FieldsAt(byte) : \E value \in Damaged(field) :
                  Send(WithField(output, field, value))
      BY <2>1
    <3>2. PICK value \in Damaged(field) : Send(WithField(output, field, value))
      BY <3>1
    <3> DEFINE f == WithField(output, field, value)
    <3>3. phase = "encoded" /\ result = "Ok"
      BY <3>2 DEF Send
    <3>4. output \in AnyFrames /\ output.metadata = metadata
          /\ SameBytes(output) /\ OneFieldDiffers(output)
          /\ output.format = "Ok"
      BY <3>3, SentFrame
    <3>5. field \in DOMAIN output.metadata \cup DOMAIN output.layout
      <4>1. output.metadata \in Metadata /\ output.layout \in Layouts
        BY <3>4 DEF AnyFrames
      <4>2. field \in DOMAIN WrittenAt
        BY DEF FieldsAt
      <4> QED BY <4>1, <4>2 DEF WrittenAt, Metadata, Layouts
    <3>6. /\ f \in AnyFrames /\ f.format = output.format /\ f.body = output.body
          /\ \A other \in DOMAIN metadata \ {field} : f.metadata[other] = metadata[other]
      BY <3>4, <3>5, WithFieldType
    <3> HIDE DEF f
    <3>7. SameBytes(f)
      BY <3>4, <3>6 DEF SameBytes
    <3>8. OneFieldDiffers(f)
      <4>1. CASE field \in DOMAIN metadata
        BY <3>6, <4>1 DEF OneFieldDiffers
      <4>2. CASE field \notin DOMAIN metadata
        <5>1. "slot" \in DOMAIN metadata
          BY <1>1 DEF Metadata
        <5> QED BY <3>6, <4>2, <5>1 DEF OneFieldDiffers
      <4> QED BY <4>1, <4>2
    <3> QED BY <3>2, <3>4, <3>6, <3>7, <3>8, SendKeepsCodecInv DEF OnTheWay, f
  <2>2. CASE Send([output EXCEPT !.format = FormatErrorAt(byte)])
    <3> DEFINE f == [output EXCEPT !.format = FormatErrorAt(byte)]
    <3>1. phase = "encoded" /\ result = "Ok"
      BY <2>2 DEF Send
    <3>2. FormatErrorAt(byte) \in FormatErrors \cup {"Ok"}
      BY DEF FormatErrorAt, FormatErrors
    <3>3. "none" \notin FormatErrors \cup {"Ok"}
      BY DEF FormatErrors
    <3>4. output \in AnyFrames /\ SameBytes(output) /\ OneFieldDiffers(output)
      BY <3>1, SentFrame
    <3>5. /\ f \in AnyFrames /\ f.format = FormatErrorAt(byte)
          /\ f.body = output.body /\ f.metadata = output.metadata
      BY <3>2, <3>4 DEF AnyFrames
    <3> HIDE DEF f
    <3>6. OnTheWay(f)
      BY <3>2, <3>3, <3>4, <3>5 DEF OnTheWay, SameBytes, OneFieldDiffers
    <3> QED BY <2>2, <3>6, SendKeepsCodecInv DEF f
  <2> QED BY <1>5, <2>1, <2>2 DEF SendWithByteChanged
<1>6. CASE SendUnrecognised
  <2>1. PICK error \in {"UnsupportedMessageVersion", "UnknownFlags"} :
           Send([output EXCEPT !.format = error])
    BY <1>6 DEF SendUnrecognised
  <2> DEFINE f == [output EXCEPT !.format = error]
  <2>2. output \in AnyFrames /\ SameBytes(output) /\ OneFieldDiffers(output)
    BY <2>1, SentFrame DEF Send
  <2>3. /\ f \in AnyFrames /\ f.format = error
        /\ f.body = output.body /\ f.metadata = output.metadata
    BY <2>2 DEF AnyFrames, FormatErrors
  <2> HIDE DEF f
  <2>4. OnTheWay(f)
    BY <2>2, <2>3 DEF OnTheWay, SameBytes, OneFieldDiffers
  <2> QED BY <2>1, <2>4, SendKeepsCodecInv DEF f
<1>7. CASE SendTruncated
  <2>1. PICK n \in 0..(Len(output.body) - 1) : Send([output EXCEPT !.body = SubSeq(@, 1, n)])
    BY <1>7 DEF SendTruncated
  <2> DEFINE cut == SubSeq(output.body, 1, n)
             f == [output EXCEPT !.body = cut]
  <2>2. output \in AnyFrames /\ output.format = "Ok"
        /\ SameBytes(output) /\ OneFieldDiffers(output) /\ output.body \in Seq(Labels)
        /\ Len(output.body) \in Nat
    BY <2>1, SentFrame DEF Send
  <2>3. cut \in Seq(Labels) /\ Len(cut) = n /\ \A i \in 1..n : cut[i] = output.body[i]
    <3>1. n \in Nat /\ n <= Len(output.body)
      BY <2>2
    <3> QED BY <2>2, <3>1
  <2> HIDE DEF cut
  <2>4. /\ f \in AnyFrames /\ f.format = output.format
        /\ f.body = cut /\ f.metadata = output.metadata
    BY <2>2, <2>3 DEF AnyFrames
  <2>5. Send(f)
    BY <2>1 DEF cut
  <2> HIDE DEF f
  <2>6. SameBytes(f)
    <3>1. \A i \in 1..n : i \in 1..Len(output.body)
      BY <2>2
    <3> QED BY <2>2, <2>3, <2>4, <3>1 DEF SameBytes
  <2>7. OnTheWay(f)
    BY <2>2, <2>4, <2>6 DEF OnTheWay, OneFieldDiffers
  <2> QED BY <2>5, <2>7, SendKeepsCodecInv
<1>8. CASE SendExtended
  <2> DEFINE longer == Append(output.body, "foreign")
             f == [output EXCEPT !.body = longer]
  <2>1. Send(f)
    BY <1>8 DEF SendExtended
  <2>2. output \in AnyFrames /\ output.format = "Ok"
        /\ SameBytes(output) /\ OneFieldDiffers(output) /\ output.body \in Seq(Labels)
        /\ Len(output.body) \in Nat /\ output = Encoded(metadata, parts)
    BY <2>1, SentFrame DEF Send
  <2>3. "foreign" \in Labels
    BY DEF Labels
  <2>4. /\ longer \in Seq(Labels) /\ Len(longer) = Len(output.body) + 1
        /\ \A i \in 1..Len(output.body) : longer[i] = output.body[i]
    BY <2>2, <2>3
  <2> HIDE DEF longer
  <2>5. /\ f \in AnyFrames /\ f.format = output.format
        /\ f.body = longer /\ f.metadata = output.metadata
    BY <2>2, <2>4 DEF AnyFrames
  <2> HIDE DEF f
  <2>6. SameBytes(f)
    <3>1. \A i \in 1..Len(longer) : i <= Len(output.body) => i \in 1..Len(output.body)
      BY <2>2, <2>4
    <3> QED BY <2>2, <2>4, <2>5, <3>1 DEF SameBytes
  <2>7. OnTheWay(f)
    BY <2>2, <2>5, <2>6 DEF OnTheWay, OneFieldDiffers
  <2> QED BY <2>1, <2>7, SendKeepsCodecInv
<1>9. CASE SendHeaderTruncated
  <2> DEFINE f == [output EXCEPT !.format = "TruncatedHeader", !.body = <<>>]
  <2>1. Send(f)
    BY <1>9 DEF SendHeaderTruncated
  <2>2. output \in AnyFrames /\ SameBytes(output) /\ OneFieldDiffers(output)
    BY <2>1, SentFrame DEF Send
  <2>3. <<>> \in Seq(Labels) /\ Len(<<>>) = 0 /\ 1..0 = {}
    OBVIOUS
  <2>4. /\ f \in AnyFrames /\ f.format = "TruncatedHeader"
        /\ f.body = <<>> /\ f.metadata = output.metadata
    BY <2>2, <2>3 DEF AnyFrames, FormatErrors
  <2> HIDE DEF f
  <2>5. OnTheWay(f)
    BY <2>2, <2>3, <2>4 DEF OnTheWay, SameBytes, OneFieldDiffers
  <2> QED BY <2>1, <2>5, SendKeepsCodecInv
<1>10. CASE Parse
  <2>1. /\ phase = "sent" /\ phase' = "parsed" /\ UNCHANGED <<metadata, parts, output>>
        /\ result' \in ParseErrors(output, parts)
        /\ received' = IF result' = "Ok" THEN Decode(output) ELSE Nothing
    BY <1>10 DEF Parse
  <2>2. Encodable(metadata, parts) /\ OnTheWay(output) /\ output \in AnyFrames
    BY <2>1 DEF CodecInv
  <2>3. result' \in Errors
    BY <2>1, <2>2, ErrorTypes DEF OnTheWay
  <2>4. result' = "Ok" => received' = output
    BY <2>1, <2>2, DecodeIsIdentity
  <2>5. Encodable(metadata, parts)' /\ OnTheWay(output)'
    BY <2>1, <2>2 DEF OnTheWay, SameBytes, OneFieldDiffers, OneByteDiffers
  <2> QED BY <2>1, <2>2, <2>3, <2>4, <2>5 DEF CodecInv
<1>11. ASSUME NEW i \in 1..Len(output.body), SendWithBodyByteChanged(i) PROVE CodecInv'
  <2> DEFINE changed == [output.body EXCEPT ![i] = "foreign"]
             f == [output EXCEPT !.body = changed]
  <2>1. Send(f)
    BY <1>11 DEF SendWithBodyByteChanged
  <2>2. /\ output \in AnyFrames /\ output.format = "Ok" /\ output.metadata = metadata
        /\ output.body \in Seq(Labels) /\ output = Encoded(metadata, parts)
    BY <2>1, SentFrame DEF OnTheWay, Send
  <2>3. changed \in Seq(Labels)
    <3>1. "foreign" \in Labels
      BY DEF Labels
    <3> QED BY <2>2, <3>1
  <2>4. /\ f \in AnyFrames /\ f.format = output.format
        /\ f.body = changed /\ f.metadata = output.metadata /\ f.layout = output.layout
    BY <2>2, <2>3 DEF AnyFrames
  <2> HIDE DEF f
  <2>5. OneByteDiffers(f)
    BY <2>2, <2>4 DEF OneByteDiffers
  <2>6. OnTheWay(f)
    BY <2>2, <2>4, <2>5 DEF OnTheWay
  <2> QED BY <2>1, <2>6, SendKeepsCodecInv
<1>12. CASE UNCHANGED vars
  BY <1>12 DEF vars, CodecInv, Untouched, OnTheWay, SameBytes, OneFieldDiffers, OneByteDiffers
<1> QED BY <1>2, <1>3, <1>4, <1>5, <1>6, <1>7, <1>8, <1>9, <1>10, <1>11, <1>12 DEF Next

\* The invariant of the codec holds throughout (frame.rs, encode_into() and
\* ValidatedFrame::parse()).
THEOREM CodecInvariance == Spec => []CodecInv
<1>1. Init => CodecInv
  <2>1. ASSUME Init PROVE CodecInv
    <3>1. metadata \in Metadata
      BY <2>1, CodecAssumption DEF Init
    <3>2. "Ok" \in Errors
      BY DEF Errors
    <3> QED BY <2>1, <3>1, <3>2, UntouchedType DEF Init, CodecInv
  <2> QED BY <2>1
<1>2. CodecInv /\ [Next]_vars => CodecInv'
  BY StepKeepsCodecInv
<1> QED BY <1>1, <1>2, PTL DEF Spec

\* The variables keep their types (frame.rs, the fields of the header and the
\* errors of FrameError).
THEOREM TypeCorrect == Spec => []TypeOK
<1>1. CodecInv => TypeOK
  BY CodecAssumption DEF CodecInv, TypeOK, AnyFrames, Labels
<1> QED BY <1>1, CodecInvariance, PTL

\* encode_into() leaves the buffer as it was unless it returns Ok: the parse
\* after the copy cannot fail (frame.rs, encode_into()).
THEOREM EncodingIsAtomic == Spec => []EncodeIsAtomic
<1>1. CodecInv => EncodeIsAtomic
  BY DEF CodecInv, EncodeIsAtomic
<1> QED BY <1>1, CodecInvariance, PTL

\* Of what parse() accepts, every region holds its own bytes, and what differs
\* from what was encoded is at most the one byte of a region, or the one field
\* of metadata, that was damaged on the way (frame.rs, ValidatedFrame::parse()).
THEOREM AcceptedFramesAreAuthentic == Spec => []AcceptedIsAuthentic
<1>1. CodecInv => AcceptedIsAuthentic
  <2> SUFFICES ASSUME CodecInv, phase = "parsed", result = "Ok"
               PROVE  AcceptedIsAuthentic
    BY DEF AcceptedIsAuthentic
  <2> DEFINE f == Encoded(metadata, parts)
  <2>1. /\ metadata \in Metadata /\ parts \in PartsSet /\ Encodable(metadata, parts)
        /\ OnTheWay(output) /\ "Ok" \in ParseErrors(output, parts) /\ received = output
    BY CodecAssumption DEF CodecInv
  <2>2. /\ output \in AnyFrames /\ FrameBytes(output) <= Len(output.body)
        /\ FrameBytes(output) \in Int /\ ~NonzeroFinalPadding(output)
    BY <2>1, AcceptedPassesChecks DEF OnTheWay
  <2>3. /\ f \in AnyFrames /\ f.metadata = metadata /\ Len(f.body) = FrameBytes(f)
        /\ f.layout.body_length \in Nat
        /\ \A i \in 1..Len(f.body) : i > f.layout.body_length => f.body[i] = "zero"
    <3> DEFINE n == parts.transaction.length
               w == n + parts.writable * KEY_BYTES
               r == w + parts.readonly * KEY_BYTES
    <3>1. /\ f \in AnyFrames /\ f.metadata = metadata /\ Len(f.body) = FrameBytes(f)
          /\ f.layout.body_length = r
          /\ n \in Nat /\ w \in Nat /\ r \in Nat /\ n <= w /\ w <= r
          /\ \A i \in 1..Len(f.body) :
                f.body[i] = IF i <= n THEN "transaction" ELSE IF i <= w THEN "writable"
                            ELSE IF i <= r THEN "readonly" ELSE "zero"
      BY <2>1, EncodedFrame
    <3> HIDE DEF f, n, w, r
    <3>2. \A i \in 1..Len(f.body) : i > r => ~(i <= n) /\ ~(i <= w) /\ ~(i <= r)
      BY <3>1 DEF AnyFrames
    <3> QED BY <3>1, <3>2
  <2>4. /\ output.layout = f.layout
        /\ output.metadata.message_version = metadata.message_version
    <3>1. CASE SameBytes(output)
      BY <2>1, <2>2, <3>1, AcceptedFrameIsWhatWasEncoded DEF SameBytes
    <3>2. CASE OneByteDiffers(output)
      BY <3>2 DEF OneByteDiffers
    <3> QED BY <2>1, <3>1, <3>2 DEF OnTheWay
  <2> HIDE DEF f
  <2>5. FrameBytes(output) = Len(f.body) /\ Len(f.body) \in Nat
    BY <2>3, <2>4 DEF FrameBytes, AnyFrames
  <2>6. \/ ChangedBytes = {} /\ Cardinality(ChangedMetadata) <= 1
        \/ ChangedMetadata = {} /\ Cardinality(ChangedBytes) <= 1
    <3>1. CASE SameBytes(output) /\ OneFieldDiffers(output)
      <4>1. \A i \in 1..FrameBytes(output) : i \in 1..Len(output.body) /\ i <= Len(f.body)
        BY <2>2, <2>5 DEF AnyFrames
      <4>2. ChangedBytes = {}
        BY <2>1, <3>1, <4>1 DEF SameBytes, ChangedBytes, f
      <4>3. PICK field \in DOMAIN metadata :
               \A other \in DOMAIN metadata \ {field} : output.metadata[other] = metadata[other]
        BY <3>1 DEF OneFieldDiffers
      <4>4. ChangedMetadata \subseteq {field}
        BY <2>1, <4>3 DEF ChangedMetadata
      <4>5. IsFiniteSet({field}) /\ Cardinality({field}) = 1
        BY FS_Singleton
      <4> QED BY <4>2, <4>4, <4>5, FS_Subset
    <3>2. CASE OneByteDiffers(output)
      <4>1. ChangedMetadata = {}
        BY <2>1, <3>2 DEF OneByteDiffers, ChangedMetadata
      <4>2. PICK i \in 1..Len(f.body) : output.body = [f.body EXCEPT ![i] = "foreign"]
        BY <3>2 DEF OneByteDiffers, f
      <4>3. DOMAIN f.body = 1..Len(f.body)
        BY <2>3 DEF AnyFrames
      <4>4. ChangedBytes \subseteq {i}
        BY <2>1, <2>5, <4>2, <4>3 DEF ChangedBytes, f
      <4>5. IsFiniteSet({i}) /\ Cardinality({i}) = 1
        BY FS_Singleton
      <4>6. Cardinality(ChangedBytes) <= 1
        BY <4>4, <4>5, FS_Subset
      <4> QED BY <4>1, <4>6
    <3> QED BY <2>1, <3>1, <3>2 DEF OnTheWay
  <2>7. ChangedBytes \subseteq 1..output.layout.body_length
    <3>1. ASSUME NEW i \in 1..FrameBytes(output), i > output.layout.body_length
          PROVE  output.body[i] = f.body[i]
      <4>1. i \in (output.layout.body_length + 1)..FrameBytes(output)
        BY <2>3, <2>4, <2>5, <3>1
      <4> QED BY <2>2, <2>3, <2>4, <2>5, <3>1, <4>1 DEF NonzeroFinalPadding
    <3>2. output.layout.body_length \in Nat /\ FrameBytes(output) \in Nat
      BY <2>3, <2>4, <2>5
    <3> QED BY <2>1, <3>1, <3>2 DEF ChangedBytes, f
  <2>8. \A i \in 1..FrameBytes(output) : output.body[i] \in {f.body[i], "foreign"}
    <3>1. CASE SameBytes(output)
      <4>1. \A i \in 1..FrameBytes(output) : i \in 1..Len(output.body) /\ i <= Len(f.body)
        BY <2>2, <2>5 DEF AnyFrames
      <4> QED BY <3>1, <4>1 DEF SameBytes, f
    <3>2. CASE OneByteDiffers(output)
      <4>1. PICK i \in 1..Len(f.body) : output.body = [f.body EXCEPT ![i] = "foreign"]
        BY <3>2 DEF OneByteDiffers, f
      <4>2. DOMAIN f.body = 1..Len(f.body)
        BY <2>3 DEF AnyFrames
      <4> QED BY <2>5, <4>1, <4>2
    <3> QED BY <2>1, <3>1, <3>2 DEF OnTheWay
  <2>9. /\ TransactionBytes(output) \in
             [1..parts.transaction.length -> {"transaction", "foreign"}]
        /\ WritableBytes(output) \in
             [1..(parts.writable * KEY_BYTES) -> {"writable", "foreign"}]
        /\ ReadonlyBytes(output) \in
             [1..(parts.readonly * KEY_BYTES) -> {"readonly", "foreign"}]
    BY <2>1, <2>2, <2>4, <2>8, RegionsHoldTheirBytes DEF f
  <2> QED BY <2>1, <2>4, <2>6, <2>7, <2>9 DEF AcceptedIsAuthentic, f
<1> QED BY <1>1, CodecInvariance, PTL

-----------------------------------------------------------------------------
(* Sizes: the slot of a frame, the cap on decoded messages, the limits of  *)
(* raw and of encoded transactions.                                        *)

\* Within the range of a length prefix of at most three bytes, a field is at
\* most four bytes longer than what it holds.
LEMMA FieldOverhead ==
    ASSUME NEW n \in Nat
    PROVE  /\ FieldLength(n) \in Nat
           /\ FieldLength(n) <= n + 4
           /\ n < 16384 => FieldLength(n) <= n + 3
BY DEF FieldLength, VarintLength

\* What connect() asks of the cap.
LEMMA AcceptedCap ==
    ASSUME NEW config \in Configs, ~InvalidConfig(config)
    PROVE  config.max_message_bytes \in Nat /\ config.max_message_bytes >= 12300
<1>1. config.max_message_bytes \in Nat
  BY DEF Configs
<1>2. ~(config.max_message_bytes < 12300)
  BY DEF InvalidConfig
<1> QED BY <1>1, <1>2

\* connect() accepts no cap that a frame could exceed: whatever header passes
\* FrameHeaderV1::validate, the message that carries its frame is decoded
\* (lib.rs, the 12_300 of connect(); layout.rs, SLOT_STRIDE_BYTES).
THEOREM CanonicalMessageAlwaysFits ==
    ASSUME NEW config \in Configs, ~InvalidConfig(config),
           NEW m, NEW l \in Layouts, ValidateHeader(m, l) = "Ok",
           FRAME_HEADER_BYTES + FRAME_BODY_CAPACITY = 12288
    PROVE  ~Refused(config, CanonicalMessageLength(8 * l.atomic_word_count))
<1> DEFINE frame == 8 * l.atomic_word_count
<1>1. frame \in Nat
  BY DEF Layouts
<1>2. frame <= 12288
  <2>1. 1536 \in Nat /\ FRAME_HEADER_BYTES + FRAME_BODY_CAPACITY = 8 * 1536
    OBVIOUS
  <2> QED BY <2>1, FrameFitsSlot
<1>3. config.max_message_bytes >= 12300
  BY AcceptedCap
<1> HIDE DEF frame
<1>4. FieldLength(frame) <= 12291 /\ FieldLength(frame) \in Nat
  BY <1>1, <1>2, FieldOverhead
<1>5. config.max_message_bytes \in Nat
  BY DEF Configs
<1> QED BY <1>3, <1>4, <1>5 DEF Refused, CanonicalMessageLength, frame

\* Nor one that an unresolved transaction of the longest kind with the
\* longest reason could exceed (wire.rs, V1_RAW_LIMIT; observations.rs, 128).
THEOREM UnresolvedMessageAlwaysFits ==
    ASSUME NEW config \in Configs, ~InvalidConfig(config),
           NEW transaction \in 0..4096, NEW reason \in 0..128
    PROVE  ~Refused(config, UnresolvedMessageLength(transaction, reason))
<1> DEFINE t == FieldLength(transaction)
           r == FieldLength(reason)
<1>1. t \in Nat /\ t <= 4099
  <2>1. transaction \in Nat /\ transaction <= 4096
    OBVIOUS
  <2> HIDE DEF t
  <2>2. t \in Nat /\ t <= transaction + 3
    BY <2>1, FieldOverhead DEF t
  <2> QED BY <2>1, <2>2
<1>2. r \in Nat /\ r <= 131
  <2>1. reason \in Nat /\ reason <= 128
    OBVIOUS
  <2>2. r \in Nat /\ r <= reason + 3
    BY <2>1, FieldOverhead
  <2> HIDE DEF r
  <2> QED BY <2>1, <2>2
<1>3. UnresolvedMessageLength(transaction, reason) = FieldLength(33 + t + r)
  BY DEF UnresolvedMessageLength
<1>4. config.max_message_bytes \in Nat /\ config.max_message_bytes >= 12300
  BY AcceptedCap
<1> HIDE DEF t, r
<1>5. FieldLength(33 + t + r) \in Nat /\ FieldLength(33 + t + r) <= 4266
  <2>1. 33 + t + r \in Nat /\ 33 + t + r <= 4263
    BY <1>1, <1>2
  <2> QED BY <2>1, FieldOverhead
<1> QED BY <1>3, <1>4, <1>5 DEF Refused

\* A filter that rule() has accepted is never too long to send: 16 rules of 256
\* keys stay below the limit for requests (filter.rs, lib.rs from_channel()).
THEOREM AcceptedFilterCanBeSent ==
    ASSUME NEW rules \in 0..16, NEW keys \in 0..256
    PROVE  RequestLength(rules, keys) <= MAX_REQUEST_BYTES
<1> DEFINE rule == FieldLength(2 + keys * 34)
<1>1. FieldLength(32) = 34
  BY DEF FieldLength, VarintLength
<1>2. rule \in Nat /\ rule <= 8709
  <2>1. 2 + keys * 34 \in Nat /\ 2 + keys * 34 <= 8706
    OBVIOUS
  <2> QED BY <2>1, FieldOverhead
<1> HIDE DEF rule
<1>3. rules * rule <= 16 * 8709
  <2>1. rules * rule <= 16 * rule
    BY <1>2
  <2> QED BY <1>2, <2>1
<1> QED BY <1>1, <1>2, <1>3 DEF RequestLength, MAX_REQUEST_BYTES, rule

-----------------------------------------------------------------------------

\* The table of encoded limits is exact: each is the length of the longest
\* text of a transaction at the raw limit of its version, and no text of a
\* shorter one is longer (wire.rs, encoded_limit and raw_limit).
THEOREM EncodedLimitIsExact ==
    ASSUME LEGACY_V0_RAW_LIMIT = 1232, V1_RAW_LIMIT = 4096,
           NEW version \in WireVersions, NEW format \in TransactionFormats
    PROVE  /\ encoded_limit(version, format) = TextLength(format, raw_limit(version))
           /\ \A n \in Nat : validate_raw_size(version, n) =>
                 TextLength(format, n) <= encoded_limit(version, format)
<1> DEFINE limit == raw_limit(version)
<1>1. limit \in {1232, 4096} /\ (limit = 4096 <=> version = "V1")
  BY DEF raw_limit
<1>2. CASE format = "Raw"
  BY <1>2 DEF encoded_limit, TextLength, raw_limit, validate_raw_size
<1>3. CASE format = "Base64"
  <2>1. encoded_limit(version, format) = IF version = "V1" THEN 5464 ELSE 1644
    BY <1>3 DEF encoded_limit
  <2>2. \A n \in Nat : TextLength(format, n) = 4 * ((n + 2) \div 3)
    BY <1>3 DEF TextLength
  <2>3. \A n \in Nat : n <= limit =>
           4 * ((n + 2) \div 3) <= IF version = "V1" THEN 5464 ELSE 1644
    BY <1>1
  <2>4. 4 * ((limit + 2) \div 3) = IF version = "V1" THEN 5464 ELSE 1644
    BY <1>1
  <2> QED BY <1>1, <2>1, <2>2, <2>3, <2>4 DEF validate_raw_size
<1>4. CASE format = "Base58"
  <2>1. encoded_limit(version, format) = IF version = "V1" THEN 5594 ELSE 1683
    BY <1>4 DEF encoded_limit
  <2>2. \A n \in Nat : TextLength(format, n) = (13657 * n + 9999) \div 10000
    BY <1>4 DEF TextLength
  <2>3. \A n \in Nat : n <= limit =>
           (13657 * n + 9999) \div 10000 <= IF version = "V1" THEN 5594 ELSE 1683
    BY <1>1
  <2>4. (13657 * limit + 9999) \div 10000 = IF version = "V1" THEN 5594 ELSE 1683
    BY <1>1
  <2> QED BY <1>1, <2>1, <2>2, <2>3, <2>4 DEF validate_raw_size
<1> QED BY <1>2, <1>3, <1>4 DEF TransactionFormats

\* request_limit() is the exact sum whenever that fits into usize, and an
\* error otherwise: it never wraps, and never refuses a sum that fits.
THEOREM RequestLimitIsExact ==
    ASSUME MAX_USIZE \in Nat, NEW version \in WireVersions,
           NEW format \in TransactionFormats,
           NEW bundle_count \in Nat \ {0}, NEW fixed_overhead \in Nat
    PROVE  LET sum == encoded_limit(version, format) * bundle_count + fixed_overhead
               limit == request_limit(version, format, bundle_count, fixed_overhead)
           IN  limit = IF sum <= MAX_USIZE THEN sum ELSE "Overflow"
<1>1. encoded_limit(version, format) \in Nat
  BY WireAssumption DEF encoded_limit, TransactionFormats
<1> DEFINE payload == encoded_limit(version, format) * bundle_count
<1>2. payload \in Nat
  BY <1>1
<1>3. request_limit(version, format, bundle_count, fixed_overhead) =
         IF payload > MAX_USIZE THEN "Overflow"
         ELSE IF payload + fixed_overhead > MAX_USIZE THEN "Overflow"
         ELSE payload + fixed_overhead
  BY DEF request_limit
<1> HIDE DEF payload
<1>4. payload > MAX_USIZE => payload + fixed_overhead > MAX_USIZE
  BY <1>2
<1>5. payload + fixed_overhead <= MAX_USIZE <=> ~(payload + fixed_overhead > MAX_USIZE)
  BY <1>2
<1>6. request_limit(version, format, bundle_count, fixed_overhead) =
         IF payload + fixed_overhead <= MAX_USIZE THEN payload + fixed_overhead
         ELSE "Overflow"
  BY <1>3, <1>4, <1>5, Zenon
<1> QED BY <1>6 DEF payload

\* The size buckets draw the same lines as the limits: the first holds what
\* any version may be, the last what none may be (wire.rs, raw_size_bucket).
THEOREM BucketsFollowLimits ==
    ASSUME NEW n \in Nat
    PROVE  /\ raw_size_bucket(n) = "LegacyLimit" <=>
                 \A version \in WireVersions : validate_raw_size(version, n)
           /\ raw_size_bucket(n) = "Oversize" <=>
                 \A version \in WireVersions : ~validate_raw_size(version, n)
BY WireAssumption DEF raw_size_bucket, validate_raw_size, raw_limit, WireVersions

-----------------------------------------------------------------------------
(* The transaction parser.                                                 *)

\* Where a cursor can be.
Places == 0..Len(bytes) \cup {Bad}

\* The bound of a byte is a number, and so are the versions of a prefix.
LEMMA HighIsNumber == HIGH \in Nat /\ HIGH > 1 /\ 2 * HIGH \in Nat
BY WireAssumption

\* A read ends in the input or is bad; a good one starts at a good place.
LEMMA ReadEnds ==
    ASSUME bytes \in Seq(Byte), NEW o \in Places, NEW n \in Nat
    PROVE  /\ ReadBytesAt(o, n) \in Places
           /\ ReadBytesAt(o, n) # Bad => /\ o # Bad /\ o \in Nat
                                         /\ ReadBytesAt(o, n) = o + n
                                         /\ o + n <= Len(bytes)
           /\ o # Bad /\ o + n <= Len(bytes) => ReadBytesAt(o, n) = o + n
<1>1. Len(bytes) \in Nat
  OBVIOUS
<1> QED BY <1>1 DEF ReadBytesAt, Places, Bad

\* A byte that is read is a byte.
LEMMA ByteIsByte ==
    ASSUME bytes \in Seq(Byte), NEW o \in Places
    PROVE  ByteAt(o) \in Byte /\ ByteAt(o) \in Nat
<1>1. CASE ReadBytesAt(o, 1) = Bad
  BY <1>1, WireAssumption DEF ByteAt, Byte
<1>2. CASE ReadBytesAt(o, 1) # Bad
  <2>1. o \in Nat /\ o + 1 <= Len(bytes)
    BY <1>2, ReadEnds
  <2>2. o + 1 \in 1..Len(bytes)
    BY <2>1
  <2>3. bytes[o + 1] \in Byte
    BY <2>2
  <2> QED BY <1>2, <2>3, WireAssumption DEF ByteAt, Byte
<1> QED BY <1>1, <1>2

\* Bytes that are read are bytes, as many as were asked for.
LEMMA BytesAreBytes ==
    ASSUME bytes \in Seq(Byte), NEW o \in Places, NEW n \in Nat
    PROVE  /\ BytesAt(o, n) \in Seq(Byte)
           /\ ReadBytesAt(o, n) # Bad => Len(BytesAt(o, n)) = n
<1>1. CASE ReadBytesAt(o, n) = Bad
  BY <1>1 DEF BytesAt
<1>2. CASE ReadBytesAt(o, n) # Bad
  <2> DEFINE a == o + 1
             b == o + n
  <2>1. o \in Nat /\ o + n <= Len(bytes) /\ Len(bytes) \in Nat
    BY <1>2, ReadEnds
  <2>2. BytesAt(o, n) = SubSeq(bytes, a, b)
    BY <1>2 DEF BytesAt
  <2>3. /\ a \in Int /\ b \in Int
        /\ \A i \in a..b : bytes[i] \in Byte
    <3>1. \A i \in a..b : i \in 1..Len(bytes)
      BY <2>1
    <3> QED BY <2>1, <3>1
  <2>4. IF a <= b THEN b - a + 1 = n ELSE n = 0
    BY <2>1
  <2> HIDE DEF a, b
  <2>5. /\ SubSeq(bytes, a, b) \in Seq(Byte)
        /\ Len(SubSeq(bytes, a, b)) = IF a <= b THEN b - a + 1 ELSE 0
    BY <2>3, SubSeqProperties
  <2> QED BY <2>2, <2>4, <2>5
<1> QED BY <1>1, <1>2

\* A compact number that was read is a number, and one that starts at no good
\* place is not read.
LEMMA CompactIsRead ==
    ASSUME bytes \in Seq(Byte), NEW o \in Places
    PROVE  /\ ReadCompactAt(o).value \in Nat
           /\ ReadCompactAt(o).offset \in Places
           /\ ReadCompactAt(o).offset # Bad => o # Bad
<1> DEFINE first == ByteAt(o)
           second == ByteAt(ReadBytesAt(o, 1))
<1>1. /\ ReadBytesAt(o, 1) \in Places /\ ReadBytesAt(o, 2) \in Places
      /\ (ReadBytesAt(o, 1) # Bad => o # Bad) /\ (ReadBytesAt(o, 2) # Bad => o # Bad)
  BY ReadEnds
<1>2. first \in Nat /\ second \in Nat
  BY <1>1, ByteIsByte
<1>3. Bad \in Places
  BY DEF Places
<1>4. ReadCompactAt(o) =
          IF first < HIGH THEN [value |-> first, offset |-> ReadBytesAt(o, 1)]
          ELSE IF second = 0 \/ second >= HIGH THEN [value |-> 0, offset |-> Bad]
          ELSE [value |-> first - HIGH + second * HIGH, offset |-> ReadBytesAt(o, 2)]
  BY DEF ReadCompactAt
<1> HIDE DEF first, second
<1>5. CASE first < HIGH
  BY <1>1, <1>2, <1>4, <1>5
<1>6. CASE ~(first < HIGH) /\ (second = 0 \/ second >= HIGH)
  BY <1>3, <1>4, <1>6
<1>7. CASE ~(first < HIGH) /\ ~(second = 0 \/ second >= HIGH)
  <2>1. second * HIGH \in Nat
    BY <1>2, HighIsNumber
  <2>2. first - HIGH \in Nat
    BY <1>2, <1>7, HighIsNumber
  <2>3. first - HIGH + second * HIGH \in Nat
    BY <2>1, <2>2
  <2> QED BY <1>1, <1>4, <1>7, <2>3
<1> QED BY <1>5, <1>6, <1>7

-----------------------------------------------------------------------------
(* Numbers of several bytes.                                               *)

DigitStep(region) ==
    LET n == Len(region)
    IN  [i \in Nat |-> [v \in Nat |->
            IF i + 1 \in 1..n THEN region[n - (i + 1) + 1] + 2 * HIGH * v ELSE 0]]

\* A number of several bytes takes up one byte after the other, the last one
\* first.
LittleEndianDigits(region, number) ==
    \E value : /\ \A i \in Nat :
                     /\ value[i] \in Nat
                     /\ value[i] = IF i \in 1..Len(region)
                                   THEN region[Len(region) - i + 1] + 2 * HIGH * value[i - 1]
                                   ELSE 0
              /\ number = value[Len(region)]

\* So is a number of several bytes read.
LEMMA LittleEndianUnfolds ==
    ASSUME bytes \in Seq(Byte), NEW o \in Places, NEW width \in Nat
    PROVE  LittleEndianDigits(BytesAt(o, width), LittleEndianAt(o, width))
<1> DEFINE region == BytesAt(o, width)
           n == Len(region)
           step == DigitStep(region)
           Body(g) == [i \in Nat |-> IF i \in 1..n THEN region[n - i + 1] + 2 * HIGH * g[i - 1]
                                     ELSE 0]
<1>1. region \in Seq(Byte) /\ n \in Nat
  BY BytesAreBytes
<1>2. \A i \in 1..n : region[n - i + 1] \in Nat
  <2>1. \A i \in 1..n : n - i + 1 \in 1..n
    BY <1>1
  <2>2. \A i \in 1..n : region[i] \in Byte
    BY <1>1
  <2>3. Byte \subseteq Nat
    BY DEF Byte
  <2> QED BY <2>1, <2>2, <2>3
<1>3. LittleEndianAt(o, width) = (CHOOSE g : g = Body(g))[n]
  BY DEF LittleEndianAt
<1> HIDE DEF region, n
<1>4. step \in Steps(Nat)
  <2>1. \A i \in Nat, v \in Nat : i + 1 \in 1..n => region[n - (i + 1) + 1] + 2 * HIGH * v \in Nat
    <3>1. ASSUME NEW i \in Nat, NEW v \in Nat, i + 1 \in 1..n
          PROVE  region[n - (i + 1) + 1] + 2 * HIGH * v \in Nat
      <4>1. region[n - (i + 1) + 1] \in Nat
        BY <1>2, <3>1
      <4>2. 2 * HIGH * v \in Nat
        BY HighIsNumber
      <4> QED BY <4>1, <4>2
    <3> QED BY <3>1
  <2> QED BY <2>1 DEF Steps, DigitStep, n
<1>5. PICK f : SolvesAll(Nat, 0, step, f)
  <2> HIDE DEF step
  <2> QED BY <1>4, RecursionDefines
<1>6. f \in [Nat -> Nat] /\ f[0] = 0
  BY <1>5 DEF SolvesAll
<1>7. ASSUME NEW i \in Nat
      PROVE  f[i + 1] = IF i + 1 \in 1..n THEN region[n - (i + 1) + 1] + 2 * HIGH * f[i] ELSE 0
  <2>1. f[i + 1] = step[i][f[i]] /\ f[i] \in Nat
    BY <1>5 DEF SolvesAll
  <2> QED BY <2>1 DEF DigitStep, n
<1> HIDE DEF step
<1>8. f = Body(f)
  <2>1. f = [i \in Nat |-> f[i]]
    BY <1>6
  <2>2. ASSUME NEW i \in Nat
        PROVE  f[i] = IF i \in 1..n THEN region[n - i + 1] + 2 * HIGH * f[i - 1] ELSE 0
    <3>1. CASE i = 0
      <4>1. i \notin 1..n
        BY <3>1
      <4> QED BY <1>6, <3>1, <4>1
    <3>2. CASE i # 0
      <4>1. i - 1 \in Nat /\ i - 1 + 1 = i
        BY <3>2
      <4>2. f[i - 1 + 1] = IF i - 1 + 1 \in 1..n
                           THEN region[n - (i - 1 + 1) + 1] + 2 * HIGH * f[i - 1] ELSE 0
        BY <1>7, <4>1
      <4> QED BY <4>1, <4>2
    <3> QED BY <3>1, <3>2
  <2>3. \A i \in Nat : f[i] = Body(f)[i]
    BY <2>2
  <2> QED BY <2>1, <2>3
<1> DEFINE G == CHOOSE g : g = Body(g)
<1>9. G = Body(G)
  <2> HIDE DEF Body
  <2> QED BY <1>8
<1> DEFINE Numbers == {i \in Nat : G[i] \in Nat}
<1>10. \A i \in Nat : G[i] = IF i \in 1..n THEN region[n - i + 1] + 2 * HIGH * G[i - 1] ELSE 0
  <2> HIDE DEF G
  <2>1. \A i \in Nat : Body(G)[i] = IF i \in 1..n THEN region[n - i + 1] + 2 * HIGH * G[i - 1]
                                    ELSE 0
    OBVIOUS
  <2> HIDE DEF Body
  <2> QED BY <1>9, <2>1
<1> HIDE DEF G
<1>11. 0 \in Numbers
  <2>1. 0 \notin 1..n
    OBVIOUS
  <2> QED BY <1>10, <2>1
<1>12. ASSUME NEW i \in Numbers \cap Nat PROVE i + 1 \in Numbers
  <2>1. i + 1 \in Nat /\ i + 1 - 1 = i /\ G[i] \in Nat
    OBVIOUS
  <2>2. G[i + 1] = IF i + 1 \in 1..n THEN region[n - (i + 1) + 1] + 2 * HIGH * G[i] ELSE 0
    BY <1>10, <2>1
  <2>3. 2 * HIGH * G[i] \in Nat
    BY <2>1, HighIsNumber
  <2>4. G[i + 1] \in Nat
    BY <1>2, <2>2, <2>3
  <2> QED BY <2>1, <2>4
<1>13. Nat \subseteq Numbers
  <2> HIDE DEF Numbers
  <2> QED BY <1>11, <1>12, NaturalInduction
<1>14. \A i \in Nat :
          /\ G[i] \in Nat
          /\ G[i] = IF i \in 1..n THEN region[n - i + 1] + 2 * HIGH * G[i - 1] ELSE 0
  BY <1>10, <1>13
<1>15. LittleEndianAt(o, width) = G[n]
  BY <1>3 DEF G
<1> QED BY <1>14, <1>15 DEF LittleEndianDigits, n, region

\* A number of several bytes is a number.
LEMMA LittleEndianIsNumber ==
    ASSUME bytes \in Seq(Byte), NEW o \in Places, NEW width \in Nat
    PROVE  LittleEndianAt(o, width) \in Nat
<1>1. LittleEndianDigits(BytesAt(o, width), LittleEndianAt(o, width))
  BY LittleEndianUnfolds
<1>2. Len(BytesAt(o, width)) \in Nat
  BY BytesAreBytes
<1> QED BY <1>1, <1>2 DEF LittleEndianDigits

-----------------------------------------------------------------------------
(* The loops over instructions and lookups.                                *)

InstructionsRead ==
    [program_id_index : Byte, accounts : Seq(Byte), data : Seq(Byte),
     header_offset : Places, payload_offset : Places]

LookupsRead ==
    [account_key : Seq(Byte), writable_indexes : Seq(Byte), readonly_indexes : Seq(Byte),
     header_offset : Places, payload_offset : Places]

Cursors == [header_offset : Places, payload_offset : Places]

Turns == Cursors \cup InstructionsRead \cup LookupsRead

Kinds == {"Legacy", "V0", "V1", "Lookup"}

ItemsOfKind(kind) == IF kind = "Lookup" THEN LookupsRead ELSE InstructionsRead

\* Neither cursor leaves Bad, and the headers of V1 follow one another.
Advances(kind, item, header_offset, payload_offset) ==
    /\ item.header_offset # Bad => header_offset # Bad
    /\ kind # "V1" => item.payload_offset = 0
    /\ kind = "V1" => /\ item.payload_offset # Bad => payload_offset # Bad
                      /\ item.header_offset = ReadBytesAt(header_offset, 4)

\* A lookup table that is read.
LEMMA LookupIsRead ==
    ASSUME bytes \in Seq(Byte), NEW h \in Places
    PROVE  LookupAt(h) \in LookupsRead /\ Advances("Lookup", LookupAt(h), h, 0)
<1> DEFINE key == ReadBytesAt(h, PUBKEY_BYTES)
           writable == ReadCompactAt(key)
           behind == ReadBytesAt(writable.offset, writable.value)
           readonly == ReadCompactAt(behind)
<1>1. key \in Places /\ (key # Bad => h # Bad) /\ BytesAt(h, PUBKEY_BYTES) \in Seq(Byte)
  BY FormatAssumption, ReadEnds, BytesAreBytes
<1>2. /\ writable.value \in Nat /\ writable.offset \in Places
      /\ writable.offset # Bad => key # Bad
  <2> HIDE DEF key
  <2> QED BY <1>1, CompactIsRead
<1>3. /\ behind \in Places /\ (behind # Bad => writable.offset # Bad)
      /\ BytesAt(writable.offset, writable.value) \in Seq(Byte)
  <2> HIDE DEF writable
  <2> QED BY <1>2, ReadEnds, BytesAreBytes
<1>4. /\ readonly.value \in Nat /\ readonly.offset \in Places
      /\ readonly.offset # Bad => behind # Bad
  <2> HIDE DEF behind
  <2> QED BY <1>3, CompactIsRead
<1>5. /\ ReadBytesAt(readonly.offset, readonly.value) \in Places
      /\ ReadBytesAt(readonly.offset, readonly.value) # Bad => readonly.offset # Bad
      /\ BytesAt(readonly.offset, readonly.value) \in Seq(Byte)
  <2> HIDE DEF readonly
  <2> QED BY <1>4, ReadEnds, BytesAreBytes
<1>6. LookupAt(h) = [account_key |-> BytesAt(h, PUBKEY_BYTES),
                     writable_indexes |-> BytesAt(writable.offset, writable.value),
                     readonly_indexes |-> BytesAt(readonly.offset, readonly.value),
                     header_offset |-> ReadBytesAt(readonly.offset, readonly.value),
                     payload_offset |-> 0]
  BY DEF LookupAt
<1>7. 0 \in Places
  BY DEF Places
<1> HIDE DEF key, writable, behind, readonly
<1>8. LookupAt(h) \in LookupsRead
  BY <1>1, <1>3, <1>5, <1>6, <1>7 DEF LookupsRead
<1>9. LookupAt(h).header_offset # Bad => h # Bad
  BY <1>1, <1>2, <1>3, <1>4, <1>5, <1>6
<1> QED BY <1>6, <1>8, <1>9 DEF Advances

\* An instruction of the older formats that is read.
LEMMA LegacyInstructionIsRead ==
    ASSUME bytes \in Seq(Byte), NEW h \in Places, NEW kind \in {"Legacy", "V0"}
    PROVE  /\ LegacyInstructionAt(h) \in InstructionsRead
           /\ Advances(kind, LegacyInstructionAt(h), h, 0)
<1> DEFINE program == ReadBytesAt(h, 1)
           accounts == ReadCompactAt(program)
           behind == ReadBytesAt(accounts.offset, accounts.value)
           data == ReadCompactAt(behind)
<1>1. program \in Places /\ (program # Bad => h # Bad) /\ ByteAt(h) \in Byte
  BY ReadEnds, ByteIsByte
<1>2. /\ accounts.value \in Nat /\ accounts.offset \in Places
      /\ accounts.offset # Bad => program # Bad
  <2> HIDE DEF program
  <2> QED BY <1>1, CompactIsRead
<1>3. /\ behind \in Places /\ (behind # Bad => accounts.offset # Bad)
      /\ BytesAt(accounts.offset, accounts.value) \in Seq(Byte)
  <2> HIDE DEF accounts
  <2> QED BY <1>2, ReadEnds, BytesAreBytes
<1>4. /\ data.value \in Nat /\ data.offset \in Places /\ (data.offset # Bad => behind # Bad)
  <2> HIDE DEF behind
  <2> QED BY <1>3, CompactIsRead
<1>5. /\ ReadBytesAt(data.offset, data.value) \in Places
      /\ ReadBytesAt(data.offset, data.value) # Bad => data.offset # Bad
      /\ BytesAt(data.offset, data.value) \in Seq(Byte)
  <2> HIDE DEF data
  <2> QED BY <1>4, ReadEnds, BytesAreBytes
<1>6. LegacyInstructionAt(h) = [program_id_index |-> ByteAt(h),
                                accounts |-> BytesAt(accounts.offset, accounts.value),
                                data |-> BytesAt(data.offset, data.value),
                                header_offset |-> ReadBytesAt(data.offset, data.value),
                                payload_offset |-> 0]
  BY DEF LegacyInstructionAt
<1>7. 0 \in Places
  BY DEF Places
<1> HIDE DEF program, accounts, behind, data
<1>8. LegacyInstructionAt(h) \in InstructionsRead
  BY <1>1, <1>3, <1>5, <1>6, <1>7 DEF InstructionsRead
<1>9. LegacyInstructionAt(h).header_offset # Bad => h # Bad
  BY <1>1, <1>2, <1>3, <1>4, <1>5, <1>6
<1> QED BY <1>6, <1>8, <1>9 DEF Advances

\* An instruction of a V1 transaction that is read.
LEMMA V1InstructionIsRead ==
    ASSUME bytes \in Seq(Byte), NEW h \in Places, NEW p \in Places
    PROVE  /\ V1InstructionAt(h, p) \in InstructionsRead
           /\ Advances("V1", V1InstructionAt(h, p), h, p)
<1> DEFINE count == ByteAt(ReadBytesAt(h, 1))
           length == LittleEndianAt(ReadBytesAt(h, 2), 2)
           data == ReadBytesAt(p, count)
<1>1. /\ ReadBytesAt(h, 1) \in Places /\ ReadBytesAt(h, 2) \in Places
      /\ ReadBytesAt(h, 4) \in Places /\ (ReadBytesAt(h, 4) # Bad => h # Bad)
      /\ ByteAt(h) \in Byte
  BY ReadEnds, ByteIsByte
<1>2. count \in Nat /\ length \in Nat
  BY <1>1, ByteIsByte, LittleEndianIsNumber
<1>3. /\ data \in Places /\ (data # Bad => p # Bad) /\ BytesAt(p, count) \in Seq(Byte)
  <2> HIDE DEF count
  <2> QED BY <1>2, ReadEnds, BytesAreBytes
<1>4. /\ ReadBytesAt(data, length) \in Places /\ (ReadBytesAt(data, length) # Bad => data # Bad)
      /\ BytesAt(data, length) \in Seq(Byte)
  <2> HIDE DEF data, length
  <2> QED BY <1>2, <1>3, ReadEnds, BytesAreBytes
<1>5. V1InstructionAt(h, p) = [program_id_index |-> ByteAt(h),
                               accounts |-> BytesAt(p, count),
                               data |-> BytesAt(data, length),
                               header_offset |-> ReadBytesAt(h, 4),
                               payload_offset |-> ReadBytesAt(data, length)]
  BY DEF V1InstructionAt
<1> HIDE DEF count, length, data
<1>6. V1InstructionAt(h, p) \in InstructionsRead
  BY <1>1, <1>3, <1>4, <1>5 DEF InstructionsRead
<1> QED BY <1>1, <1>3, <1>4, <1>5, <1>6 DEF Advances

\* An item that is read, of any kind.
LEMMA ItemIsRead ==
    ASSUME bytes \in Seq(Byte), NEW kind \in Kinds, NEW h \in Places, NEW p \in Places
    PROVE  ItemAt(kind, h, p) \in ItemsOfKind(kind) /\ Advances(kind, ItemAt(kind, h, p), h, p)
<1>1. CASE kind = "Lookup"
  BY <1>1, LookupIsRead DEF ItemAt, ItemsOfKind, Advances
<1>2. CASE kind = "V1"
  BY <1>2, V1InstructionIsRead DEF ItemAt, ItemsOfKind
<1>3. CASE kind \in {"Legacy", "V0"}
  BY <1>3, LegacyInstructionIsRead DEF ItemAt, ItemsOfKind, Advances
<1> QED BY <1>1, <1>2, <1>3 DEF Kinds

LoopStep(kind) ==
    [n \in Nat |-> [turn \in Turns |-> ItemAt(kind, turn.header_offset, turn.payload_offset)]]

\* The turns of a loop over items of one kind, from its first cursors on.
LoopTurnsFrom(kind, h, p, turn) ==
    /\ turn[0] = [header_offset |-> h, payload_offset |-> p]
    /\ \A n \in Nat :
          turn[n + 1] = ItemAt(kind, turn[n].header_offset, turn[n].payload_offset)

LoopRuns(kind, h, p, turn) ==
    /\ LoopTurnsFrom(kind, h, p, turn)
    /\ \A n \in Nat :
          /\ turn[n].header_offset \in Places /\ turn[n].payload_offset \in Places
          /\ turn[n + 1] \in ItemsOfKind(kind)
          /\ Advances(kind, turn[n + 1], turn[n].header_offset, turn[n].payload_offset)

\* Each turn of a loop starts where the one before has left the cursors.
LEMMA LoopTurns ==
    ASSUME bytes \in Seq(Byte), NEW kind \in Kinds, NEW h \in Places, NEW p \in Places
    PROVE  LoopTurnsFrom(kind, h, p, Loop(kind, h, p))
<1> DEFINE first == [header_offset |-> h, payload_offset |-> p]
           step == LoopStep(kind)
           Read(t) == ItemAt(kind, t.header_offset, t.payload_offset)
           Body(g) == [n \in Nat |-> IF n = 0 THEN first ELSE Read(g[n - 1])]
<1>1. first \in Turns
  BY DEF Turns, Cursors
<1>2. \A t \in Turns : Read(t) \in Turns
  <2> SUFFICES ASSUME NEW t \in Turns PROVE Read(t) \in Turns
    OBVIOUS
  <2>1. t.header_offset \in Places /\ t.payload_offset \in Places
    BY DEF Turns, Cursors, InstructionsRead, LookupsRead
  <2>2. Read(t) \in ItemsOfKind(kind)
    BY <2>1, ItemIsRead
  <2> QED BY <2>2 DEF ItemsOfKind, Turns
<1>3. step \in Steps(Turns)
  <2> DEFINE T == Turns
  <2>1. \A t \in T : Read(t) \in T
    BY <1>2
  <2>2. step = [n \in Nat |-> [t \in T |-> Read(t)]]
    BY DEF LoopStep
  <2> HIDE DEF T, Read, step
  <2>3. step \in [Nat -> [T -> T]]
    BY <2>1, <2>2
  <2> QED BY <2>3 DEF Steps, T
<1>4. PICK f : SolvesAll(Turns, first, step, f)
  <2> HIDE DEF step, first
  <2> QED BY <1>1, <1>3, RecursionDefines
<1>5. f \in [Nat -> Turns] /\ f[0] = first
  BY <1>4 DEF SolvesAll
<1>6. \A n \in Nat : f[n + 1] = Read(f[n])
  <2> SUFFICES ASSUME NEW n \in Nat PROVE f[n + 1] = Read(f[n])
    OBVIOUS
  <2>1. f[n + 1] = step[n][f[n]] /\ f[n] \in Turns
    BY <1>4 DEF SolvesAll
  <2> QED BY <2>1 DEF LoopStep
<1> HIDE DEF step, first, Read
<1>7. f = Body(f)
  <2>1. f = [n \in Nat |-> f[n]]
    BY <1>5
  <2>2. ASSUME NEW n \in Nat PROVE f[n] = IF n = 0 THEN first ELSE Read(f[n - 1])
    <3>1. CASE n = 0
      BY <1>5, <3>1
    <3>2. CASE n # 0
      <4>1. n - 1 \in Nat /\ n - 1 + 1 = n
        BY <3>2
      <4>2. f[n - 1 + 1] = Read(f[n - 1])
        BY <1>6, <4>1
      <4> QED BY <3>2, <4>1, <4>2
    <3> QED BY <3>1, <3>2
  <2>3. \A n \in Nat : f[n] = Body(f)[n]
    BY <2>2
  <2> QED BY <2>1, <2>3
<1> DEFINE G == CHOOSE g : g = Body(g)
<1>8. Loop(kind, h, p) = G
  BY DEF Loop, Read, first
<1>9. G = Body(G)
  <2> HIDE DEF Body
  <2> QED BY <1>7
<1> HIDE DEF G
<1>10. \A n \in Nat : G[n] = IF n = 0 THEN first ELSE Read(G[n - 1])
  <2>1. \A n \in Nat : Body(G)[n] = IF n = 0 THEN first ELSE Read(G[n - 1])
    OBVIOUS
  <2> HIDE DEF Body
  <2> QED BY <1>9, <2>1
<1>11. G[0] = first
  BY <1>10
<1>12. \A n \in Nat : G[n + 1] = Read(G[n])
  <2> SUFFICES ASSUME NEW n \in Nat PROVE G[n + 1] = Read(G[n])
    OBVIOUS
  <2>1. n + 1 \in Nat /\ n + 1 # 0 /\ n + 1 - 1 = n
    OBVIOUS
  <2> QED BY <1>10, <2>1
<1> QED BY <1>8, <1>11, <1>12 DEF LoopTurnsFrom, first, Read

\* A loop has read items of its kind at every turn, and its cursors do not
\* come back from a bad place.
LEMMA LoopReads ==
    ASSUME bytes \in Seq(Byte), NEW kind \in Kinds, NEW h \in Places, NEW p \in Places
    PROVE  LoopRuns(kind, h, p, Loop(kind, h, p))
<1> DEFINE turn == Loop(kind, h, p)
           Good == {n \in Nat : turn[n].header_offset \in Places
                                /\ turn[n].payload_offset \in Places}
<1>1. LoopTurnsFrom(kind, h, p, turn)
  BY LoopTurns
<1> HIDE DEF turn
<1>2. 0 \in Good
  BY <1>1 DEF LoopTurnsFrom
<1>3. ASSUME NEW n \in Good \cap Nat
      PROVE  /\ n + 1 \in Good /\ turn[n + 1] \in ItemsOfKind(kind)
             /\ Advances(kind, turn[n + 1], turn[n].header_offset, turn[n].payload_offset)
  <2>1. turn[n].header_offset \in Places /\ turn[n].payload_offset \in Places
    OBVIOUS
  <2>2. /\ turn[n + 1] \in ItemsOfKind(kind)
        /\ Advances(kind, turn[n + 1], turn[n].header_offset, turn[n].payload_offset)
    BY <1>1, <2>1, ItemIsRead DEF LoopTurnsFrom
  <2>3. turn[n + 1].header_offset \in Places /\ turn[n + 1].payload_offset \in Places
    BY <2>2 DEF ItemsOfKind, InstructionsRead, LookupsRead
  <2> QED BY <2>2, <2>3
<1>4. Nat \subseteq Good
  <2> HIDE DEF Good
  <2> QED BY <1>2, <1>3, NaturalInduction
<1>5. \A n \in Nat : /\ turn[n].header_offset \in Places /\ turn[n].payload_offset \in Places
                     /\ turn[n + 1] \in ItemsOfKind(kind)
                     /\ Advances(kind, turn[n + 1], turn[n].header_offset,
                                 turn[n].payload_offset)
  BY <1>3, <1>4
<1> QED BY <1>1, <1>5 DEF LoopRuns, turn

\* So does the loop over the instructions of V1.
LEMMA V1LoopRuns ==
    ASSUME bytes \in Seq(Byte), NEW h \in Places, NEW p \in Places
    PROVE  LoopRuns("V1", h, p, Loop("V1", h, p))
BY LoopReads DEF Kinds

\* So does the loop over lookups, which has no payloads.
LEMMA LookupLoopRuns ==
    ASSUME bytes \in Seq(Byte), NEW h \in Places
    PROVE  LoopRuns("Lookup", h, 0, Loop("Lookup", h, 0))
<1>1. 0 \in Places /\ "Lookup" \in Kinds
  BY DEF Places, Kinds
<1> QED BY <1>1, LoopReads

\* The cursor of a loop that has not failed has not failed before.
LEMMA HeadersStayGood ==
    ASSUME bytes \in Seq(Byte), NEW kind \in Kinds, NEW h \in Places, NEW p \in Places,
           NEW n \in Nat, Loop(kind, h, p)[n].header_offset # Bad
    PROVE  \A i \in 0..n : Loop(kind, h, p)[i].header_offset # Bad
<1> DEFINE turn == Loop(kind, h, p)
           Good == {i \in Nat : i <= n => turn[n - i].header_offset # Bad}
<1>1. \A i \in Nat : Advances(kind, turn[i + 1], turn[i].header_offset, turn[i].payload_offset)
  BY LoopReads DEF LoopRuns
<1> HIDE DEF turn
<1>2. 0 \in Good
  BY DEF turn
<1>3. ASSUME NEW i \in Good \cap Nat PROVE i + 1 \in Good
  <2> SUFFICES ASSUME i + 1 <= n PROVE turn[n - (i + 1)].header_offset # Bad
    OBVIOUS
  <2>1. n - (i + 1) \in Nat /\ n - (i + 1) + 1 = n - i /\ i <= n
    OBVIOUS
  <2>2. turn[n - i].header_offset # Bad
    BY <2>1
  <2> QED BY <1>1, <2>1, <2>2 DEF Advances
<1>4. Nat \subseteq Good
  <2> HIDE DEF Good
  <2> QED BY <1>2, <1>3, NaturalInduction
<1>5. ASSUME NEW i \in 0..n PROVE turn[i].header_offset # Bad
  <2>1. n - i \in Nat /\ n - i <= n /\ n - (n - i) = i
    OBVIOUS
  <2>2. n - i \in Good
    BY <1>4, <2>1
  <2> QED BY <2>1, <2>2
<1> QED BY <1>5 DEF turn

\* So it is with the payloads of V1.
LEMMA PayloadsStayGood ==
    ASSUME bytes \in Seq(Byte), NEW h \in Places, NEW p \in Places,
           NEW n \in Nat, Loop("V1", h, p)[n].payload_offset # Bad
    PROVE  \A i \in 0..n : Loop("V1", h, p)[i].payload_offset # Bad
<1> DEFINE turn == Loop("V1", h, p)
           Good == {i \in Nat : i <= n => turn[n - i].payload_offset # Bad}
<1>1. \A i \in Nat : Advances("V1", turn[i + 1], turn[i].header_offset, turn[i].payload_offset)
  BY V1LoopRuns DEF LoopRuns
<1> HIDE DEF turn
<1>2. 0 \in Good
  BY DEF turn
<1>3. ASSUME NEW i \in Good \cap Nat PROVE i + 1 \in Good
  <2> SUFFICES ASSUME i + 1 <= n PROVE turn[n - (i + 1)].payload_offset # Bad
    OBVIOUS
  <2>1. n - (i + 1) \in Nat /\ n - (i + 1) + 1 = n - i /\ i <= n
    OBVIOUS
  <2>2. turn[n - i].payload_offset # Bad
    BY <2>1
  <2> QED BY <1>1, <2>1, <2>2 DEF Advances
<1>4. Nat \subseteq Good
  <2> HIDE DEF Good
  <2> QED BY <1>2, <1>3, NaturalInduction
<1>5. ASSUME NEW i \in 0..n PROVE turn[i].payload_offset # Bad
  <2>1. n - i \in Nat /\ n - i <= n /\ n - (n - i) = i
    OBVIOUS
  <2>2. n - i \in Good
    BY <1>4, <2>1
  <2> QED BY <2>1, <2>2
<1> QED BY <1>5 DEF turn

\* The headers of V1 take four bytes each.
LEMMA HeadersFollow ==
    ASSUME bytes \in Seq(Byte), NEW h \in Places, NEW p \in Places,
           NEW n \in Nat, h # Bad, h + 4 * n <= Len(bytes)
    PROVE  \A i \in 0..n : /\ Loop("V1", h, p)[i].header_offset = h + 4 * i
                           /\ Loop("V1", h, p)[i].header_offset # Bad
<1> DEFINE turn == Loop("V1", h, p)
           Good == {i \in Nat : i <= n => turn[i].header_offset = h + 4 * i}
<1>1. /\ turn[0] = [header_offset |-> h, payload_offset |-> p]
      /\ \A i \in Nat : /\ turn[i].header_offset \in Places
                        /\ turn[i + 1].header_offset = ReadBytesAt(turn[i].header_offset, 4)
  <2>1. /\ turn[0] = [header_offset |-> h, payload_offset |-> p]
        /\ \A i \in Nat : /\ turn[i].header_offset \in Places
                          /\ Advances("V1", turn[i + 1], turn[i].header_offset,
                                      turn[i].payload_offset)
    BY V1LoopRuns DEF LoopRuns, LoopTurnsFrom
  <2> HIDE DEF turn
  <2> QED BY <2>1 DEF Advances
<1>2. h \in Nat /\ Len(bytes) \in Nat
  BY DEF Places
<1> HIDE DEF turn
<1>3. 0 \in Good
  <2>1. turn[0].header_offset = h
    BY <1>1
  <2>2. h = h + 4 * 0
    BY <1>2
  <2> QED BY <2>1, <2>2
<1>4. ASSUME NEW i \in Good \cap Nat PROVE i + 1 \in Good
  <2> SUFFICES ASSUME i + 1 <= n PROVE turn[i + 1].header_offset = h + 4 * (i + 1)
    OBVIOUS
  <2> DEFINE o == turn[i].header_offset
  <2>1. o = h + 4 * i /\ o + 4 <= Len(bytes) /\ o # Bad
    BY <1>2 DEF Bad
  <2>2. o \in Places /\ turn[i + 1].header_offset = ReadBytesAt(o, 4)
    BY <1>1
  <2> HIDE DEF o
  <2>3. ReadBytesAt(o, 4) = o + 4
    BY <2>1, <2>2, ReadEnds
  <2> QED BY <1>2, <2>1, <2>2, <2>3
<1>5. Nat \subseteq Good
  <2> HIDE DEF Good
  <2> QED BY <1>3, <1>4, NaturalInduction
<1>6. ASSUME NEW i \in 0..n PROVE turn[i].header_offset = h + 4 * i /\ turn[i].header_offset # Bad
  <2>1. i \in Nat /\ i <= n
    OBVIOUS
  <2>2. turn[i].header_offset = h + 4 * i
    BY <1>5, <2>1
  <2> QED BY <1>2, <2>2 DEF Bad
<1> QED BY <1>6 DEF turn

-----------------------------------------------------------------------------
(* What an accepted view says.                                             *)

LoopOverInstructions(v) ==
    Loop(v.message_version, v.instructions_offset, v.instruction_payloads_offset)

LoopOverLookups(v) == Loop("Lookup", v.address_table_lookups_offset, 0)

\* The offsets and counts of a view lead both loops through the input, and it
\* holds what they have read.
Traversable(v) ==
    /\ v.message_version \in WireVersions
    /\ v.num_instructions \in Nat /\ v.num_address_table_lookups \in Nat
    /\ v.instructions_offset \in Places /\ v.instruction_payloads_offset \in Places
    /\ v.address_table_lookups_offset \in Places
    /\ v.instructions = Items(LoopOverInstructions(v), v.num_instructions)
    /\ v.lookups = Items(LoopOverLookups(v), v.num_address_table_lookups)
    /\ \A i \in 0..v.num_instructions :
          /\ LoopOverInstructions(v)[i].header_offset # Bad
          /\ LoopOverInstructions(v)[i].payload_offset # Bad
    /\ \A i \in 0..v.num_address_table_lookups : LoopOverLookups(v)[i].header_offset # Bad

\* The numbers of a view that are bytes.
BytesInView(v) ==
    {v.num_signatures, v.num_required_signatures, v.num_readonly_signed_static_accounts,
     v.num_readonly_unsigned_static_accounts, v.num_static_account_keys}

\* Products of sizes and counts are numbers.
LEMMA ProductIsNumber ==
    ASSUME NEW m \in Nat, NEW n \in Nat
    PROVE  m * n \in Nat
OBVIOUS

\* No lookup is read where none is there.
LEMMA NoLookupsRead ==
    ASSUME bytes \in Seq(Byte), NEW i \in 0..0
    PROVE  Loop("Lookup", 0, 0)[i].header_offset # Bad
<1>1. 0 \in Places /\ 0 # Bad /\ i = 0
  BY DEF Places, Bad
<1>2. Loop("Lookup", 0, 0)[0] = [header_offset |-> 0, payload_offset |-> 0]
  BY <1>1, LookupLoopRuns DEF LoopRuns, LoopTurnsFrom
<1> QED BY <1>1, <1>2

\* In the older formats there are no payloads apart from the headers.
LEMMA NoPayloads ==
    ASSUME bytes \in Seq(Byte), NEW kind \in {"Legacy", "V0"}, NEW h \in Places
    PROVE  \A n \in Nat : Loop(kind, h, 0)[n].payload_offset = 0
<1> DEFINE turn == Loop(kind, h, 0)
<1>1. 0 \in Places /\ kind \in Kinds /\ kind # "V1"
  BY DEF Places, Kinds
<1>2. /\ turn[0] = [header_offset |-> h, payload_offset |-> 0]
      /\ \A n \in Nat : Advances(kind, turn[n + 1], turn[n].header_offset,
                                 turn[n].payload_offset)
  <2>1. LoopRuns(kind, h, 0, turn)
    BY <1>1, LoopReads
  <2> HIDE DEF turn
  <2> QED BY <2>1 DEF LoopRuns, LoopTurnsFrom
<1> HIDE DEF turn
<1>3. \A n \in Nat : turn[n + 1].payload_offset = 0
  BY <1>1, <1>2 DEF Advances
<1>4. ASSUME NEW n \in Nat PROVE turn[n].payload_offset = 0
  <2>1. CASE n = 0
    BY <1>2, <2>1
  <2>2. CASE n # 0
    <3>1. n - 1 \in Nat /\ n - 1 + 1 = n
      BY <2>2
    <3>2. turn[n - 1 + 1].payload_offset = 0
      BY <1>3, <3>1
    <3> QED BY <3>1, <3>2
  <2> QED BY <2>1, <2>2
<1> QED BY <1>4 DEF turn

\* The cursor of an accepted transaction of the older formats has been in the
\* input all the time.
LEMMA SignatureFirstIsTraversable ==
    ASSUME bytes \in Seq(Byte), ViewSignatureFirst.end = Len(bytes)
    PROVE  /\ Traversable(ViewSignatureFirst)
           /\ BytesInView(ViewSignatureFirst) \subseteq Byte
<1> DEFINE v == ViewSignatureFirst
           num_signatures == ByteAt(0)
           prefix_offset  == ReadBytesAt(1, num_signatures * SIGNATURE_BYTES)
           prefix         == ByteAt(prefix_offset)
           version        == IF prefix < HIGH THEN "Legacy" ELSE "V0"
           header         == IF version = "V0" THEN ReadBytesAt(prefix_offset, 1)
                             ELSE prefix_offset
           num_keys       == ByteAt(ReadBytesAt(header, 3))
           keys           == ReadBytesAt(header, 4)
           blockhash      == ReadBytesAt(keys, num_keys * PUBKEY_BYTES)
           behind_hash    == ReadBytesAt(blockhash, BLOCKHASH_BYTES)
           count          == ReadCompactAt(behind_hash)
           instruction    == Loop(version, count.offset, 0)
           behind         == instruction[count.value].header_offset
           num_lookups    == IF version = "V0" THEN ByteAt(behind) ELSE 0
           first_lookup   == IF version = "V0" THEN ReadBytesAt(behind, 1) ELSE 0
           lookup         == Loop("Lookup", first_lookup, 0)
<1>1. /\ v.message_version = version
      /\ v.num_signatures = num_signatures
      /\ v.num_required_signatures = ByteAt(header)
      /\ v.num_readonly_signed_static_accounts = ByteAt(ReadBytesAt(header, 1))
      /\ v.num_readonly_unsigned_static_accounts = ByteAt(ReadBytesAt(header, 2))
      /\ v.num_static_account_keys = num_keys
  BY ZenonT(60) DEF ViewSignatureFirst
<1>2. /\ v.num_instructions = count.value
      /\ v.instructions_offset = count.offset
      /\ v.instruction_payloads_offset = 0
      /\ v.num_address_table_lookups = num_lookups
      /\ v.address_table_lookups_offset = first_lookup
      /\ v.instructions = Items(instruction, count.value)
      /\ v.lookups = Items(lookup, num_lookups)
      /\ v.end = IF version = "V0" THEN lookup[num_lookups].header_offset ELSE behind
  BY ZenonT(60) DEF ViewSignatureFirst
<1>3. v.end # Bad
  BY DEF Bad
<1> HIDE DEF v
<1>4. 0 \in Places /\ num_signatures \in Byte /\ num_signatures \in Nat
  <2>1. 0 \in Places
    BY DEF Places
  <2> QED BY <2>1, ByteIsByte
<1>5. prefix_offset \in Places
  <2>1. num_signatures * SIGNATURE_BYTES \in Nat
    BY <1>4, WireAssumption, ProductIsNumber
  <2>2. CASE 1 \in Places
    <3> DEFINE size == num_signatures * SIGNATURE_BYTES
    <3> HIDE DEF size
    <3> QED BY <2>1, <2>2, ReadEnds DEF size
  <2>3. CASE 1 \notin Places
    <3>1. Len(bytes) = 0
      BY <2>3 DEF Places
    <3>2. prefix_offset = Bad
      <4> DEFINE size == num_signatures * SIGNATURE_BYTES
      <4>1. size \in Nat
        BY <2>1
      <4> HIDE DEF size
      <4>2. ~(1 + size <= Len(bytes))
        BY <3>1, <4>1
      <4> QED BY <4>2 DEF ReadBytesAt, size
    <3> HIDE DEF prefix_offset
    <3> QED BY <3>2 DEF Places
  <2> QED BY <2>2, <2>3
<1> HIDE DEF num_signatures, prefix_offset
<1>6. prefix \in Byte /\ version \in {"Legacy", "V0"}
  BY <1>5, ByteIsByte
<1> HIDE DEF prefix
<1>7. header \in Places
  <2>1. ReadBytesAt(prefix_offset, 1) \in Places
    BY <1>5, ReadEnds
  <2> QED BY <1>5, <2>1
<1> HIDE DEF version
<1> HIDE DEF header
<1>8. /\ ReadBytesAt(header, 1) \in Places /\ ReadBytesAt(header, 2) \in Places
      /\ ReadBytesAt(header, 3) \in Places /\ keys \in Places
  BY <1>7, ReadEnds
<1>9. /\ ByteAt(header) \in Byte /\ ByteAt(ReadBytesAt(header, 1)) \in Byte
      /\ ByteAt(ReadBytesAt(header, 2)) \in Byte /\ num_keys \in Byte /\ num_keys \in Nat
  BY <1>7, <1>8, ByteIsByte
<1> HIDE DEF num_keys, keys
<1>10. blockhash \in Places
  <2> DEFINE size == num_keys * PUBKEY_BYTES
  <2>1. size \in Nat
    BY <1>9, FormatAssumption, ProductIsNumber
  <2> HIDE DEF size
  <2> QED BY <1>8, <2>1, ReadEnds DEF size
<1> HIDE DEF blockhash
<1>11. behind_hash \in Places
  BY <1>10, FormatAssumption, ReadEnds
<1> HIDE DEF behind_hash
<1>12. count.value \in Nat /\ count.offset \in Places
  BY <1>11, CompactIsRead
<1> HIDE DEF count
<1>13. version \in Kinds /\ version \in WireVersions /\ version # "V1" /\ "Lookup" \in Kinds
  BY <1>6 DEF Kinds, WireVersions
<1>14. behind \in Places
  <2>1. LoopRuns(version, count.offset, 0, instruction)
    BY <1>4, <1>12, <1>13, LoopReads
  <2> HIDE DEF instruction
  <2> QED BY <1>12, <2>1 DEF LoopRuns
<1>15. /\ num_lookups \in Nat /\ first_lookup \in Places
       /\ first_lookup # Bad => behind # Bad \/ version = "Legacy"
  <2> HIDE DEF behind
  <2>1. ByteAt(behind) \in Nat /\ ReadBytesAt(behind, 1) \in Places
        /\ (ReadBytesAt(behind, 1) # Bad => behind # Bad)
    BY <1>14, ByteIsByte, ReadEnds
  <2> QED BY <1>4, <1>6, <2>1
<1>16. /\ behind # Bad
       /\ \A i \in 0..num_lookups : lookup[i].header_offset # Bad
  <2>1. CASE version = "V0"
    <3> HIDE DEF num_lookups, first_lookup
    <3>1. lookup[num_lookups].header_offset # Bad
      BY <1>2, <1>3, <2>1
    <3>2. \A i \in 0..num_lookups : lookup[i].header_offset # Bad
      BY <1>4, <1>13, <1>15, <3>1, HeadersStayGood
    <3>3. lookup[0] = [header_offset |-> first_lookup, payload_offset |-> 0]
      BY <1>15, LookupLoopRuns DEF LoopRuns, LoopTurnsFrom
    <3>4. 0 \in 0..num_lookups
      BY <1>15
    <3> HIDE DEF lookup, behind
    <3>5. first_lookup # Bad
      BY <3>2, <3>3, <3>4
    <3> QED BY <1>15, <2>1, <3>2, <3>5
  <2>2. CASE version = "Legacy"
    <3>1. num_lookups = 0 /\ first_lookup = 0
      BY <2>2
    <3>2. behind # Bad
      BY <1>2, <1>3, <2>2
    <3> HIDE DEF num_lookups, first_lookup, behind
    <3> QED BY <3>1, <3>2, NoLookupsRead
  <2> QED BY <1>6, <2>1, <2>2
<1>17. \A i \in 0..count.value : instruction[i].header_offset # Bad
  BY <1>4, <1>12, <1>13, <1>16, HeadersStayGood
<1>18. \A i \in 0..count.value : instruction[i].payload_offset # Bad
  <2>1. \A i \in Nat : instruction[i].payload_offset = 0
    BY <1>6, <1>12, NoPayloads
  <2>2. 0 # Bad /\ \A i \in 0..count.value : i \in Nat
    BY DEF Bad
  <2> HIDE DEF instruction
  <2> QED BY <2>1, <2>2
<1>19. LoopOverInstructions(v) = instruction /\ LoopOverLookups(v) = lookup
  BY <1>1, <1>2 DEF LoopOverInstructions, LoopOverLookups
<1> HIDE DEF instruction, lookup, num_lookups, first_lookup, behind
<1>20. Traversable(v)
  BY <1>1, <1>2, <1>4, <1>12, <1>13, <1>15, <1>16, <1>17, <1>18, <1>19 DEF Traversable
<1>21. BytesInView(v) \subseteq Byte
  BY <1>1, <1>4, <1>9 DEF BytesInView
<1> QED BY <1>20, <1>21 DEF v

\* The configuration that is skipped value by value is as long as the values
\* it has.
LEMMA ConfigIsSkipped ==
    ASSUME bytes \in Seq(Byte), NEW o \in Places, NEW mask
    PROVE  /\ ConfigOffset(o, mask, 4) \in Places
           /\ ConfigOffset(o, mask, 4) # Bad =>
                 /\ o # Bad
                 /\ ConfigOffset(o, mask, 3) =
                       o + SizeIf(HasPriorityFee(mask), U64_BYTES)
                         + SizeIf(HasBit(mask, 4), U32_BYTES)
                         + SizeIf(HasBit(mask, 8), U32_BYTES)
<1> DEFINE a == SizeIf(HasPriorityFee(mask), U64_BYTES)
           b == SizeIf(HasBit(mask, 4), U32_BYTES)
           c == SizeIf(HasBit(mask, 8), U32_BYTES)
           d == SizeIf(HasBit(mask, 16), U32_BYTES)
           fee == ReadBytesAt(o, a)
           cu == ReadBytesAt(fee, b)
           data == ReadBytesAt(cu, c)
           heap == ReadBytesAt(data, d)
<1>1. a \in Nat /\ b \in Nat /\ c \in Nat /\ d \in Nat
  BY FormatAssumption DEF SizeIf
<1>2. ConfigOffset(o, mask, 3) = data /\ ConfigOffset(o, mask, 4) = heap
  BY DEF ConfigOffset
<1> HIDE DEF a, b, c, d
<1>3. fee \in Places /\ (fee # Bad => o # Bad /\ o \in Nat /\ fee = o + a)
  BY <1>1, ReadEnds
<1> HIDE DEF fee
<1>4. cu \in Places /\ (cu # Bad => fee # Bad /\ cu = fee + b)
  BY <1>1, <1>3, ReadEnds
<1> HIDE DEF cu
<1>5. data \in Places /\ (data # Bad => cu # Bad /\ data = cu + c)
  BY <1>1, <1>4, ReadEnds
<1> HIDE DEF data
<1>6. heap \in Places /\ (heap # Bad => data # Bad)
  BY <1>1, <1>5, ReadEnds
<1> HIDE DEF heap
<1>7. heap # Bad => o # Bad /\ data = o + a + b + c
  BY <1>1, <1>3, <1>4, <1>5, <1>6
<1> QED BY <1>2, <1>6, <1>7 DEF a, b, c

\* Behind the end of the input a byte counts as zero.
LEMMA NothingBehindTheEnd ==
    ASSUME NEW n \in Nat, ~(n + 1 <= Len(bytes))
    PROVE  ByteAt(n) = 0
<1>1. ReadBytesAt(n, 1) = Bad
  BY DEF ReadBytesAt
<1> QED BY <1>1 DEF ByteAt

\* So it is with an accepted V1 transaction, whose configuration can be found
\* again from the start of its values.
LEMMA MessageFirstIsTraversable ==
    ASSUME bytes \in Seq(Byte), ViewMessageFirst.end = Len(bytes)
    PROVE  /\ Traversable(ViewMessageFirst)
           /\ BytesInView(ViewMessageFirst) \subseteq Byte
           /\ OffsetAfterLoadedAccountsDataSize(ViewMessageFirst) =
                 ConfigOffset(ViewMessageFirst.transaction_config_values_offset,
                              ViewMessageFirst.transaction_config_mask, 3)
<1> DEFINE v == ViewMessageFirst
           mask_offset    == ReadBytesAt(0, 4)
           mask           == LittleEndianAt(mask_offset, U32_BYTES)
           blockhash      == ReadBytesAt(mask_offset, U32_BYTES)
           counts         == ReadBytesAt(blockhash, BLOCKHASH_BYTES)
           num_instrs     == ByteAt(counts)
           num_keys       == ByteAt(ReadBytesAt(counts, 1))
           keys           == ReadBytesAt(counts, 2)
           config         == ReadBytesAt(keys, num_keys * PUBKEY_BYTES)
           headers        == ConfigOffset(config, mask, 4)
           payloads       == ReadBytesAt(headers, 4 * num_instrs)
           instruction    == Loop("V1", headers, payloads)
           signatures     == instruction[num_instrs].payload_offset
           num_signatures == ByteAt(1)
           lookup         == Loop("Lookup", 0, 0)
<1>1. /\ v.message_version = "V1"
      /\ v.num_signatures = num_signatures
      /\ v.num_required_signatures = num_signatures
      /\ v.num_readonly_signed_static_accounts = ByteAt(2)
      /\ v.num_readonly_unsigned_static_accounts = ByteAt(3)
      /\ v.num_static_account_keys = num_keys
      /\ v.transaction_config_mask = mask
      /\ v.transaction_config_values_offset = config
  BY ZenonT(60) DEF ViewMessageFirst
<1>2. /\ v.num_instructions = num_instrs
      /\ v.instructions_offset = headers
      /\ v.instruction_payloads_offset = payloads
      /\ v.num_address_table_lookups = 0
      /\ v.address_table_lookups_offset = 0
      /\ v.instructions = Items(instruction, num_instrs)
      /\ v.lookups = <<>>
      /\ v.end = ReadBytesAt(signatures, num_signatures * SIGNATURE_BYTES)
  BY ZenonT(60) DEF ViewMessageFirst
<1>3. v.end # Bad
  BY DEF Bad
<1> HIDE DEF v
<1>4. 0 \in Places /\ 0 \in Nat /\ 4 \in Nat /\ Bad \in Places
  BY DEF Places
<1>5. \A n \in Nat : ByteAt(n) \in Byte
  <2> SUFFICES ASSUME NEW n \in Nat PROVE ByteAt(n) \in Byte
    OBVIOUS
  <2>1. CASE n \in Places
    BY <2>1, ByteIsByte
  <2>2. CASE n \notin Places
    <3>1. ~(n + 1 <= Len(bytes))
      BY <2>2 DEF Places
    <3>2. ByteAt(n) = 0
      BY <3>1, NothingBehindTheEnd
    <3> QED BY <3>2, HighIsNumber DEF Byte
  <2> QED BY <2>1, <2>2
<1>6. mask_offset \in Places
  BY <1>4, ReadEnds
<1> HIDE DEF mask_offset, mask
<1>7. blockhash \in Places
  BY <1>6, FormatAssumption, ReadEnds
<1> HIDE DEF blockhash
<1>8. counts \in Places
  BY <1>7, FormatAssumption, ReadEnds
<1> HIDE DEF counts
<1>9. ReadBytesAt(counts, 1) \in Places /\ keys \in Places /\ num_instrs \in Nat
  BY <1>8, ReadEnds, ByteIsByte
<1>10. num_keys \in Byte /\ num_keys \in Nat /\ num_signatures \in Byte /\ num_signatures \in Nat
  <2>1. Byte \subseteq Nat
    BY DEF Byte
  <2> QED BY <1>5, <1>9, <2>1, ByteIsByte
<1> HIDE DEF num_keys, keys, num_instrs
<1>11. config \in Places
  <2> DEFINE size == num_keys * PUBKEY_BYTES
  <2>1. size \in Nat
    BY <1>10, FormatAssumption, ProductIsNumber
  <2> HIDE DEF size
  <2> QED BY <1>9, <2>1, ReadEnds DEF size
<1> HIDE DEF config
<1>12. /\ headers \in Places
       /\ headers # Bad => ConfigOffset(config, mask, 3) =
                              config + SizeIf(HasPriorityFee(mask), U64_BYTES)
                                     + SizeIf(HasBit(mask, 4), U32_BYTES)
                                     + SizeIf(HasBit(mask, 8), U32_BYTES)
  BY <1>11, ConfigIsSkipped
<1> HIDE DEF headers
<1>13. /\ payloads \in Places
       /\ payloads # Bad => headers # Bad /\ headers + 4 * num_instrs <= Len(bytes)
  <2> DEFINE size == 4 * num_instrs
  <2>1. size \in Nat
    BY <1>9
  <2> HIDE DEF size
  <2>2. /\ ReadBytesAt(headers, size) \in Places
        /\ ReadBytesAt(headers, size) # Bad => headers # Bad /\ headers + size <= Len(bytes)
    BY <1>12, <2>1, ReadEnds
  <2> QED BY <2>2 DEF size
<1> HIDE DEF payloads
<1>14. "V1" \in Kinds /\ "V1" \in WireVersions
  BY DEF Kinds, WireVersions
<1>15. /\ instruction[0] = [header_offset |-> headers, payload_offset |-> payloads]
       /\ signatures \in Places
  <2>1. "V1" \in Kinds /\ headers \in Places /\ payloads \in Places /\ num_instrs \in Nat
    BY <1>9, <1>12, <1>13, <1>14
  <2>2. LoopRuns("V1", headers, payloads, instruction)
    BY <2>1, V1LoopRuns
  <2> HIDE DEF instruction
  <2> QED BY <2>1, <2>2 DEF LoopRuns, LoopTurnsFrom
<1>16. signatures # Bad
  <2> DEFINE size == num_signatures * SIGNATURE_BYTES
  <2>1. size \in Nat
    BY <1>10, WireAssumption, ProductIsNumber
  <2>2. ReadBytesAt(signatures, size) # Bad
    BY <1>2, <1>3
  <2> HIDE DEF size, signatures
  <2> QED BY <1>15, <2>1, <2>2, ReadEnds
<1>17. \A i \in 0..num_instrs : instruction[i].payload_offset # Bad
  BY <1>9, <1>12, <1>13, <1>16, PayloadsStayGood
<1>18. payloads # Bad
  <2>1. 0 \in 0..num_instrs
    BY <1>9
  <2> QED BY <1>15, <1>17, <2>1
<1>19. \A i \in 0..num_instrs : instruction[i].header_offset # Bad
  BY <1>9, <1>12, <1>13, <1>18, HeadersFollow
<1>20. LoopOverInstructions(v) = instruction /\ LoopOverLookups(v) = lookup
  BY <1>1, <1>2 DEF LoopOverInstructions, LoopOverLookups
<1>21. v.lookups = Items(lookup, 0)
  BY <1>2 DEF Items
<1>22. \A i \in 0..0 : lookup[i].header_offset # Bad
  BY NoLookupsRead
<1> HIDE DEF instruction, lookup, signatures, num_signatures
<1>23. Traversable(v)
  BY <1>1, <1>2, <1>4, <1>9, <1>12, <1>13, <1>14, <1>17, <1>19, <1>20, <1>21, <1>22
     DEF Traversable
<1>24. BytesInView(v) \subseteq Byte
  BY <1>1, <1>5, <1>10 DEF BytesInView
<1>25. OffsetAfterLoadedAccountsDataSize(v) =
          ConfigOffset(v.transaction_config_values_offset, v.transaction_config_mask, 3)
  BY <1>1, <1>12, <1>13, <1>18
     DEF OffsetAfterLoadedAccountsDataSize, OffsetAfterComputeUnitLimit, OffsetAfterPriorityFee
<1> QED BY <1>23, <1>24, <1>25 DEF v

\* What is read depends on the input alone.
LEMMA SameBytesSameReading ==
    ASSUME bytes' = bytes
    PROVE  /\ ViewSignatureFirst' = ViewSignatureFirst
           /\ ViewMessageFirst' = ViewMessageFirst
           /\ \A v : Verdict(v)' = Verdict(v)
           /\ \A v : LoopOverInstructions(v)' = LoopOverInstructions(v)
           /\ \A v : LoopOverLookups(v)' = LoopOverLookups(v)
<1>1. \A o, n : ReadBytesAt(o, n)' = ReadBytesAt(o, n)
  BY DEF ReadBytesAt
<1>2. \A o : ByteAt(o)' = ByteAt(o)
  <2> TAKE o
  <2>1. bytes'[o + 1] = bytes[o + 1]
    OBVIOUS
  <2> QED BY <1>1, <2>1 DEF ByteAt
<1>3. \A o, n : BytesAt(o, n)' = BytesAt(o, n)
  BY <1>1 DEF BytesAt
<1>4. \A o, n : LittleEndianAt(o, n)' = LittleEndianAt(o, n)
  BY <1>3, ZenonT(60) DEF LittleEndianAt
<1>5. \A o : ReadCompactAt(o)' = ReadCompactAt(o)
  BY <1>1, <1>2 DEF ReadCompactAt
<1>6. \A h : LegacyInstructionAt(h)' = LegacyInstructionAt(h)
  BY <1>1, <1>2, <1>3, <1>5 DEF LegacyInstructionAt
<1>7. \A h, p : V1InstructionAt(h, p)' = V1InstructionAt(h, p)
  BY <1>1, <1>2, <1>3, <1>4 DEF V1InstructionAt
<1>8. \A h : LookupAt(h)' = LookupAt(h)
  BY <1>1, <1>3, <1>5 DEF LookupAt
<1>9. \A kind, h, p : ItemAt(kind, h, p)' = ItemAt(kind, h, p)
  BY <1>6, <1>7, <1>8 DEF ItemAt
<1>10. \A kind, h, p : Loop(kind, h, p)' = Loop(kind, h, p)
  BY <1>9 DEF Loop
<1>11. \A o, mask, n : ConfigOffset(o, mask, n)' = ConfigOffset(o, mask, n)
  BY <1>1 DEF ConfigOffset
<1>12. ViewSignatureFirst' = ViewSignatureFirst
  BY <1>1, <1>2, <1>5, <1>10, ZenonT(60) DEF ViewSignatureFirst, MinimumBytesMissing
<1>13. ViewMessageFirst' = ViewMessageFirst
  BY <1>1, <1>2, <1>4, <1>10, <1>11 DEF ViewMessageFirst
<1>14. \A v : InvalidHeapSize(v)' = InvalidHeapSize(v)
  BY <1>4, <1>11 DEF InvalidHeapSize
<1>15. \A v : Verdict(v)' = Verdict(v)
  BY <1>14 DEF Verdict
<1>16. \A v : LoopOverInstructions(v)' = LoopOverInstructions(v)
  BY <1>10 DEF LoopOverInstructions
<1>17. \A v : LoopOverLookups(v)' = LoopOverLookups(v)
  BY <1>10 DEF LoopOverLookups
<1> QED BY <1>12, <1>13, <1>15, <1>16, <1>17

-----------------------------------------------------------------------------
(* The accounts of a transaction.                                          *)

TogetherStep(n, loaded) ==
    [i \in Nat |-> [m \in Nat |-> IF i + 1 \in DOMAIN loaded THEN loaded[i + 1] + m ELSE n]]

\* A number of accounts is a number.
LEMMA TogetherIsNumber ==
    ASSUME NEW n \in Nat, NEW loaded \in Seq(Nat)
    PROVE  Together(n, loaded) \in Nat
<1> DEFINE step == TogetherStep(n, loaded)
           Body(g) == [i \in Nat |-> IF i \in DOMAIN loaded THEN loaded[i] + g[i - 1] ELSE n]
<1>1. \A i \in DOMAIN loaded : loaded[i] \in Nat
  OBVIOUS
<1>2. step \in Steps(Nat)
  BY <1>1 DEF Steps, TogetherStep
<1>3. PICK f : SolvesAll(Nat, n, step, f)
  <2> HIDE DEF step
  <2> QED BY <1>2, RecursionDefines
<1>4. f \in [Nat -> Nat] /\ f[0] = n
  BY <1>3 DEF SolvesAll
<1>5. ASSUME NEW i \in Nat
      PROVE  f[i + 1] = IF i + 1 \in DOMAIN loaded THEN loaded[i + 1] + f[i] ELSE n
  <2>1. f[i + 1] = step[i][f[i]] /\ f[i] \in Nat
    BY <1>3 DEF SolvesAll
  <2> QED BY <2>1 DEF TogetherStep
<1> HIDE DEF step
<1>6. 0 \notin DOMAIN loaded
  OBVIOUS
<1>7. f = Body(f)
  <2>1. f = [i \in Nat |-> f[i]]
    BY <1>4
  <2>2. ASSUME NEW i \in Nat
        PROVE  f[i] = IF i \in DOMAIN loaded THEN loaded[i] + f[i - 1] ELSE n
    <3>1. CASE i = 0
      BY <1>4, <1>6, <3>1
    <3>2. CASE i # 0
      <4>1. i - 1 \in Nat /\ i - 1 + 1 = i
        BY <3>2
      <4>2. f[i - 1 + 1] = IF i - 1 + 1 \in DOMAIN loaded THEN loaded[i - 1 + 1] + f[i - 1]
                           ELSE n
        BY <1>5, <4>1
      <4> QED BY <4>1, <4>2
    <3> QED BY <3>1, <3>2
  <2>3. \A i \in Nat : f[i] = Body(f)[i]
    BY <2>2
  <2> QED BY <2>1, <2>3
<1> DEFINE G == CHOOSE g : g = Body(g)
<1>8. G = Body(G)
  <2> HIDE DEF Body
  <2> QED BY <1>7
<1>9. Together(n, loaded) = G[Len(loaded)]
  BY DEF Together
<1> DEFINE Numbers == {i \in Nat : G[i] \in Nat}
<1>10. \A i \in Nat : G[i] = IF i \in DOMAIN loaded THEN loaded[i] + G[i - 1] ELSE n
  <2> HIDE DEF G
  <2>1. \A i \in Nat : Body(G)[i] = IF i \in DOMAIN loaded THEN loaded[i] + G[i - 1] ELSE n
    OBVIOUS
  <2> HIDE DEF Body
  <2> QED BY <1>8, <2>1
<1> HIDE DEF G
<1>11. 0 \in Numbers
  BY <1>6, <1>10
<1>12. ASSUME NEW i \in Numbers \cap Nat PROVE i + 1 \in Numbers
  <2>1. i + 1 \in Nat /\ i + 1 - 1 = i /\ G[i] \in Nat
    OBVIOUS
  <2>2. G[i + 1] = IF i + 1 \in DOMAIN loaded THEN loaded[i + 1] + G[i] ELSE n
    BY <1>10, <2>1
  <2>3. G[i + 1] \in Nat
    BY <1>1, <2>1, <2>2
  <2> QED BY <2>1, <2>3
<1>13. Nat \subseteq Numbers
  <2> HIDE DEF Numbers
  <2> QED BY <1>11, <1>12, NaturalInduction
<1>14. Len(loaded) \in Nat
  OBVIOUS
<1> QED BY <1>9, <1>13, <1>14

\* A difference that does not wrap.
LEMMA NoWrapping ==
    ASSUME NEW a \in Byte, NEW b \in Byte, b <= a
    PROVE  WrappingSub(a, b) = a - b
<1> DEFINE m == 2 * HIGH
           d == a - b
<1>1. m \in Nat /\ m > 0 /\ d \in Nat /\ d < m
  BY HighIsNumber DEF Byte
<1>2. WrappingSub(a, b) = d % m
  BY DEF WrappingSub
<1> HIDE DEF m, d
<1>3. d % m = d
  BY <1>1
<1> QED BY <1>2, <1>3 DEF d

\* A number without remainder is a multiple.
LEMMA MultipleIsProduct ==
    ASSUME NEW n \in Nat \ {0}, NEW unit \in Nat \ {0}, n % unit = 0
    PROVE  \E m \in 1..n : n = m * unit
<1> DEFINE m == n \div unit
<1>1. m \in Nat /\ n = unit * m
  OBVIOUS
<1> HIDE DEF m
<1>2. m # 0
  BY <1>1
<1>3. m <= n
  BY <1>1
<1> QED BY <1>1, <1>2, <1>3

-----------------------------------------------------------------------------
(* The states of the parser.                                               *)

\* A view is handed out when every rule of its format has passed, and it is
\* what has been read.
Accepted ==
    /\ bytes # <<>> /\ Verdict(view) = "Ok"
    /\ \/ /\ bytes[1] = V1_PREFIX /\ validate_raw_size("V1", Len(bytes))
          /\ view = ViewMessageFirst
       \/ /\ bytes[1] < HIGH /\ validate_raw_size("Legacy", Len(bytes))
          /\ view = ViewSignatureFirst

InstructionOf(item) ==
    [program_id_index |-> item.program_id_index, accounts |-> item.accounts, data |-> item.data]

LookupOf(item) ==
    [account_key |-> item.account_key, writable_indexes |-> item.writable_indexes,
     readonly_indexes |-> item.readonly_indexes]

\* An iterator that has handed out k items stands where the loop of try_new
\* has stood after as many, and it ends after the last.
InstructionsAfter(k, s) ==
    /\ instructions =
          [state |-> s, remaining |-> view.num_instructions - k,
           header_offset |-> LoopOverInstructions(view)[k].header_offset,
           payload_offset |-> LoopOverInstructions(view)[k].payload_offset]
    /\ read_instructions = [i \in 1..k |-> InstructionOf(view.instructions[i])]
    /\ s = "ended" => k = view.num_instructions

LookupsAfter(k, s) ==
    /\ lookups =
          [state |-> s, remaining |-> view.num_address_table_lookups - k,
           header_offset |-> LoopOverLookups(view)[k].header_offset,
           payload_offset |-> 0]
    /\ read_lookups = [i \in 1..k |-> LookupOf(view.lookups[i])]
    /\ s = "ended" => k = view.num_address_table_lookups

InstructionsInv ==
    \/ instructions = NoIterator /\ read_instructions = <<>>
    \/ /\ verdict = "Ok"
       /\ \E k \in 0..view.num_instructions, s \in {"open", "ended"} : InstructionsAfter(k, s)

LookupsInv ==
    \/ lookups = NoIterator /\ read_lookups = <<>>
    \/ /\ verdict = "Ok"
       /\ \E k \in 0..view.num_address_table_lookups, s \in {"open", "ended"} : LookupsAfter(k, s)

ViewInv ==
    /\ bytes \in Seq(Byte)
    /\ verdict \in {"Unread", "Ok", "Parse", "Sanitize", "UnsupportedVersion"}
    /\ verdict = "Ok" => Accepted
    /\ InstructionsInv
    /\ LookupsInv

\* An accepting verdict means that every rule has passed.
LEMMA OkPassesRules ==
    ASSUME NEW v, Verdict(v) = "Ok"
    PROVE  /\ ~v.malformed /\ v.end = Len(bytes)
           /\ ~InvalidHeader(v) /\ ~InvalidSignatures(v) /\ ~InvalidAccounts(v)
           /\ ~InvalidInstructions(v) /\ ~InvalidHeapSize(v)
BY DEF Verdict

\* Both loops can be gone through again from an accepted view.
LEMMA AcceptedIsTraversable ==
    ASSUME bytes \in Seq(Byte), Accepted
    PROVE  Traversable(view) /\ BytesInView(view) \subseteq Byte
<1>1. view.end = Len(bytes)
  BY OkPassesRules DEF Accepted
<1>2. CASE view = ViewMessageFirst
  BY <1>1, <1>2, MessageFirstIsTraversable
<1>3. CASE view = ViewSignatureFirst
  BY <1>1, <1>3, SignatureFirstIsTraversable
<1> QED BY <1>2, <1>3 DEF Accepted

\* Both loops run from the offsets of the view.
LEMMA ViewLoopsRun ==
    ASSUME bytes \in Seq(Byte), Traversable(view)
    PROVE  /\ LoopRuns(view.message_version, view.instructions_offset,
                       view.instruction_payloads_offset, LoopOverInstructions(view))
           /\ LoopRuns("Lookup", view.address_table_lookups_offset, 0, LoopOverLookups(view))
<1>1. /\ view.message_version \in Kinds
      /\ view.instructions_offset \in Places /\ view.instruction_payloads_offset \in Places
      /\ view.address_table_lookups_offset \in Places
  BY DEF Traversable, Kinds, WireVersions
<1> QED BY <1>1, LoopReads, LookupLoopRuns DEF LoopOverInstructions, LoopOverLookups

\* What the instruction iterator reads next is what try_new has read there.
LEMMA InstructionIsNext ==
    ASSUME bytes \in Seq(Byte), Traversable(view),
           NEW k \in Nat, k < view.num_instructions
    PROVE  LET turn == LoopOverInstructions(view)
           IN  /\ ItemAt(view.message_version, turn[k].header_offset, turn[k].payload_offset)
                     = turn[k + 1]
               /\ turn[k + 1].header_offset # Bad /\ turn[k + 1].payload_offset # Bad
               /\ view.instructions[k + 1] = turn[k + 1]
<1> DEFINE turn == LoopOverInstructions(view)
           n == view.num_instructions
<1>1. n \in Nat
  BY DEF Traversable
<1>2. turn[k + 1] = ItemAt(view.message_version, turn[k].header_offset, turn[k].payload_offset)
  BY ViewLoopsRun DEF LoopRuns, LoopTurnsFrom
<1>3. /\ view.instructions = Items(turn, n)
      /\ \A i \in 0..n : turn[i].header_offset # Bad /\ turn[i].payload_offset # Bad
  BY DEF Traversable
<1> HIDE DEF turn, n
<1>4. k + 1 \in 1..n /\ k + 1 \in 0..n
  BY <1>1 DEF n
<1>5. view.instructions[k + 1] = turn[k + 1]
  BY <1>3, <1>4 DEF Items
<1>6. turn[k + 1].header_offset # Bad /\ turn[k + 1].payload_offset # Bad
  BY <1>3, <1>4
<1> QED BY <1>2, <1>5, <1>6 DEF turn

\* So it is with the lookup iterator.
LEMMA LookupIsNext ==
    ASSUME bytes \in Seq(Byte), Traversable(view),
           NEW k \in Nat, k < view.num_address_table_lookups
    PROVE  LET turn == LoopOverLookups(view)
           IN  /\ ItemAt("Lookup", turn[k].header_offset, 0) = turn[k + 1]
               /\ turn[k + 1].header_offset # Bad /\ turn[k + 1].payload_offset = 0
               /\ view.lookups[k + 1] = turn[k + 1]
<1> DEFINE turn == LoopOverLookups(view)
           n == view.num_address_table_lookups
<1>1. n \in Nat
  BY DEF Traversable
<1>2. /\ turn[k + 1] = ItemAt("Lookup", turn[k].header_offset, turn[k].payload_offset)
      /\ Advances("Lookup", turn[k + 1], turn[k].header_offset, turn[k].payload_offset)
  BY ViewLoopsRun DEF LoopRuns, LoopTurnsFrom
<1>3. /\ view.lookups = Items(turn, n)
      /\ \A i \in 0..n : turn[i].header_offset # Bad
  BY DEF Traversable
<1> HIDE DEF turn, n
<1>4. k + 1 \in 1..n /\ k + 1 \in 0..n
  BY <1>1 DEF n
<1>5. view.lookups[k + 1] = turn[k + 1]
  BY <1>3, <1>4 DEF Items
<1>6. turn[k + 1].header_offset # Bad
  BY <1>3, <1>4
<1>7. turn[k + 1].payload_offset = 0
  BY <1>2 DEF Advances
<1>8. ItemAt("Lookup", turn[k].header_offset, 0) = turn[k + 1]
  BY <1>2 DEF ItemAt
<1> QED BY <1>5, <1>6, <1>7, <1>8 DEF turn

\* The invariant holds of every input.
LEMMA ViewInitIsGood == ViewInit => ViewInv
BY InputAssumption DEF ViewInit, ViewInv, InstructionsInv, LookupsInv

\* What has been accepted, and the iterators that do not step, stay as they
\* are.
LEMMA UntouchedViewStays ==
    ASSUME UNCHANGED <<bytes, verdict, view>>
    PROVE  /\ Accepted => Accepted'
           /\ InstructionsInv /\ UNCHANGED <<instructions, read_instructions>>
                 => InstructionsInv'
           /\ LookupsInv /\ UNCHANGED <<lookups, read_lookups>> => LookupsInv'
<1>1. /\ ViewSignatureFirst' = ViewSignatureFirst
      /\ ViewMessageFirst' = ViewMessageFirst
      /\ \A v : Verdict(v)' = Verdict(v)
      /\ \A v : LoopOverInstructions(v)' = LoopOverInstructions(v)
      /\ \A v : LoopOverLookups(v)' = LoopOverLookups(v)
  BY SameBytesSameReading
<1>2. Accepted => Accepted'
  BY <1>1 DEF Accepted
<1>3. InstructionsInv /\ UNCHANGED <<instructions, read_instructions>> => InstructionsInv'
  BY <1>1 DEF InstructionsInv, InstructionsAfter, NoIterator
<1>4. LookupsInv /\ UNCHANGED <<lookups, read_lookups>> => LookupsInv'
  BY <1>1 DEF LookupsInv, LookupsAfter, NoIterator
<1> QED BY <1>2, <1>3, <1>4

\* try_new accepts only what has passed, and no iterator is there yet.
LEMMA TryNewKeepsViewInv ==
    ASSUME ViewInv, TryNew
    PROVE  ViewInv'
<1>1. /\ verdict = "Unread" /\ bytes' = bytes
      /\ UNCHANGED <<instructions, lookups, read_instructions, read_lookups>>
  BY DEF TryNew, iterators
<1>2. InstructionsInv' /\ LookupsInv'
  BY <1>1 DEF ViewInv, InstructionsInv, LookupsInv, NoIterator
<1>3. /\ ViewSignatureFirst' = ViewSignatureFirst
      /\ ViewMessageFirst' = ViewMessageFirst
      /\ \A v : Verdict(v)' = Verdict(v)
  BY <1>1, SameBytesSameReading
<1>4. \A v : Verdict(v) \in {"Parse", "Sanitize", "Ok"}
  BY DEF Verdict
<1>5. /\ verdict' \in {"Unread", "Ok", "Parse", "Sanitize", "UnsupportedVersion"}
      /\ verdict' = "Ok" => Accepted'
  <2>1. CASE bytes = <<>>
    BY <2>1 DEF TryNew, Refuse
  <2>2. CASE bytes # <<>> /\ bytes[1] = V1_PREFIX
    <3>1. CASE validate_raw_size("V1", Len(bytes))
      <4>1. Judge(ViewMessageFirst)
        BY <2>2, <3>1 DEF TryNew
      <4> QED BY <1>1, <1>3, <1>4, <2>2, <3>1, <4>1 DEF Judge, Accepted
    <3>2. CASE ~validate_raw_size("V1", Len(bytes))
      BY <2>2, <3>2 DEF TryNew, Refuse
    <3> QED BY <3>1, <3>2
  <2>3. CASE bytes # <<>> /\ bytes[1] # V1_PREFIX
    <3>1. CASE bytes[1] >= HIGH
      BY <2>3, <3>1 DEF TryNew, Refuse
    <3>2. CASE ~(bytes[1] >= HIGH) /\ ~validate_raw_size("Legacy", Len(bytes))
      BY <2>3, <3>2 DEF TryNew, Refuse
    <3>3. CASE ~(bytes[1] >= HIGH) /\ validate_raw_size("Legacy", Len(bytes))
      <4>1. Judge(ViewSignatureFirst)
        BY <2>3, <3>3 DEF TryNew
      <4>2. bytes[1] \in Byte
        BY <2>3 DEF ViewInv
      <4>3. bytes[1] < HIGH
        BY <3>3, <4>2, HighIsNumber DEF Byte
      <4> QED BY <1>1, <1>3, <1>4, <2>3, <3>3, <4>1, <4>3 DEF Judge, Accepted
    <3> QED BY <3>1, <3>2, <3>3
  <2> QED BY <2>1, <2>2, <2>3
<1> QED BY <1>1, <1>2, <1>5 DEF ViewInv

\* Both loops start at the offsets of the view.
LEMMA LoopsStart ==
    ASSUME bytes \in Seq(Byte), Traversable(view)
    PROVE  /\ LoopOverInstructions(view)[0] =
                 [header_offset |-> view.instructions_offset,
                  payload_offset |-> view.instruction_payloads_offset]
           /\ LoopOverLookups(view)[0].header_offset = view.address_table_lookups_offset
           /\ view.num_instructions \in Nat /\ view.num_address_table_lookups \in Nat
<1>1. /\ LoopRuns(view.message_version, view.instructions_offset,
                  view.instruction_payloads_offset, LoopOverInstructions(view))
      /\ LoopRuns("Lookup", view.address_table_lookups_offset, 0, LoopOverLookups(view))
  BY ViewLoopsRun
<1>2. view.num_instructions \in Nat /\ view.num_address_table_lookups \in Nat
  BY DEF Traversable
<1> QED BY <1>1, <1>2 DEF LoopRuns, LoopTurnsFrom

\* The instruction iterator starts with the first instruction.
LEMMA InstructionsIterKeepsViewInv ==
    ASSUME ViewInv, InstructionsIter
    PROVE  ViewInv'
<1>1. /\ verdict = "Ok" /\ instructions.state = "none"
      /\ UNCHANGED <<bytes, verdict, view, lookups, read_instructions, read_lookups>>
  BY DEF InstructionsIter
<1>2. bytes \in Seq(Byte) /\ Accepted /\ InstructionsInv /\ LookupsInv
  BY <1>1 DEF ViewInv
<1>3. Traversable(view)
  BY <1>2, AcceptedIsTraversable
<1>4. read_instructions = <<>>
  BY <1>1, <1>2 DEF InstructionsInv, InstructionsAfter
<1>5. InstructionsAfter(0, "open")'
  <2>1. instructions' =
           [state |-> "open", remaining |-> view.num_instructions - 0,
            header_offset |-> LoopOverInstructions(view)[0].header_offset,
            payload_offset |-> LoopOverInstructions(view)[0].payload_offset]
    BY <1>2, <1>3, LoopsStart DEF InstructionsIter
  <2>2. \A v : LoopOverInstructions(v)' = LoopOverInstructions(v)
    BY <1>1, SameBytesSameReading
  <2>3. read_instructions = [i \in 1..0 |-> InstructionOf(view.instructions[i])]
    BY <1>4
  <2> QED BY <1>1, <2>1, <2>2, <2>3 DEF InstructionsAfter
<1>6. InstructionsInv'
  <2>1. 0 \in 0..view.num_instructions
    BY <1>2, <1>3, LoopsStart
  <2> QED BY <1>1, <1>5, <2>1 DEF InstructionsInv
<1>7. Accepted' /\ LookupsInv'
  BY <1>1, <1>2, UntouchedViewStays
<1> QED BY <1>1, <1>2, <1>6, <1>7 DEF ViewInv

\* It reads what try_new has read, up to the last instruction.
LEMMA NextInstructionKeepsViewInv ==
    ASSUME ViewInv, NextInstruction
    PROVE  ViewInv'
<1> DEFINE n == view.num_instructions
           turn == LoopOverInstructions(view)
           item == ItemAt(view.message_version, instructions.header_offset,
                          instructions.payload_offset)
<1>1. /\ instructions.state = "open"
      /\ UNCHANGED <<bytes, verdict, view, lookups, read_lookups>>
  BY DEF NextInstruction
<1>2. /\ bytes \in Seq(Byte) /\ InstructionsInv /\ LookupsInv /\ (verdict = "Ok" => Accepted)
      /\ verdict \in {"Unread", "Ok", "Parse", "Sanitize", "UnsupportedVersion"}
  BY DEF ViewInv
<1>3. PICK k \in 0..n, s \in {"open", "ended"} : InstructionsAfter(k, s)
  BY <1>1, <1>2 DEF InstructionsInv, NoIterator
<1>4. verdict = "Ok" /\ Accepted
  BY <1>1, <1>2 DEF InstructionsInv, NoIterator
<1>5. Traversable(view)
  BY <1>2, <1>4, AcceptedIsTraversable
<1>6. n \in Nat /\ k \in Nat
  BY <1>2, <1>5, LoopsStart
<1>7. /\ instructions.remaining = n - k
      /\ item = ItemAt(view.message_version, turn[k].header_offset, turn[k].payload_offset)
      /\ read_instructions = [i \in 1..k |-> InstructionOf(view.instructions[i])]
      /\ instructions = [state |-> "open", remaining |-> n - k,
                         header_offset |-> turn[k].header_offset,
                         payload_offset |-> turn[k].payload_offset]
  BY <1>1, <1>3 DEF InstructionsAfter
<1>8. \A v : LoopOverInstructions(v)' = LoopOverInstructions(v)
  BY <1>1, SameBytesSameReading
<1>9. ASSUME k = n PROVE InstructionsInv'
  <2>1. IsExhausted(instructions, {item.header_offset, item.payload_offset})
    BY <1>6, <1>7, <1>9 DEF IsExhausted
  <2>2. /\ instructions' = [instructions EXCEPT !.state = "ended"]
        /\ read_instructions' = read_instructions
    BY <2>1 DEF NextInstruction
  <2>3. instructions' = [state |-> "ended", remaining |-> n - k,
                         header_offset |-> turn[k].header_offset,
                         payload_offset |-> turn[k].payload_offset]
    BY <1>7, <2>2
  <2>4. InstructionsAfter(k, "ended")'
    BY <1>1, <1>7, <1>8, <1>9, <2>2, <2>3 DEF InstructionsAfter
  <2> QED BY <1>1, <1>3, <1>4, <2>4 DEF InstructionsInv
<1>10. ASSUME k # n PROVE InstructionsInv'
  <2>1. k < n
    BY <1>3, <1>6, <1>10
  <2>2. /\ item = turn[k + 1] /\ view.instructions[k + 1] = turn[k + 1]
        /\ item.header_offset # Bad /\ item.payload_offset # Bad
    BY <1>2, <1>5, <1>6, <1>7, <2>1, InstructionIsNext
  <2>3. ~IsExhausted(instructions, {item.header_offset, item.payload_offset})
    BY <1>6, <1>7, <2>1, <2>2 DEF IsExhausted
  <2>4. /\ instructions' = [state |-> "open", remaining |-> instructions.remaining - 1,
                            header_offset |-> item.header_offset,
                            payload_offset |-> item.payload_offset]
        /\ read_instructions' = Append(read_instructions, InstructionOf(item))
    BY <2>3 DEF NextInstruction, InstructionOf
  <2>5. n - k - 1 = n - (k + 1)
    BY <1>6
  <2>6. instructions' = [state |-> "open", remaining |-> n - (k + 1),
                         header_offset |-> turn[k + 1].header_offset,
                         payload_offset |-> turn[k + 1].payload_offset]
    BY <1>7, <2>2, <2>4, <2>5
  <2>7. read_instructions' = [i \in 1..(k + 1) |-> InstructionOf(view.instructions[i])]
    BY <1>6, <1>7, <2>2, <2>4
  <2>8. InstructionsAfter(k + 1, "open")'
    BY <1>1, <1>8, <2>6, <2>7 DEF InstructionsAfter
  <2>9. k + 1 \in 0..n
    BY <1>6, <2>1
  <2> QED BY <1>1, <1>4, <2>8, <2>9 DEF InstructionsInv
<1>11. Accepted' /\ LookupsInv'
  BY <1>1, <1>2, <1>4, UntouchedViewStays
<1> QED BY <1>1, <1>2, <1>9, <1>10, <1>11 DEF ViewInv

\* The lookup iterator starts with the first lookup.
LEMMA LookupIterKeepsViewInv ==
    ASSUME ViewInv, AddressTableLookupIter
    PROVE  ViewInv'
<1>1. /\ verdict = "Ok" /\ lookups.state = "none"
      /\ UNCHANGED <<bytes, verdict, view, instructions, read_instructions, read_lookups>>
  BY DEF AddressTableLookupIter
<1>2. bytes \in Seq(Byte) /\ Accepted /\ InstructionsInv /\ LookupsInv
  BY <1>1 DEF ViewInv
<1>3. Traversable(view)
  BY <1>2, AcceptedIsTraversable
<1>4. read_lookups = <<>>
  BY <1>1, <1>2 DEF LookupsInv, LookupsAfter
<1>5. LookupsAfter(0, "open")'
  <2>1. lookups' =
           [state |-> "open", remaining |-> view.num_address_table_lookups - 0,
            header_offset |-> LoopOverLookups(view)[0].header_offset,
            payload_offset |-> 0]
    BY <1>2, <1>3, LoopsStart DEF AddressTableLookupIter
  <2>2. \A v : LoopOverLookups(v)' = LoopOverLookups(v)
    BY <1>1, SameBytesSameReading
  <2>3. read_lookups = [i \in 1..0 |-> LookupOf(view.lookups[i])]
    BY <1>4
  <2> QED BY <1>1, <2>1, <2>2, <2>3 DEF LookupsAfter
<1>6. LookupsInv'
  <2>1. 0 \in 0..view.num_address_table_lookups
    BY <1>2, <1>3, LoopsStart
  <2> QED BY <1>1, <1>5, <2>1 DEF LookupsInv
<1>7. Accepted' /\ InstructionsInv'
  BY <1>1, <1>2, UntouchedViewStays
<1> QED BY <1>1, <1>2, <1>6, <1>7 DEF ViewInv

\* It reads what try_new has read, up to the last lookup.
LEMMA NextLookupKeepsViewInv ==
    ASSUME ViewInv, NextLookup
    PROVE  ViewInv'
<1> DEFINE n == view.num_address_table_lookups
           turn == LoopOverLookups(view)
           item == ItemAt("Lookup", lookups.header_offset, lookups.payload_offset)
<1>1. /\ lookups.state = "open"
      /\ UNCHANGED <<bytes, verdict, view, instructions, read_instructions>>
  BY DEF NextLookup
<1>2. /\ bytes \in Seq(Byte) /\ InstructionsInv /\ LookupsInv /\ (verdict = "Ok" => Accepted)
      /\ verdict \in {"Unread", "Ok", "Parse", "Sanitize", "UnsupportedVersion"}
  BY DEF ViewInv
<1>3. PICK k \in 0..n, s \in {"open", "ended"} : LookupsAfter(k, s)
  BY <1>1, <1>2 DEF LookupsInv, NoIterator
<1>4. verdict = "Ok" /\ Accepted
  BY <1>1, <1>2 DEF LookupsInv, NoIterator
<1>5. Traversable(view)
  BY <1>2, <1>4, AcceptedIsTraversable
<1>6. n \in Nat /\ k \in Nat
  BY <1>2, <1>5, LoopsStart
<1>7. /\ lookups.remaining = n - k
      /\ item = ItemAt("Lookup", turn[k].header_offset, 0)
      /\ read_lookups = [i \in 1..k |-> LookupOf(view.lookups[i])]
      /\ lookups = [state |-> "open", remaining |-> n - k,
                    header_offset |-> turn[k].header_offset, payload_offset |-> 0]
  BY <1>1, <1>3 DEF LookupsAfter
<1>8. \A v : LoopOverLookups(v)' = LoopOverLookups(v)
  BY <1>1, SameBytesSameReading
<1>9. ASSUME k = n PROVE LookupsInv'
  <2>1. IsExhausted(lookups, {item.header_offset, item.payload_offset})
    BY <1>6, <1>7, <1>9 DEF IsExhausted
  <2>2. /\ lookups' = [lookups EXCEPT !.state = "ended"]
        /\ read_lookups' = read_lookups
    BY <2>1 DEF NextLookup
  <2>3. lookups' = [state |-> "ended", remaining |-> n - k,
                    header_offset |-> turn[k].header_offset, payload_offset |-> 0]
    BY <1>7, <2>2
  <2>4. LookupsAfter(k, "ended")'
    BY <1>1, <1>7, <1>8, <1>9, <2>2, <2>3 DEF LookupsAfter
  <2> QED BY <1>1, <1>3, <1>4, <2>4 DEF LookupsInv
<1>10. ASSUME k # n PROVE LookupsInv'
  <2>1. k < n
    BY <1>3, <1>6, <1>10
  <2>2. /\ item = turn[k + 1] /\ view.lookups[k + 1] = turn[k + 1]
        /\ item.header_offset # Bad /\ item.payload_offset # Bad
    BY <1>2, <1>5, <1>6, <1>7, <2>1, LookupIsNext DEF Bad
  <2>3. ~IsExhausted(lookups, {item.header_offset, item.payload_offset})
    BY <1>6, <1>7, <2>1, <2>2 DEF IsExhausted
  <2>4. /\ lookups' = [lookups EXCEPT !.remaining = @ - 1,
                                      !.header_offset = item.header_offset]
        /\ read_lookups' = Append(read_lookups, LookupOf(item))
    BY <2>3 DEF NextLookup, LookupOf
  <2>5. n - k - 1 = n - (k + 1)
    BY <1>6
  <2>6. lookups' = [state |-> "open", remaining |-> n - (k + 1),
                    header_offset |-> turn[k + 1].header_offset, payload_offset |-> 0]
    BY <1>7, <2>2, <2>4, <2>5
  <2>7. read_lookups' = [i \in 1..(k + 1) |-> LookupOf(view.lookups[i])]
    BY <1>6, <1>7, <2>2, <2>4
  <2>8. LookupsAfter(k + 1, "open")'
    BY <1>1, <1>8, <2>6, <2>7 DEF LookupsAfter
  <2>9. k + 1 \in 0..n
    BY <1>6, <2>1
  <2> QED BY <1>1, <1>4, <2>8, <2>9 DEF LookupsInv
<1>11. Accepted' /\ InstructionsInv'
  BY <1>1, <1>2, <1>4, UntouchedViewStays
<1> QED BY <1>1, <1>2, <1>9, <1>10, <1>11 DEF ViewInv

\* The parser accepts by all its rules, and its iterators go the way it went.
THEOREM ViewInvariance == ViewSpec => []ViewInv
<1>1. ASSUME ViewInv, [ViewNext]_view_vars PROVE ViewInv'
  <2>1. CASE TryNew
    BY <1>1, <2>1, TryNewKeepsViewInv
  <2>2. CASE InstructionsIter
    BY <1>1, <2>2, InstructionsIterKeepsViewInv
  <2>3. CASE NextInstruction
    BY <1>1, <2>3, NextInstructionKeepsViewInv
  <2>4. CASE AddressTableLookupIter
    BY <1>1, <2>4, LookupIterKeepsViewInv
  <2>5. CASE NextLookup
    BY <1>1, <2>5, NextLookupKeepsViewInv
  <2>6. CASE UNCHANGED view_vars
    <3>1. /\ UNCHANGED <<bytes, verdict, view>>
          /\ UNCHANGED <<instructions, read_instructions>>
          /\ UNCHANGED <<lookups, read_lookups>>
      BY <2>6 DEF view_vars, iterators
    <3> QED BY <1>1, <3>1, UntouchedViewStays DEF ViewInv
  <2> QED BY <1>1, <2>1, <2>2, <2>3, <2>4, <2>5, <2>6 DEF ViewNext
<1> QED BY <1>1, ViewInitIsGood, PTL DEF ViewSpec

\* A place that is not bad is in the input.
LEMMA GoodPlace ==
    ASSUME bytes \in Seq(Byte), NEW o \in Places, o # Bad
    PROVE  o \in 0..Len(bytes)
BY DEF Places

\* The turns of both loops leave the cursors in the input.
LEMMA TurnsAreInInput ==
    ASSUME bytes \in Seq(Byte), Traversable(view)
    PROVE  /\ \A k \in 0..view.num_instructions :
                 /\ LoopOverInstructions(view)[k].header_offset \in 0..Len(bytes)
                 /\ LoopOverInstructions(view)[k].payload_offset \in 0..Len(bytes)
           /\ \A k \in 0..view.num_address_table_lookups :
                 LoopOverLookups(view)[k].header_offset \in 0..Len(bytes)
<1>1. /\ \A k \in Nat : /\ LoopOverInstructions(view)[k].header_offset \in Places
                        /\ LoopOverInstructions(view)[k].payload_offset \in Places
      /\ \A k \in Nat : LoopOverLookups(view)[k].header_offset \in Places
  BY ViewLoopsRun DEF LoopRuns
<1>2. /\ \A k \in 0..view.num_instructions :
            /\ LoopOverInstructions(view)[k].header_offset # Bad
            /\ LoopOverInstructions(view)[k].payload_offset # Bad
      /\ \A k \in 0..view.num_address_table_lookups :
            LoopOverLookups(view)[k].header_offset # Bad
  BY DEF Traversable
<1>3. /\ 0..view.num_instructions \subseteq Nat
      /\ 0..view.num_address_table_lookups \subseteq Nat
  BY LoopsStart
<1> QED BY <1>1, <1>2, <1>3, GoodPlace

\* No iterator leaves the input, and none counts below zero (transaction.rs,
\* SanitizedInstructionIterator::next and SanitizedAddressTableLookupIterator::next).
THEOREM ViewTypeCorrect == ViewSpec => []ViewTypeOK
<1>1. ViewInv => ViewTypeOK
  <2> SUFFICES ASSUME ViewInv PROVE ViewTypeOK
    OBVIOUS
  <2>1. /\ bytes \in Seq(Byte) /\ InstructionsInv /\ LookupsInv /\ (verdict = "Ok" => Accepted)
        /\ verdict \in {"Unread", "Ok", "Parse", "Sanitize", "UnsupportedVersion"}
    BY DEF ViewInv
  <2>2. verdict = "Ok" => Traversable(view)
    BY <2>1, AcceptedIsTraversable
  <2> DEFINE Typed(iterator) ==
               /\ iterator.state \in {"none", "open", "ended"}
               /\ iterator.remaining \in Nat
               /\ iterator.header_offset \in 0..Len(bytes)
               /\ iterator.payload_offset \in 0..Len(bytes)
  <2>3. 0 \in 0..Len(bytes)
    BY <2>1
  <2>4. Typed(NoIterator)
    BY <2>3 DEF NoIterator
  <2>5. Typed(instructions)
    <3>1. CASE instructions = NoIterator
      BY <2>4, <3>1
    <3>2. CASE instructions # NoIterator
      <4>1. verdict = "Ok"
        BY <2>1, <3>2 DEF InstructionsInv
      <4>2. PICK k \in 0..view.num_instructions, s \in {"open", "ended"} : InstructionsAfter(k, s)
        BY <2>1, <3>2 DEF InstructionsInv
      <4>3. view.num_instructions - k \in Nat
        BY <2>1, <2>2, <4>1, LoopsStart
      <4>4. /\ LoopOverInstructions(view)[k].header_offset \in 0..Len(bytes)
            /\ LoopOverInstructions(view)[k].payload_offset \in 0..Len(bytes)
        BY <2>1, <2>2, <4>1, TurnsAreInInput
      <4> QED BY <4>2, <4>3, <4>4 DEF InstructionsAfter
    <3> QED BY <3>1, <3>2
  <2>6. Typed(lookups)
    <3>1. CASE lookups = NoIterator
      BY <2>4, <3>1
    <3>2. CASE lookups # NoIterator
      <4>1. verdict = "Ok"
        BY <2>1, <3>2 DEF LookupsInv
      <4>2. PICK k \in 0..view.num_address_table_lookups, s \in {"open", "ended"} :
                LookupsAfter(k, s)
        BY <2>1, <3>2 DEF LookupsInv
      <4>3. view.num_address_table_lookups - k \in Nat
        BY <2>1, <2>2, <4>1, LoopsStart
      <4>4. LoopOverLookups(view)[k].header_offset \in 0..Len(bytes)
        BY <2>1, <2>2, <4>1, TurnsAreInInput
      <4> QED BY <2>3, <4>2, <4>3, <4>4 DEF LookupsAfter
    <3> QED BY <3>1, <3>2
  <2> QED BY <2>1, <2>5, <2>6 DEF ViewTypeOK
<1> QED BY <1>1, ViewInvariance, PTL

\* Behind the signatures of an accepted transaction of the older formats is
\* the first byte of its message, which tells the version.
LEMMA MessageFollowsSignatures ==
    ASSUME bytes \in Seq(Byte), Accepted, view = ViewSignatureFirst
    PROVE  LET message_offset == MessageOffset(bytes[1])
           IN  /\ bytes[1] \in 1..MAX_SIGNATURES
               /\ message_offset \in Nat
               /\ Len(bytes) > message_offset
               /\ bytes[message_offset + 1] \in 0..HIGH
               /\ view.message_version =
                     IF bytes[message_offset + 1] < HIGH THEN "Legacy" ELSE "V0"
<1> DEFINE num_signatures == ByteAt(0)
           size           == num_signatures * SIGNATURE_BYTES
           prefix_offset  == ReadBytesAt(1, size)
           prefix         == ByteAt(prefix_offset)
           version        == IF prefix < HIGH THEN "Legacy" ELSE "V0"
           header         == IF version = "V0" THEN ReadBytesAt(prefix_offset, 1)
                             ELSE prefix_offset
           num_keys       == ByteAt(ReadBytesAt(header, 3))
           keys           == ReadBytesAt(header, 4)
           keys_size      == num_keys * PUBKEY_BYTES
           blockhash      == ReadBytesAt(keys, keys_size)
           behind_hash    == ReadBytesAt(blockhash, BLOCKHASH_BYTES)
           count          == ReadCompactAt(behind_hash)
<1>1. /\ view.message_version = version
      /\ view.instructions_offset = count.offset
      /\ ~view.malformed => num_signatures \in 1..MAX_SIGNATURES /\ ~(prefix > HIGH)
  BY ZenonT(60) DEF ViewSignatureFirst
<1>2. ~view.malformed
  BY OkPassesRules DEF Accepted
<1>3. count.offset # Bad
  <2>1. Traversable(view)
    BY AcceptedIsTraversable
  <2>2. /\ LoopOverInstructions(view)[0].header_offset = view.instructions_offset
        /\ 0 \in 0..view.num_instructions
    BY <2>1, LoopsStart
  <2>3. LoopOverInstructions(view)[0].header_offset # Bad
    BY <2>1, <2>2 DEF Traversable
  <2> QED BY <1>1, <2>2, <2>3
<1>4. bytes # <<>> /\ Len(bytes) \in Nat /\ Len(bytes) >= 1
  BY DEF Accepted
<1>5. num_signatures = bytes[1]
  <2>1. ReadBytesAt(0, 1) = 1
    BY <1>4 DEF ReadBytesAt, Bad
  <2> QED BY <2>1 DEF ByteAt, Bad
<1>6. num_signatures \in 1..MAX_SIGNATURES /\ num_signatures \in Nat /\ ~(prefix > HIGH)
  BY <1>1, <1>2, WireAssumption
<1>7. size \in Nat /\ MessageOffset(bytes[1]) = 1 + size
  BY <1>5, <1>6, WireAssumption, ProductIsNumber DEF MessageOffset
<1> HIDE DEF num_signatures, size
<1>8. 1 \in Places
  BY <1>4 DEF Places
<1>9. prefix_offset \in Places /\ (prefix_offset # Bad => prefix_offset = 1 + size)
  BY <1>7, <1>8, ReadEnds
<1> HIDE DEF prefix_offset
<1>10. prefix \in Byte /\ version \in {"Legacy", "V0"}
  BY <1>9, ByteIsByte
<1> HIDE DEF prefix
<1>11. header \in Places
  <2>1. ReadBytesAt(prefix_offset, 1) \in Places
    BY <1>9, ReadEnds
  <2> QED BY <1>9, <2>1
<1>12. header # Bad /\ header + 4 <= Len(bytes)
          => prefix_offset # Bad /\ prefix_offset + 1 <= Len(bytes)
  <2>1. CASE version = "V0"
    BY <1>9, <2>1, ReadEnds
  <2>2. CASE version = "Legacy"
    <3>1. header = prefix_offset
      BY <2>2
    <3> HIDE DEF header
    <3> QED BY <1>4, <1>9, <3>1 DEF Places
  <2> QED BY <1>10, <2>1, <2>2
<1> HIDE DEF version, header
<1>13. /\ ReadBytesAt(header, 3) \in Places /\ keys \in Places
       /\ keys # Bad => header # Bad /\ header + 4 <= Len(bytes)
  BY <1>11, ReadEnds
<1>14. keys_size \in Nat
  <2>1. num_keys \in Nat
    BY <1>13, ByteIsByte
  <2> HIDE DEF num_keys
  <2> QED BY <2>1, FormatAssumption, ProductIsNumber
<1> HIDE DEF keys, keys_size
<1>15. blockhash \in Places /\ (blockhash # Bad => keys # Bad)
  BY <1>13, <1>14, ReadEnds
<1> HIDE DEF blockhash
<1>16. behind_hash \in Places /\ (behind_hash # Bad => blockhash # Bad)
  BY <1>15, FormatAssumption, ReadEnds
<1> HIDE DEF behind_hash
<1>17. behind_hash # Bad
  BY <1>3, <1>16, CompactIsRead
<1>18. prefix_offset = 1 + size /\ 1 + size + 1 <= Len(bytes)
  BY <1>9, <1>12, <1>13, <1>15, <1>16, <1>17
<1>19. prefix = bytes[1 + size + 1]
  <2>1. ReadBytesAt(prefix_offset, 1) # Bad
    BY <1>7, <1>9, <1>18, ReadEnds DEF Bad
  <2> QED BY <1>18, <2>1 DEF ByteAt, prefix
<1>20. prefix \in 0..HIGH
  BY <1>6, <1>10, HighIsNumber DEF Byte
<1>21. Len(bytes) > 1 + size
  BY <1>4, <1>7, <1>18
<1> QED BY <1>1, <1>5, <1>6, <1>7, <1>19, <1>20, <1>21 DEF version

\* What is accepted is of the version and within the size that classify() and
\* validate_raw_size() have found at admission, before it was parsed (wire.rs;
\* transaction.rs, try_new).
THEOREM ClassificationAgrees == ViewSpec => []ClassifyAgrees
<1>1. ViewInv => ClassifyAgrees
  <2> SUFFICES ASSUME ViewInv, verdict = "Ok"
               PROVE  /\ classify(bytes) = view.message_version
                      /\ validate_raw_size(view.message_version, Len(bytes))
    BY DEF ClassifyAgrees
  <2>1. bytes \in Seq(Byte) /\ Accepted
    BY DEF ViewInv
  <2>2. CASE /\ bytes[1] = V1_PREFIX /\ validate_raw_size("V1", Len(bytes))
             /\ view = ViewMessageFirst
    <3>1. view.message_version = "V1"
      BY <2>2 DEF ViewMessageFirst
    <3>2. classify(bytes) = "V1"
      BY <2>1, <2>2 DEF classify, Accepted
    <3> QED BY <2>2, <3>1, <3>2
  <2>3. CASE /\ bytes[1] < HIGH /\ validate_raw_size("Legacy", Len(bytes))
             /\ view = ViewSignatureFirst
    <3> DEFINE message_offset == MessageOffset(bytes[1])
    <3>1. /\ bytes[1] \in 1..MAX_SIGNATURES
          /\ message_offset \in Nat
          /\ Len(bytes) > message_offset
          /\ bytes[message_offset + 1] \in 0..HIGH
          /\ view.message_version =
                IF bytes[message_offset + 1] < HIGH THEN "Legacy" ELSE "V0"
      BY <2>1, <2>3, MessageFollowsSignatures
    <3>2. bytes # <<>> /\ bytes[1] # V1_PREFIX /\ ~(bytes[1] >= HIGH)
      BY <2>1, <2>3, <3>1, WireAssumption DEF Accepted, V1_PREFIX
    <3>3. ~(Len(bytes) < message_offset) /\ Len(bytes) # message_offset
      BY <2>1, <3>1
    <3> HIDE DEF message_offset
    <3>4. classify(bytes) = view.message_version
      BY <3>1, <3>2, <3>3, WireAssumption DEF classify, message_offset
    <3>5. view.message_version # "V1"
      BY <3>1
    <3>6. validate_raw_size(view.message_version, Len(bytes))
      BY <2>3, <3>5 DEF validate_raw_size, raw_limit
    <3> QED BY <3>4, <3>6
  <2> QED BY <2>1, <2>2, <2>3 DEF Accepted
<1> QED BY <1>1, ViewInvariance, PTL

\* An iterator that has ended has handed out all items.
LEMMA ReadToTheEndIsAll ==
    ASSUME ViewInv, ReadToTheEnd
    PROVE  /\ Accepted
           /\ read_instructions =
                 [i \in 1..view.num_instructions |-> InstructionOf(view.instructions[i])]
           /\ read_lookups =
                 [i \in 1..view.num_address_table_lookups |-> LookupOf(view.lookups[i])]
<1>1. instructions.state = "ended" /\ lookups.state = "ended"
  BY DEF ReadToTheEnd
<1>2. PICK k \in 0..view.num_instructions, s \in {"open", "ended"} : InstructionsAfter(k, s)
  BY <1>1 DEF ViewInv, InstructionsInv, NoIterator
<1>3. PICK l \in 0..view.num_address_table_lookups, t \in {"open", "ended"} : LookupsAfter(l, t)
  BY <1>1 DEF ViewInv, LookupsInv, NoIterator
<1>4. Accepted
  BY <1>1 DEF ViewInv, InstructionsInv, NoIterator
<1> QED BY <1>1, <1>2, <1>3, <1>4 DEF InstructionsAfter, LookupsAfter

\* What a view holds is of the type of what is read.
LEMMA ViewHoldsItems ==
    ASSUME bytes \in Seq(Byte), Traversable(view)
    PROVE  /\ view.num_instructions \in Nat
           /\ view.instructions \in [1..view.num_instructions -> InstructionsRead]
           /\ view.num_address_table_lookups \in Nat
           /\ view.lookups \in [1..view.num_address_table_lookups -> LookupsRead]
<1> DEFINE m == view.num_instructions
           n == view.num_address_table_lookups
           turn == LoopOverInstructions(view)
           lookup == LoopOverLookups(view)
<1>1. m \in Nat /\ n \in Nat
  BY LoopsStart
<1>2. view.instructions = Items(turn, m) /\ view.lookups = Items(lookup, n)
  BY DEF Traversable
<1>3. /\ \A i \in Nat : turn[i + 1] \in InstructionsRead
      /\ \A i \in Nat : lookup[i + 1] \in LookupsRead
  <2>1. view.message_version # "Lookup"
    BY DEF Traversable, WireVersions
  <2> QED BY <2>1, ViewLoopsRun DEF LoopRuns, ItemsOfKind
<1> HIDE DEF m, n, turn, lookup
<1>4. \A i \in 1..m : turn[i] \in InstructionsRead
  <2> SUFFICES ASSUME NEW i \in 1..m PROVE turn[i] \in InstructionsRead
    OBVIOUS
  <2>1. i - 1 \in Nat /\ i - 1 + 1 = i
    BY <1>1
  <2> QED BY <1>3, <2>1
<1>5. \A i \in 1..n : lookup[i] \in LookupsRead
  <2> SUFFICES ASSUME NEW i \in 1..n PROVE lookup[i] \in LookupsRead
    OBVIOUS
  <2>1. i - 1 \in Nat /\ i - 1 + 1 = i
    BY <1>1
  <2> QED BY <1>3, <2>1
<1>6. /\ view.instructions \in [1..m -> InstructionsRead]
      /\ view.lookups \in [1..n -> LookupsRead]
  BY <1>2, <1>4, <1>5 DEF Items
<1> QED BY <1>1, <1>6 DEF m, n

\* The accounts of a reading are those that the rules have counted.
LEMMA SameAccounts ==
    ASSUME ViewInv, ReadToTheEnd
    PROVE  /\ Len(Reading.static_account_keys) = view.num_static_account_keys
           /\ Len(Reading.signatures) = view.num_signatures
           /\ TotalAccounts(Reading) = TotalAccountsOf(view)
           /\ TotalAccountsOf(view) \in Nat
<1> DEFINE n == view.num_address_table_lookups
           Loaded(items) ==
               [i \in DOMAIN items |->
                   Len(items[i].writable_indexes) + Len(items[i].readonly_indexes)]
<1>1. bytes \in Seq(Byte) /\ Accepted
  BY ReadToTheEndIsAll DEF ViewInv
<1>2. Traversable(view) /\ BytesInView(view) \subseteq Byte
  BY <1>1, AcceptedIsTraversable
<1>3. view.num_static_account_keys \in Nat /\ view.num_signatures \in Nat
  BY <1>2, HighIsNumber DEF BytesInView, Byte
<1>4. /\ Len(Reading.static_account_keys) = view.num_static_account_keys
      /\ Len(Reading.signatures) = view.num_signatures
  BY <1>3 DEF Reading, ArraySlice
<1>5. n \in Nat /\ view.lookups \in [1..n -> LookupsRead]
  BY <1>1, <1>2, ViewHoldsItems
<1>6. read_lookups = [i \in 1..n |-> LookupOf(view.lookups[i])]
  BY ReadToTheEndIsAll
<1> HIDE DEF n
<1>7. Loaded(read_lookups) = Loaded(view.lookups)
  BY <1>5, <1>6 DEF LookupOf
<1>8. Loaded(view.lookups) \in Seq(Nat)
  <2>1. \A i \in 1..n : /\ view.lookups[i].writable_indexes \in Seq(Byte)
                        /\ view.lookups[i].readonly_indexes \in Seq(Byte)
    BY <1>5 DEF LookupsRead
  <2>2. ASSUME NEW i \in 1..n PROVE Loaded(view.lookups)[i] \in Nat
    <3> DEFINE writable == view.lookups[i].writable_indexes
               readonly == view.lookups[i].readonly_indexes
    <3>1. writable \in Seq(Byte) /\ readonly \in Seq(Byte)
      BY <2>1
    <3>2. Loaded(view.lookups)[i] = Len(writable) + Len(readonly)
      BY <1>5
    <3> HIDE DEF writable, readonly, Loaded
    <3>3. Len(writable) \in Nat /\ Len(readonly) \in Nat
      BY <3>1
    <3> QED BY <3>2, <3>3
  <2>3. Loaded(view.lookups) \in [1..n -> Nat]
    BY <1>5, <2>2
  <2> HIDE DEF Loaded
  <2> QED BY <1>5, <2>3
<1>9. TotalAccountsOf(view) = Together(view.num_static_account_keys, Loaded(view.lookups))
  BY DEF TotalAccountsOf
<1>10. TotalAccounts(Reading) =
          Together(Len(Reading.static_account_keys), Loaded(read_lookups))
  BY DEF TotalAccounts, Reading
<1> HIDE DEF Loaded
<1> QED BY <1>3, <1>4, <1>7, <1>8, <1>9, <1>10, TogetherIsNumber

\* The rules leave no signer without a signature or a key, and no signature
\* without a signer, although keys are counted in wrapping bytes.
LEMMA SignersAreSane ==
    ASSUME ViewInv, ReadToTheEnd
    PROVE  SaneSigners(Reading)
<1>1. /\ Len(Reading.static_account_keys) = view.num_static_account_keys
      /\ Len(Reading.signatures) = view.num_signatures
  BY SameAccounts
<1>2. /\ Reading.num_required_signatures = view.num_required_signatures
      /\ Reading.num_readonly_signed_static_accounts = view.num_readonly_signed_static_accounts
      /\ Reading.num_readonly_unsigned_static_accounts
            = view.num_readonly_unsigned_static_accounts
  BY DEF Reading
<1>3. bytes \in Seq(Byte) /\ Accepted
  BY ReadToTheEndIsAll DEF ViewInv
<1>4. ~InvalidHeader(view) /\ ~InvalidSignatures(view)
  BY <1>3, OkPassesRules DEF Accepted
<1>5. BytesInView(view) \subseteq Byte
  BY <1>3, AcceptedIsTraversable
<1> DEFINE required == view.num_required_signatures
           signed == view.num_readonly_signed_static_accounts
           unsigned == view.num_readonly_unsigned_static_accounts
           keys == view.num_static_account_keys
<1>6. /\ required \in Byte /\ signed \in Byte /\ unsigned \in Byte /\ keys \in Byte
      /\ Byte \subseteq Nat
  BY <1>5 DEF BytesInView, Byte
<1>7. /\ required # 0 /\ ~(signed >= required)
      /\ ~(unsigned > WrappingSub(keys, required))
  BY <1>4 DEF InvalidHeader
<1>8. view.num_signatures = required /\ ~(required > MAX_SIGNATURES) /\ ~(keys < required)
  BY <1>4 DEF InvalidSignatures
<1> HIDE DEF required, signed, unsigned, keys
<1>9. WrappingSub(keys, required) = keys - required
  BY <1>6, <1>8, NoWrapping
<1>10. /\ required \in 1..MAX_SIGNATURES /\ signed < required
       /\ required + unsigned <= keys
  BY <1>6, <1>7, <1>8, <1>9, WireAssumption
<1> QED BY <1>1, <1>2, <1>8, <1>10 DEF SaneSigners, required, signed, unsigned, keys

\* No account is out of reach of an index, and every lookup loads one.
LEMMA AccountsAreSane ==
    ASSUME ViewInv, ReadToTheEnd
    PROVE  SaneAccounts(Reading)
<1> DEFINE n == view.num_address_table_lookups
           keys == view.num_static_account_keys
<1>1. /\ Len(Reading.static_account_keys) = keys
      /\ TotalAccounts(Reading) = TotalAccountsOf(view) /\ TotalAccountsOf(view) \in Nat
  BY SameAccounts
<1>2. /\ Reading.lookups = [i \in 1..n |-> LookupOf(view.lookups[i])]
      /\ Reading.message_version = view.message_version
  BY ReadToTheEndIsAll DEF Reading
<1>3. bytes \in Seq(Byte) /\ Accepted
  BY ReadToTheEndIsAll DEF ViewInv
<1>4. Traversable(view) /\ BytesInView(view) \subseteq Byte
  BY <1>3, AcceptedIsTraversable
<1>5. n \in Nat /\ view.lookups \in [1..n -> LookupsRead]
  BY <1>3, <1>4, ViewHoldsItems
<1>6. ~InvalidAccounts(view) /\ ~view.malformed
  BY <1>3, OkPassesRules DEF Accepted
<1>7. /\ keys <= IF view.message_version = "V1" THEN MAX_V1_STATIC_ACCOUNTS
                 ELSE MAX_STATIC_ACCOUNTS_PER_PACKET
      /\ n <= MAX_ADDRESS_TABLE_LOOKUPS_PER_PACKET
  <2>1. CASE view = ViewMessageFirst
    <3>1. view.message_version = "V1" /\ n = 0
      BY <2>1 DEF ViewMessageFirst
    <3>2. keys \in 1..MAX_V1_STATIC_ACCOUNTS
      BY <1>6, <3>1 DEF InvalidAccounts
    <3> HIDE DEF keys, n
    <3> QED BY <3>1, <3>2, FormatAssumption
  <2>2. CASE view = ViewSignatureFirst
    <3>1. /\ view.message_version # "V1"
          /\ ~view.malformed => /\ keys \in 1..MAX_STATIC_ACCOUNTS_PER_PACKET
                                /\ ~(n > MAX_ADDRESS_TABLE_LOOKUPS_PER_PACKET)
      BY <2>2, ZenonT(60) DEF ViewSignatureFirst
    <3> HIDE DEF keys, n
    <3> QED BY <1>5, <1>6, <3>1, FormatAssumption
  <2> QED BY <1>3, <2>1, <2>2 DEF Accepted
<1>8. Len(Reading.lookups) = n /\ DOMAIN Reading.lookups = 1..n
  <2> HIDE DEF n
  <2> QED BY <1>2, <1>5
<1>9. ASSUME NEW i \in 1..n
      PROVE  Reading.lookups[i].writable_indexes \o Reading.lookups[i].readonly_indexes # <<>>
  <2> DEFINE writable == view.lookups[i].writable_indexes
             readonly == view.lookups[i].readonly_indexes
  <2>1. writable \in Seq(Byte) /\ readonly \in Seq(Byte)
    BY <1>5 DEF LookupsRead
  <2>2. view.lookups[i] \in ToSet(view.lookups)
    BY <1>5 DEF ToSet
  <2>3. ~(writable = <<>> /\ readonly = <<>>)
    BY <1>6, <2>2 DEF InvalidAccounts
  <2>4. /\ Reading.lookups[i].writable_indexes = writable
        /\ Reading.lookups[i].readonly_indexes = readonly
    BY <1>2 DEF LookupOf
  <2> HIDE DEF writable, readonly
  <2>5. writable \o readonly # <<>>
    BY <2>1, <2>3
  <2> QED BY <2>4, <2>5
<1>10. TotalAccountsOf(view) <= MAX_ACCOUNTS
  <2>1. ~(TotalAccountsOf(view) > MAX_ACCOUNTS)
    BY <1>6 DEF InvalidAccounts
  <2>2. MAX_ACCOUNTS \in Nat
    BY HighIsNumber DEF MAX_ACCOUNTS
  <2> QED BY <1>1, <2>1, <2>2
<1> QED BY <1>1, <1>2, <1>7, <1>8, <1>9, <1>10 DEF SaneAccounts

\* Every program and every account that an instruction names is there.
LEMMA InstructionsAreSane ==
    ASSUME ViewInv, ReadToTheEnd
    PROVE  SaneInstructions(Reading)
<1> DEFINE n == view.num_instructions
           keys == view.num_static_account_keys
           total == TotalAccountsOf(view)
<1>1. /\ Len(Reading.static_account_keys) = keys
      /\ TotalAccounts(Reading) = total /\ total \in Nat
  BY SameAccounts
<1>2. Reading.instructions = [i \in 1..n |-> InstructionOf(view.instructions[i])]
  BY ReadToTheEndIsAll DEF Reading
<1>3. bytes \in Seq(Byte) /\ Accepted
  BY ReadToTheEndIsAll DEF ViewInv
<1>4. Traversable(view) /\ BytesInView(view) \subseteq Byte
  BY <1>3, AcceptedIsTraversable
<1>5. n \in Nat /\ view.instructions \in [1..n -> InstructionsRead]
  BY <1>3, <1>4, ViewHoldsItems
<1>6. keys \in Nat
  BY <1>4 DEF BytesInView, Byte
<1>7. ~InvalidInstructions(view)
  BY <1>3, OkPassesRules DEF Accepted
<1>8. n <= MAX_INSTRUCTIONS
  <2>1. ~(n > MAX_INSTRUCTIONS)
    BY <1>7 DEF InvalidInstructions
  <2> HIDE DEF n
  <2> QED BY <1>5, <2>1, FormatAssumption
<1>9. ASSUME NEW i \in 1..n
      PROVE  /\ Reading.instructions[i].program_id_index \in 1..(keys - 1)
             /\ Len(Reading.instructions[i].accounts) < MAX_ACCOUNTS
             /\ \A j \in DOMAIN Reading.instructions[i].accounts :
                   Reading.instructions[i].accounts[j] < total
  <2> DEFINE program == view.instructions[i].program_id_index
             accounts == view.instructions[i].accounts
  <2>1. program \in Byte /\ accounts \in Seq(Byte) /\ Byte \subseteq Nat
    BY <1>5 DEF InstructionsRead, Byte
  <2>2. view.instructions[i] \in ToSet(view.instructions)
    BY <1>5 DEF ToSet
  <2>3. /\ program # 0 /\ ~(program >= keys) /\ ~(Len(accounts) >= MAX_ACCOUNTS)
        /\ \A index \in ToSet(accounts) : ~(index >= total)
    BY <1>7, <2>2 DEF InvalidInstructions
  <2>4. /\ Reading.instructions[i].program_id_index = program
        /\ Reading.instructions[i].accounts = accounts
    BY <1>2 DEF InstructionOf
  <2>5. MAX_ACCOUNTS \in Nat
    BY HighIsNumber DEF MAX_ACCOUNTS
  <2> HIDE DEF program, accounts, keys, total
  <2>6. program \in 1..(keys - 1)
    BY <1>6, <2>1, <2>3
  <2>7. Len(accounts) < MAX_ACCOUNTS
    BY <2>1, <2>3, <2>5
  <2>8. ASSUME NEW j \in DOMAIN accounts PROVE accounts[j] < total
    <3>1. accounts[j] \in ToSet(accounts)
      BY DEF ToSet
    <3>2. accounts[j] \in Byte
      BY <2>1
    <3>3. accounts[j] \in Nat
      BY <2>1, <3>2
    <3> QED BY <1>1, <2>3, <3>1, <3>3
  <2> QED BY <2>4, <2>6, <2>7, <2>8
<1>10. Len(Reading.instructions) = n /\ DOMAIN Reading.instructions = 1..n
  <2> HIDE DEF n
  <2> QED BY <1>2, <1>5
<1> HIDE DEF n, keys, total
<1> QED BY <1>1, <1>8, <1>9, <1>10 DEF SaneInstructions

\* The size of a heap that is asked for is read where the rules have found it.
LEMMA HeapIsSane ==
    ASSUME ViewInv, ReadToTheEnd
    PROVE  SaneHeap(Reading)
<1> DEFINE heap == LittleEndianAt(OffsetAfterLoadedAccountsDataSize(view), U32_BYTES)
<1>1. Reading.config.requested_heap_size =
         IF HasBit(view.transaction_config_mask, 16) THEN heap ELSE NoValue
  BY DEF Reading, transaction_config
<1>2. bytes \in Seq(Byte) /\ Accepted
  BY ReadToTheEndIsAll DEF ViewInv
<1>3. ~InvalidHeapSize(view) /\ view.end = Len(bytes)
  BY <1>2, OkPassesRules DEF Accepted
<1>4. CASE ~HasBit(view.transaction_config_mask, 16)
  BY <1>1, <1>4 DEF SaneHeap
<1>5. CASE HasBit(view.transaction_config_mask, 16)
  <2>1. view = ViewMessageFirst
    <3>1. CASE view = ViewSignatureFirst
      <4>1. view.transaction_config_mask = 0
        BY <3>1, ZenonT(60) DEF ViewSignatureFirst
      <4>2. ~HasBit(0, 16)
        BY DEF HasBit
      <4> QED BY <1>5, <4>1, <4>2
    <3> QED BY <1>2, <3>1 DEF Accepted
  <2>2. heap = LittleEndianAt(ConfigOffset(view.transaction_config_values_offset,
                                           view.transaction_config_mask, 3), U32_BYTES)
    BY <1>2, <1>3, <2>1, MessageFirstIsTraversable
  <2> HIDE DEF heap
  <2>3. heap \in MIN_V1_HEAP_SIZE..MAX_V1_HEAP_SIZE /\ heap % HEAP_UNIT = 0
    BY <1>3, <1>5, <2>2 DEF InvalidHeapSize
  <2>4. heap \in Nat \ {0} /\ heap <= MAX_V1_HEAP_SIZE
    BY <2>3, FormatAssumption
  <2>5. PICK m \in 1..heap : heap = m * HEAP_UNIT
    BY <2>3, <2>4, FormatAssumption, MultipleIsProduct
  <2>6. m \in 1..MAX_V1_HEAP_SIZE
    BY <2>4, FormatAssumption
  <2> QED BY <1>1, <1>5, <2>3, <2>5, <2>6 DEF SaneHeap
<1> QED BY <1>4, <1>5

\* A transaction that is accepted and read to the end is sane by the numbers
\* of its parts (transaction.rs: the rules of try_new against the accessors).
THEOREM AcceptedTransactionsAreSane == ViewSpec => []AcceptedIsSane
<1>1. ViewInv => AcceptedIsSane
  BY SignersAreSane, AccountsAreSane, InstructionsAreSane, HeapIsSane DEF AcceptedIsSane, Sane
<1> QED BY <1>1, ViewInvariance, PTL

-----------------------------------------------------------------------------
(* What is written where.                                                  *)

\* The bytes from o up to e are those of s.
Written(o, s, e) ==
    /\ s \in Seq(Byte)
    /\ o \in Nat /\ e = o + Len(s) /\ e <= Len(bytes)
    /\ \A i \in 1..Len(s) : bytes[o + i] = s[i]

\* A sequence is one of the elements it has.
LEMMA SeqOfElements ==
    ASSUME NEW S, NEW T, NEW s \in Seq(S), \A i \in 1..Len(s) : s[i] \in T
    PROVE  s \in Seq(T)
<1> DEFINE n == Len(s)
<1>1. n \in Nat /\ s = [i \in 1..n |-> s[i]]
  OBVIOUS
<1>2. \A i \in 1..n : s[i] \in T
  OBVIOUS
<1> HIDE DEF n
<1>3. s \in [1..n -> T]
  BY <1>1, <1>2
<1> QED BY <1>1, <1>3

\* Sequences of bytes are sequences of numbers.
LEMMA BytesAreNumbers ==
    /\ \A s \in Seq(Byte) : s \in Seq(Nat) /\ Len(s) \in Nat
    /\ \A s, t \in Seq(Nat) : s \o t \in Seq(Nat)
<1>1. Byte \subseteq Nat
  BY DEF Byte
<1>2. ASSUME NEW s \in Seq(Nat), NEW t \in Seq(Nat) PROVE s \o t \in Seq(Nat)
  BY ConcatProperties
<1>3. ASSUME NEW s \in Seq(Byte) PROVE s \in Seq(Nat) /\ Len(s) \in Nat
  <2>1. \A i \in 1..Len(s) : s[i] \in Byte
    OBVIOUS
  <2>2. \A i \in 1..Len(s) : s[i] \in Nat
    BY <1>1, <2>1
  <2> QED BY <2>2, SeqOfElements
<1> QED BY <1>2, <1>3

\* What is written from start to end is the whole input.
LEMMA WrittenWhole ==
    ASSUME bytes \in Seq(Byte), NEW s
    PROVE  Written(0, s, Len(bytes)) <=> s = bytes
<1>1. ASSUME Written(0, s, Len(bytes)) PROVE s = bytes
  <2>1. s \in Seq(Byte) /\ Len(s) \in Nat /\ Len(bytes) = 0 + Len(s)
    BY <1>1 DEF Written
  <2>2. Len(s) = Len(bytes)
    BY <2>1
  <2>3. \A i \in 1..Len(s) : bytes[0 + i] = s[i]
    BY <1>1 DEF Written
  <2>4. \A i \in 1..Len(s) : s[i] = bytes[i]
    BY <2>3
  <2> QED BY <2>1, <2>2, <2>4, SeqEqual
<1>2. ASSUME s = bytes PROVE Written(0, s, Len(bytes))
  BY <1>2 DEF Written
<1> QED BY <1>1, <1>2

\* Parts that are written one after the other are written together.
LEMMA WrittenTogether ==
    ASSUME bytes \in Seq(Byte), NEW o, NEW s, NEW m, NEW t, NEW e,
           Written(o, s, m), Written(m, t, e)
    PROVE  Written(o, s \o t, e)
<1>1. /\ s \in Seq(Byte) /\ t \in Seq(Byte) /\ o \in Nat
      /\ m = o + Len(s) /\ e = m + Len(t) /\ e <= Len(bytes)
  BY DEF Written
<1>2. Len(s) \in Nat /\ Len(t) \in Nat
  BY <1>1
<1>3. /\ s \o t \in Seq(Byte)
      /\ Len(s \o t) = Len(s) + Len(t)
      /\ \A i \in 1..(Len(s) + Len(t)) :
            (s \o t)[i] = IF i <= Len(s) THEN s[i] ELSE t[i - Len(s)]
  BY <1>1, ConcatProperties
<1>4. ASSUME NEW i \in 1..(Len(s) + Len(t)) PROVE bytes[o + i] = (s \o t)[i]
  <2>1. CASE i <= Len(s)
    <3>1. i \in 1..Len(s)
      BY <1>2, <2>1
    <3>2. bytes[o + i] = s[i]
      BY <3>1 DEF Written
    <3> QED BY <1>3, <2>1, <3>2
  <2>2. CASE ~(i <= Len(s))
    <3>1. i - Len(s) \in 1..Len(t) /\ m + (i - Len(s)) = o + i
      BY <1>1, <1>2, <2>2
    <3>2. bytes[m + (i - Len(s))] = t[i - Len(s)]
      BY <3>1 DEF Written
    <3> QED BY <1>3, <2>2, <3>1, <3>2
  <2> QED BY <2>1, <2>2
<1>5. e = o + Len(s \o t)
  BY <1>1, <1>2, <1>3
<1> QED BY <1>1, <1>3, <1>4, <1>5 DEF Written

\* What is written together is written part by part.
LEMMA WrittenApart ==
    ASSUME bytes \in Seq(Byte), NEW s \in Seq(Nat), NEW t \in Seq(Nat), NEW o, NEW e,
           Written(o, s \o t, e)
    PROVE  /\ Written(o, s, o + Len(s)) /\ Written(o + Len(s), t, e)
           /\ s \in Seq(Byte) /\ t \in Seq(Byte)
           /\ o \in Nat /\ o + Len(s) \in Nat /\ e = o + Len(s) + Len(t) /\ e \in Nat
<1>1. Len(s) \in Nat /\ Len(t) \in Nat
  OBVIOUS
<1>2. /\ Len(s \o t) = Len(s) + Len(t)
      /\ \A i \in 1..(Len(s) + Len(t)) :
            (s \o t)[i] = IF i <= Len(s) THEN s[i] ELSE t[i - Len(s)]
  BY ConcatProperties
<1>3. /\ o \in Nat /\ e = o + (Len(s) + Len(t)) /\ e <= Len(bytes)
      /\ \A i \in 1..(Len(s) + Len(t)) : bytes[o + i] = (s \o t)[i]
  BY <1>2 DEF Written
<1>4. ASSUME NEW i \in 1..Len(s) PROVE bytes[o + i] = s[i]
  <2>1. i \in 1..(Len(s) + Len(t)) /\ i <= Len(s)
    BY <1>1
  <2> QED BY <1>2, <1>3, <2>1
<1>5. ASSUME NEW i \in 1..Len(t) PROVE bytes[o + Len(s) + i] = t[i]
  <2> DEFINE j == Len(s) + i
  <2>1. j \in 1..(Len(s) + Len(t)) /\ ~(j <= Len(s)) /\ j - Len(s) = i
    BY <1>1
  <2>2. o + Len(s) + i = o + j
    BY <1>1, <1>3
  <2> HIDE DEF j
  <2>3. (s \o t)[j] = t[j - Len(s)] /\ bytes[o + j] = (s \o t)[j]
    BY <1>2, <1>3, <2>1
  <2> QED BY <2>1, <2>2, <2>3
<1>6. /\ o + Len(s) \in Nat /\ e = o + Len(s) + Len(t) /\ e \in Nat
      /\ o + Len(s) <= Len(bytes)
  BY <1>1, <1>3
<1>7. s \in Seq(Byte) /\ t \in Seq(Byte)
  <2>1. \A i \in 1..Len(s) : o + i \in 1..Len(bytes) /\ bytes[o + i] \in Byte
    BY <1>1, <1>3
  <2>2. \A i \in 1..Len(t) :
           o + Len(s) + i \in 1..Len(bytes) /\ bytes[o + Len(s) + i] \in Byte
    BY <1>1, <1>3
  <2>3. \A i \in 1..Len(s) : s[i] \in Byte
    BY <1>4, <2>1
  <2>4. \A i \in 1..Len(t) : t[i] \in Byte
    BY <1>5, <2>2
  <2> QED BY <2>3, <2>4, SeqOfElements
<1> QED BY <1>3, <1>4, <1>5, <1>6, <1>7 DEF Written

\* Nothing is written anywhere.
LEMMA WrittenNothing ==
    ASSUME bytes \in Seq(Byte), NEW o \in Nat, NEW e, o <= Len(bytes)
    PROVE  Written(o, <<>>, e) <=> e = o
BY DEF Written

-----------------------------------------------------------------------------
(* Reading gives what is written, and what is read was written.            *)

\* What is written can be read.
LEMMA WrittenIsRead ==
    ASSUME bytes \in Seq(Byte), NEW o, NEW s, NEW e, Written(o, s, e)
    PROVE  /\ ReadBytesAt(o, Len(s)) = e /\ BytesAt(o, Len(s)) = s
           /\ o \in Nat /\ o # Bad /\ o \in Places /\ e \in Nat /\ e # Bad /\ e \in Places
<1> DEFINE n == Len(s)
<1>1. /\ s \in Seq(Byte) /\ o \in Nat /\ n \in Nat /\ e = o + n /\ e <= Len(bytes)
      /\ \A i \in 1..n : bytes[o + i] = s[i]
  BY DEF Written
<1>2. o # Bad /\ e # Bad /\ e \in Nat /\ Len(bytes) \in Nat /\ o <= Len(bytes)
  BY <1>1 DEF Bad
<1>3. o \in Places /\ e \in Places
  BY <1>1, <1>2 DEF Places
<1>4. ReadBytesAt(o, n) = e
  BY <1>1, <1>2 DEF ReadBytesAt
<1>5. BytesAt(o, n) = SubSeq(bytes, o + 1, o + n)
  BY <1>2, <1>4 DEF BytesAt
<1>6. BytesAt(o, n) \in Seq(Byte) /\ Len(BytesAt(o, n)) = n
  BY <1>1, <1>2, <1>3, <1>4, BytesAreBytes
<1>7. \A i \in 1..n : BytesAt(o, n)[i] = s[i]
  <2> DEFINE a == o + 1
             b == o + n
  <2>1. a \in Int /\ b \in Int /\ b - a + 1 = n /\ \A i \in 1..n : a + i - 1 = o + i
    BY <1>1
  <2>2. \A i \in a..b : bytes[i] \in Byte
    <3>1. \A i \in a..b : i \in 1..Len(bytes)
      BY <1>1, <1>2
    <3> QED BY <3>1
  <2>3. BytesAt(o, n) = SubSeq(bytes, a, b)
    BY <1>5
  <2> HIDE DEF a, b
  <2>4. \A i \in 1..(b - a + 1) : SubSeq(bytes, a, b)[i] = bytes[a + i - 1]
    BY <2>1, <2>2, SubSeqProperties
  <2> QED BY <1>1, <2>1, <2>3, <2>4
<1> HIDE DEF n
<1>8. BytesAt(o, n) = s
  BY <1>1, <1>6, <1>7, SeqEqual DEF n
<1> QED BY <1>1, <1>2, <1>3, <1>4, <1>8 DEF n

\* What is read was written.
LEMMA ReadIsWritten ==
    ASSUME bytes \in Seq(Byte), NEW o \in Places, NEW n \in Nat, ReadBytesAt(o, n) # Bad
    PROVE  Written(o, BytesAt(o, n), ReadBytesAt(o, n))
<1>1. o \in Nat /\ o # Bad /\ ReadBytesAt(o, n) = o + n /\ o + n <= Len(bytes)
  BY ReadEnds
<1>2. BytesAt(o, n) \in Seq(Byte) /\ Len(BytesAt(o, n)) = n
  BY BytesAreBytes
<1>3. \A i \in 1..n : BytesAt(o, n)[i] = bytes[o + i]
  <2> DEFINE a == o + 1
             b == o + n
  <2>1. a \in Int /\ b \in Int /\ b - a + 1 = n /\ \A i \in 1..n : a + i - 1 = o + i
    BY <1>1
  <2>2. \A i \in a..b : bytes[i] \in Byte
    <3>1. \A i \in a..b : i \in 1..Len(bytes)
      BY <1>1
    <3> QED BY <3>1
  <2>3. BytesAt(o, n) = SubSeq(bytes, a, b)
    BY DEF BytesAt
  <2> HIDE DEF a, b
  <2>4. \A i \in 1..(b - a + 1) : SubSeq(bytes, a, b)[i] = bytes[a + i - 1]
    BY <2>1, <2>2, SubSeqProperties
  <2> QED BY <2>1, <2>3, <2>4
<1> QED BY <1>1, <1>2, <1>3 DEF Written

\* A byte that is written.
LEMMA WrittenByte ==
    ASSUME bytes \in Seq(Byte), NEW o, NEW b, NEW e
    PROVE  /\ Written(o, <<b>>, e) =>
                 /\ ByteAt(o) = b /\ b \in Byte /\ ReadBytesAt(o, 1) = e
                 /\ o \in Nat /\ e = o + 1 /\ o # Bad /\ o \in Places /\ e \in Places /\ e # Bad
           /\ o \in Places /\ ReadBytesAt(o, 1) = e /\ e # Bad /\ ByteAt(o) = b =>
                 Written(o, <<b>>, e)
<1>1. ASSUME Written(o, <<b>>, e)
      PROVE  /\ ByteAt(o) = b /\ b \in Byte /\ ReadBytesAt(o, 1) = e
             /\ o \in Nat /\ e = o + 1 /\ o # Bad /\ o \in Places /\ e \in Places /\ e # Bad
  <2> DEFINE s == <<b>>
  <2>1. Len(s) = 1 /\ s[1] = b
    OBVIOUS
  <2>2. Written(o, s, e)
    BY <1>1
  <2> HIDE DEF s
  <2>3. /\ ReadBytesAt(o, 1) = e /\ o \in Nat /\ o # Bad /\ o \in Places
        /\ e \in Places /\ e # Bad /\ e = o + 1
    BY <2>1, <2>2, WrittenIsRead DEF Written
  <2>4. bytes[o + 1] = b /\ b \in Byte
    BY <2>1, <2>2 DEF Written
  <2> QED BY <2>3, <2>4 DEF ByteAt
<1>2. ASSUME o \in Places, ReadBytesAt(o, 1) = e, e # Bad, ByteAt(o) = b
      PROVE  Written(o, <<b>>, e)
  <2>1. o \in Nat /\ e = o + 1 /\ e <= Len(bytes)
    BY <1>2, ReadEnds
  <2>2. bytes[o + 1] = b /\ b \in Byte
    BY <1>2, ByteIsByte DEF ByteAt
  <2> QED BY <2>1, <2>2 DEF Written
<1> QED BY <1>1, <1>2

-----------------------------------------------------------------------------
(* Numbers in bytes.                                                       *)

\* The greater factor makes the greater product.
LEMMA ProductGrows ==
    ASSUME NEW b \in Nat, NEW p \in Nat, NEW q \in Nat, p < q
    PROVE  b * p + b <= b * q
<1> DEFINE k == q - p - 1
<1>1. k \in Nat /\ q = p + 1 + k
  OBVIOUS
<1>2. b * q = b * p + b + b * k
  <2>1. b * (p + 1 + k) = b * p + b + b * k
    BY <1>1
  <2> QED BY <1>1, <2>1
<1>3. b * k \in Nat /\ b * p \in Nat
  BY <1>1, ProductIsNumber
<1> HIDE DEF k
<1> QED BY <1>2, <1>3

\* Quotient and remainder are the only ones.
LEMMA QuotientIsUnique ==
    ASSUME NEW b \in Nat \ {0}, NEW r \in 0..(b - 1), NEW q \in Nat
    PROVE  (r + b * q) % b = r /\ (r + b * q) \div b = q
<1> DEFINE n == r + b * q
           quotient == n \div b
           rest == n % b
<1>1. n \in Nat
  <2>1. b * q \in Nat
    BY ProductIsNumber
  <2> QED BY <2>1
<1>2. quotient \in Nat /\ rest \in 0..(b - 1) /\ n = b * quotient + rest
  <2> HIDE DEF n
  <2> QED BY <1>1
<1> HIDE DEF quotient, rest
<1>3. b * q \in Nat /\ b * quotient \in Nat
  BY <1>2, ProductIsNumber
<1>4. ~(quotient < q)
  <2> SUFFICES ASSUME quotient < q PROVE FALSE
    OBVIOUS
  <2>1. b * quotient + b <= b * q
    BY <1>2, ProductGrows
  <2> QED BY <1>2, <1>3, <2>1
<1>5. ~(q < quotient)
  <2> SUFFICES ASSUME q < quotient PROVE FALSE
    OBVIOUS
  <2>1. b * q + b <= b * quotient
    BY <1>2, ProductGrows
  <2> QED BY <1>2, <1>3, <2>1
<1>6. quotient = q
  BY <1>2, <1>4, <1>5
<1>7. rest = r
  BY <1>2, <1>3, <1>6
<1> QED BY <1>6, <1>7 DEF quotient, rest

\* A number is its quotient and its remainder.
LEMMA QuotientAndRest ==
    ASSUME NEW n \in Nat, NEW b \in Nat \ {0}
    PROVE  /\ n \div b \in Nat /\ n % b \in 0..(b - 1)
           /\ n = (n % b) + b * (n \div b)
OBVIOUS

\* A quotient is less than the factor left over.
LEMMA QuotientIsLess ==
    ASSUME NEW b \in Nat \ {0}, NEW c \in Nat, NEW n \in Nat, n < b * c
    PROVE  n \div b < c
<1> DEFINE q == n \div b
           r == n % b
<1>1. q \in Nat /\ r \in 0..(b - 1) /\ n = r + b * q
  BY QuotientAndRest
<1> HIDE DEF q, r
<1>2. b * q \in Nat /\ b * c \in Nat
  BY <1>1, ProductIsNumber
<1>3. ~(c < q) /\ c # q
  <2>1. ASSUME c < q PROVE FALSE
    <3>1. b * c + b <= b * q
      BY <1>1, <2>1, ProductGrows
    <3> QED BY <1>1, <1>2, <3>1
  <2>2. ASSUME c = q PROVE FALSE
    BY <1>1, <1>2, <2>2
  <2> QED BY <2>1, <2>2
<1>4. q < c
  BY <1>1, <1>3
<1> QED BY <1>4 DEF q

\* Two bytes are two of one.
LEMMA TwoBytes ==
    ASSUME NEW a \in Byte, NEW b \in Byte
    PROVE  <<a>> \o <<b>> = <<a, b>>
<1> DEFINE s == <<a>>
           t == <<b>>
           u == <<a, b>>
<1>1. /\ s \in Seq(Byte) /\ Len(s) = 1 /\ s[1] = a
      /\ t \in Seq(Byte) /\ Len(t) = 1 /\ t[1] = b
      /\ u \in Seq(Byte) /\ Len(u) = 2 /\ u[1] = a /\ u[2] = b
  OBVIOUS
<1> HIDE DEF s, t, u
<1>2. /\ s \o t \in Seq(Byte) /\ Len(s \o t) = 2
      /\ \A i \in 1..2 : (s \o t)[i] = IF i <= 1 THEN s[i] ELSE t[i - 1]
  BY <1>1, ConcatProperties
<1>3. (s \o t)[1] = a /\ (s \o t)[2] = b
  <2>1. (s \o t)[2] = t[2 - 1]
    BY <1>2
  <2> QED BY <1>1, <1>2, <2>1
<1>4. \A i \in 1..2 : (s \o t)[i] = u[i]
  <2>1. \A i \in 1..2 : i = 1 \/ i = 2
    OBVIOUS
  <2> QED BY <1>1, <1>3, <2>1
<1>5. s \o t = u
  BY <1>1, <1>2, <1>4, SeqEqual
<1> QED BY <1>5 DEF s, t, u

\* A compact number that was read is written as it was: no encoding is longer
\* than necessary.
LEMMA CompactReadIsWritten ==
    ASSUME bytes \in Seq(Byte), NEW o \in Places, ReadCompactAt(o).offset # Bad
    PROVE  Written(o, Compact(ReadCompactAt(o).value), ReadCompactAt(o).offset)
<1> DEFINE first == ByteAt(o)
           behind == ReadBytesAt(o, 1)
           second == ByteAt(behind)
           end == ReadBytesAt(o, 2)
<1>1. /\ behind \in Places /\ end \in Places /\ first \in Byte /\ first \in Nat
  BY ReadEnds, ByteIsByte
<1>2. second \in Byte /\ second \in Nat
  BY <1>1, ByteIsByte
<1>3. ReadCompactAt(o) =
          IF first < HIGH THEN [value |-> first, offset |-> behind]
          ELSE IF second = 0 \/ second >= HIGH THEN [value |-> 0, offset |-> Bad]
          ELSE [value |-> first - HIGH + second * HIGH, offset |-> end]
  BY DEF ReadCompactAt
<1>4. CASE first < HIGH
  <2>1. behind # Bad
    BY <1>3, <1>4
  <2>2. Written(o, <<first>>, behind)
    BY <2>1, WrittenByte
  <2> QED BY <1>3, <1>4, <2>2 DEF Compact
<1>5. CASE ~(first < HIGH)
  <2>1. ~(second = 0 \/ second >= HIGH) /\ end # Bad
    BY <1>3, <1>5
  <2> DEFINE n == first - HIGH + second * HIGH
             low == first - HIGH
  <2>2. ReadCompactAt(o).value = n /\ ReadCompactAt(o).offset = end
    BY <1>3, <1>5, <2>1
  <2>3. low \in 0..(HIGH - 1) /\ HIGH \in Nat \ {0} /\ first = HIGH + low
    BY <1>1, <1>5, HighIsNumber DEF Byte
  <2>4. n = low + HIGH * second
    BY <1>2, HighIsNumber
  <2>5. n % HIGH = low /\ n \div HIGH = second
    <3> HIDE DEF n, low, second
    <3> QED BY <1>2, <2>3, <2>4, QuotientIsUnique
  <2>6. ~(n < HIGH)
    <3>1. HIGH * 0 + HIGH <= HIGH * second
      <4> HIDE DEF second
      <4> QED BY <1>2, <2>1, HighIsNumber, ProductGrows
    <3>2. HIGH * second \in Nat
      BY <1>2, HighIsNumber, ProductIsNumber
    <3> HIDE DEF n, low, second
    <3> QED BY <2>3, <2>4, <3>1, <3>2, HighIsNumber
  <2>7. Compact(n) = <<first>> \o <<second>>
    <3>1. Compact(n) = <<first, second>>
      <4> HIDE DEF n, first, second
      <4> QED BY <2>3, <2>5, <2>6 DEF Compact
    <3> QED BY <3>1
  <2>8. /\ o \in Nat /\ end = o + 2 /\ end <= Len(bytes)
        /\ behind = o + 1 /\ behind # Bad /\ ReadBytesAt(behind, 1) = end
    <3>1. o \in Nat /\ end = o + 2 /\ end <= Len(bytes) /\ o # Bad
      BY <2>1, ReadEnds
    <3> HIDE DEF end, behind
    <3>2. behind = o + 1 /\ behind # Bad
      BY <3>1, ReadEnds DEF behind, Bad
    <3>3. ReadBytesAt(behind, 1) = end
      BY <3>1, <3>2 DEF ReadBytesAt
    <3> QED BY <3>1, <3>2, <3>3
  <2>9. Written(o, <<first>>, behind) /\ Written(behind, <<second>>, end)
    BY <1>1, <2>1, <2>8, WrittenByte
  <2>10. Written(o, <<first>> \o <<second>>, end)
    <3> HIDE DEF first, second, behind, end
    <3> QED BY <2>9, WrittenTogether
  <2> QED BY <2>2, <2>7, <2>10
<1> QED BY <1>4, <1>5

\* A compact number that is written in two bytes at most is read.
LEMMA WrittenCompactIsRead ==
    ASSUME bytes \in Seq(Byte), NEW o, NEW e, NEW n \in Nat, n < HIGH * HIGH,
           Written(o, Compact(n), e)
    PROVE  ReadCompactAt(o) = [value |-> n, offset |-> e] /\ o + 1 <= e
<1>1. CASE n < HIGH
  <2>1. Written(o, <<n>>, e)
    BY <1>1 DEF Compact
  <2>2. ByteAt(o) = n /\ ReadBytesAt(o, 1) = e /\ o \in Nat /\ e = o + 1
    BY <2>1, WrittenByte
  <2> QED BY <1>1, <2>2 DEF ReadCompactAt
<1>2. CASE ~(n < HIGH)
  <2> DEFINE low == n % HIGH
             second == n \div HIGH
             first == HIGH + low
  <2>1. /\ HIGH \in Nat \ {0} /\ low \in 0..(HIGH - 1) /\ second \in Nat
        /\ n = low + HIGH * second
    <3> DEFINE b == HIGH
               q == n \div b
               r == n % b
    <3>1. b \in Nat \ {0}
      BY HighIsNumber
    <3> HIDE DEF b
    <3>2. q \in Nat /\ r \in 0..(b - 1) /\ n = r + b * q
      BY <3>1, QuotientAndRest
    <3> QED BY <3>1, <3>2 DEF b
  <2>2. second < HIGH
    BY <2>1, QuotientIsLess
  <2>3. Compact(n) = <<first, second>>
    BY <1>2 DEF Compact
  <2> HIDE DEF low, second
  <2>4. second # 0
    BY <1>2, <2>1
  <2>5. first \in Byte /\ second \in Byte /\ ~(first < HIGH)
    BY <2>1, <2>2, HighIsNumber DEF Byte
  <2> HIDE DEF first
  <2>6. Written(o, <<first>> \o <<second>>, e)
    BY <2>3, <2>5, TwoBytes
  <2>7. /\ <<first>> \in Seq(Byte) /\ <<second>> \in Seq(Byte)
        /\ Len(<<first>>) = 1 /\ Len(<<second>>) = 1
    BY <2>5
  <2>8. Written(o, <<first>>, o + 1) /\ Written(o + 1, <<second>>, e) /\ o \in Nat
    BY <2>6, <2>7, WrittenApart, BytesAreNumbers
  <2>9. /\ ByteAt(o) = first /\ ReadBytesAt(o, 1) = o + 1
        /\ ByteAt(o + 1) = second /\ ReadBytesAt(o + 1, 1) = e /\ e = o + 1 + 1 /\ e # Bad
        /\ o \in Places
    BY <2>8, WrittenByte
  <2>10. ReadBytesAt(o, 2) = e
    BY <2>8, <2>9, ReadEnds DEF ReadBytesAt, Bad
  <2>11. second * HIGH = HIGH * second /\ first - HIGH = low
    BY <2>1 DEF first
  <2>12. ReadCompactAt(o) = [value |-> first - HIGH + second * HIGH, offset |-> e]
    BY <2>2, <2>4, <2>5, <2>9, <2>10, <2>1, HighIsNumber DEF ReadCompactAt
  <2> QED BY <2>1, <2>8, <2>9, <2>11, <2>12
<1> QED BY <1>1, <1>2

\* A vector that is read was written.
LEMMA VectorReadIsWritten ==
    ASSUME bytes \in Seq(Byte), NEW o \in Places, NEW count, count = ReadCompactAt(o),
           ReadBytesAt(count.offset, count.value) # Bad
    PROVE  Written(o, Vector(BytesAt(count.offset, count.value)),
                   ReadBytesAt(count.offset, count.value))
<1> DEFINE s == BytesAt(count.offset, count.value)
           end == ReadBytesAt(count.offset, count.value)
<1>1. count.value \in Nat /\ count.offset \in Places
  BY CompactIsRead
<1>2. count.offset # Bad
  BY <1>1, ReadEnds
<1>3. Written(o, Compact(count.value), count.offset)
  BY <1>2, CompactReadIsWritten
<1>4. Written(count.offset, s, end) /\ Len(s) = count.value
  BY <1>1, ReadIsWritten, BytesAreBytes
<1> HIDE DEF s, end
<1>5. Written(o, Compact(count.value) \o s, end)
  BY <1>3, <1>4, WrittenTogether
<1> QED BY <1>4, <1>5 DEF Vector, s, end

\* A vector that is written is read.
LEMMA WrittenVectorIsRead ==
    ASSUME bytes \in Seq(Byte), NEW s \in CompactSeq(Byte), NEW o, NEW e,
           Compact(Len(s)) \in Seq(Byte), Written(o, Vector(s), e)
    PROVE  /\ ReadCompactAt(o).value = Len(s)
           /\ ReadBytesAt(ReadCompactAt(o).offset, Len(s)) = e
           /\ BytesAt(ReadCompactAt(o).offset, Len(s)) = s
           /\ o + 1 + Len(s) <= e
<1> DEFINE m == o + Len(Compact(Len(s)))
<1>1. s \in Seq(Byte) /\ Len(s) \in Nat /\ Len(s) < HIGH * HIGH
  BY DEF CompactSeq
<1>2. Written(o, Compact(Len(s)) \o s, e)
  BY DEF Vector
<1>3. Written(o, Compact(Len(s)), m) /\ Written(m, s, e) /\ m \in Nat /\ o \in Nat
  <2> DEFINE c == Compact(Len(s))
  <2>1. c \in Seq(Byte) /\ Written(o, c \o s, e)
    BY <1>2
  <2> HIDE DEF c
  <2> QED BY <1>1, <2>1, WrittenApart, BytesAreNumbers DEF c
<1> HIDE DEF m
<1>4. ReadCompactAt(o) = [value |-> Len(s), offset |-> m] /\ o + 1 <= m
  BY <1>1, <1>3, WrittenCompactIsRead
<1>5. ReadBytesAt(m, Len(s)) = e /\ BytesAt(m, Len(s)) = s /\ e = m + Len(s)
  BY <1>3, WrittenIsRead DEF Written
<1> QED BY <1>1, <1>3, <1>4, <1>5

\* What is less than the factor is no multiple of it.
LEMMA SmallQuotient ==
    ASSUME NEW b \in Nat \ {0}, NEW n \in Nat, n < b
    PROVE  n \div b = 0
<1>1. n < b * 1
  OBVIOUS
<1>2. n \div b < 1
  BY <1>1, QuotientIsLess
<1>3. n \div b \in Nat
  OBVIOUS
<1> QED BY <1>2, <1>3

ShiftStep == [i \in Nat |-> [m \in Nat |-> m \div (2 * HIGH)]]

\* A number loses one byte after the other.
LEMMA ShiftedNumbers ==
    ASSUME NEW n \in Nat
    PROVE  /\ Shifted(n)[0] = n
           /\ \A i \in Nat : /\ Shifted(n)[i] \in Nat
                             /\ Shifted(n)[i + 1] = Shifted(n)[i] \div (2 * HIGH)
<1> DEFINE base == 2 * HIGH
           step == ShiftStep
           Body(g) == [i \in Nat |-> IF i = 0 THEN n ELSE g[i - 1] \div (2 * HIGH)]
<1>1. step = [i \in Nat |-> [m \in Nat |-> m \div base]] /\ base \in Nat \ {0}
  BY HighIsNumber DEF ShiftStep
<1>2. step \in Steps(Nat)
  <2> HIDE DEF base, step
  <2>1. \A m \in Nat : m \div base \in Nat
    BY <1>1
  <2> QED BY <1>1, <2>1 DEF Steps
<1>3. PICK f : SolvesAll(Nat, n, step, f)
  <2> HIDE DEF step
  <2> QED BY <1>2, RecursionDefines
<1>4. f \in [Nat -> Nat] /\ f[0] = n
  BY <1>3 DEF SolvesAll
<1>5. ASSUME NEW i \in Nat
      PROVE  f[i + 1] = f[i] \div (2 * HIGH)
  <2>1. f[i + 1] = step[i][f[i]] /\ f[i] \in Nat
    BY <1>3 DEF SolvesAll
  <2> HIDE DEF base, step
  <2>2. step[i][f[i]] = f[i] \div base
    BY <1>1, <2>1
  <2> QED BY <2>1, <2>2 DEF base
<1> HIDE DEF step, base
<1>7. f = Body(f)
  <2>1. f = [i \in Nat |-> f[i]]
    BY <1>4
  <2>2. ASSUME NEW i \in Nat
        PROVE  f[i] = IF i = 0 THEN n ELSE f[i - 1] \div (2 * HIGH)
    <3>1. CASE i = 0
      BY <1>4, <3>1
    <3>2. CASE i # 0
      <4>1. i - 1 \in Nat /\ i - 1 + 1 = i
        BY <3>2
      <4>2. f[i - 1 + 1] = f[i - 1] \div (2 * HIGH)
        BY <1>5, <4>1
      <4> QED BY <3>2, <4>1, <4>2
    <3> QED BY <3>1, <3>2
  <2>3. \A i \in Nat : f[i] = Body(f)[i]
    BY <2>2
  <2> QED BY <2>1, <2>3
<1> DEFINE G == CHOOSE g : g = Body(g)
<1>8. G = Body(G)
  <2> HIDE DEF Body
  <2> QED BY <1>7
<1>9. Shifted(n) = G
  BY DEF Shifted
<1>10. \A i \in Nat : G[i] = IF i = 0 THEN n ELSE G[i - 1] \div (2 * HIGH)
  <2> HIDE DEF G
  <2>1. \A i \in Nat : Body(G)[i] = IF i = 0 THEN n ELSE G[i - 1] \div (2 * HIGH)
    OBVIOUS
  <2> HIDE DEF Body
  <2> QED BY <1>8, <2>1
<1> HIDE DEF G
<1> DEFINE Numbers == {i \in Nat : G[i] \in Nat}
<1>11. G[0] = n
  BY <1>10
<1>12. \A i \in Nat : G[i + 1] = G[i] \div (2 * HIGH)
  <2> SUFFICES ASSUME NEW i \in Nat PROVE G[i + 1] = G[i] \div (2 * HIGH)
    OBVIOUS
  <2>1. i + 1 \in Nat /\ i + 1 # 0 /\ i + 1 - 1 = i
    OBVIOUS
  <2> QED BY <1>10, <2>1
<1>13. ASSUME NEW i \in Numbers \cap Nat PROVE i + 1 \in Numbers
  <2>1. i + 1 \in Nat /\ G[i] \in Nat
    OBVIOUS
  <2>2. G[i] \div base \in Nat
    BY <1>1, <2>1
  <2> QED BY <1>12, <2>1, <2>2 DEF base
<1>14. Nat \subseteq Numbers
  <2> HIDE DEF Numbers
  <2>1. 0 \in Numbers
    BY <1>11 DEF Numbers
  <2> QED BY <2>1, <1>13, NaturalInduction
<1> QED BY <1>9, <1>11, <1>12, <1>14

\* What has no bytes left has none in more of them.
LEMMA FitsInMore ==
    ASSUME NEW n \in Nat, NEW width \in Nat, NEW more \in Nat, FitsIn(n, width), width <= more
    PROVE  FitsIn(n, more)
<1> DEFINE rest == Shifted(n)
           base == 2 * HIGH
           Empty == {i \in Nat : rest[width + i] = 0}
<1>1. base \in Nat \ {0}
  BY HighIsNumber
<1>2. rest[width] = 0 /\ \A i \in Nat : rest[i + 1] = rest[i] \div base
  BY ShiftedNumbers DEF FitsIn
<1>3. 0 \div base = 0
  <2> HIDE DEF base
  <2> QED BY <1>1, SmallQuotient
<1> HIDE DEF rest, base
<1>4. 0 \in Empty
  BY <1>2
<1>5. ASSUME NEW i \in Empty \cap Nat PROVE i + 1 \in Empty
  <2>1. rest[width + i] = 0 /\ width + i \in Nat /\ width + (i + 1) = width + i + 1
    OBVIOUS
  <2> QED BY <1>2, <1>3, <2>1
<1>6. Nat \subseteq Empty
  <2> HIDE DEF Empty
  <2> QED BY <1>4, <1>5, NaturalInduction
<1>7. more - width \in Nat /\ width + (more - width) = more
  OBVIOUS
<1>8. rest[width + (more - width)] = 0
  BY <1>6, <1>7
<1> QED BY <1>7, <1>8 DEF FitsIn, rest

\* What two bytes hold fits in two.
LEMMA TwoBytesFit ==
    ASSUME NEW n \in Nat, n < HIGH * HIGH
    PROVE  FitsIn(n, 2)
<1> DEFINE base == 2 * HIGH
           rest == Shifted(n)
<1>1. base \in Nat \ {0} /\ n < base * base
  <2>1. HIGH * HIGH \in Nat /\ base * base = 4 * (HIGH * HIGH)
    BY HighIsNumber
  <2> QED BY <2>1, HighIsNumber
<1>2. rest[0] = n /\ rest[1] = n \div base /\ rest[2] = rest[1] \div base
  <2>1. \A i \in Nat : rest[i + 1] = rest[i] \div base
    BY ShiftedNumbers
  <2>2. rest[0] = n
    BY ShiftedNumbers
  <2>3. rest[0 + 1] = rest[0] \div base /\ rest[1 + 1] = rest[1] \div base
    BY <2>1
  <2> HIDE DEF rest, base
  <2> QED BY <2>2, <2>3
<1> HIDE DEF base, rest
<1>3. rest[1] < base /\ rest[1] \in Nat
  BY <1>1, <1>2, QuotientIsLess
<1>4. rest[2] = 0
  BY <1>1, <1>2, <1>3, SmallQuotient
<1> QED BY <1>4 DEF FitsIn, rest

\* Five bits fit in the bytes of a mask.
LEMMA MaskFits ==
    ASSUME NEW mask \in 0..31
    PROVE  FitsIn(mask, U32_BYTES)
<1> DEFINE base == 2 * HIGH
           rest == Shifted(mask)
<1>1. base \in Nat \ {0} /\ base >= 4
  BY HighIsNumber
<1>2. rest[0] = mask /\ rest[1] = mask \div base /\ rest[2] = rest[1] \div base
      /\ rest[3] = rest[2] \div base
  <2>1. \A i \in Nat : rest[i + 1] = rest[i] \div base
    BY ShiftedNumbers
  <2>2. rest[0] = mask
    BY ShiftedNumbers
  <2>3. rest[0 + 1] = rest[0] \div base /\ rest[1 + 1] = rest[1] \div base
        /\ rest[2 + 1] = rest[2] \div base
    BY <2>1
  <2> HIDE DEF rest, base
  <2> QED BY <2>2, <2>3
<1> HIDE DEF base, rest
<1>3. rest[1] < 8 /\ rest[1] \in Nat
  <2>1. mask < base * 8
    BY <1>1
  <2> QED BY <1>1, <1>2, <2>1, QuotientIsLess
<1>4. rest[2] < 2 /\ rest[2] \in Nat
  <2>1. rest[1] < base * 2
    BY <1>1, <1>3
  <2> QED BY <1>1, <1>2, <1>3, <2>1, QuotientIsLess
<1>5. rest[3] = 0
  BY <1>1, <1>2, <1>4, SmallQuotient
<1>6. FitsIn(mask, 3)
  BY <1>5 DEF FitsIn, rest
<1>7. U32_BYTES \in Nat /\ 3 <= U32_BYTES
  BY FormatAssumption
<1> QED BY <1>6, <1>7, FitsInMore

\* The bytes of a number are bytes.
LEMMA LittleEndianIsBytes ==
    ASSUME NEW n \in Nat, NEW width \in Nat
    PROVE  /\ LittleEndianBytes(n, width) \in Seq(Byte)
           /\ Len(LittleEndianBytes(n, width)) = width
           /\ \A i \in 1..width : LittleEndianBytes(n, width)[i] = Shifted(n)[i - 1] % (2 * HIGH)
<1> DEFINE base == 2 * HIGH
           s == LittleEndianBytes(n, width)
<1>1. base \in Nat \ {0} /\ Byte = 0..(base - 1)
  BY HighIsNumber DEF Byte
<1>2. s = [i \in 1..width |-> Shifted(n)[i - 1] % base]
  BY DEF LittleEndianBytes
<1> HIDE DEF base
<1>3. \A i \in 1..width : Shifted(n)[i - 1] % base \in Byte
  <2> SUFFICES ASSUME NEW i \in 1..width PROVE Shifted(n)[i - 1] % base \in Byte
    OBVIOUS
  <2> DEFINE m == Shifted(n)[i - 1]
  <2>1. m \in Nat
    BY ShiftedNumbers
  <2> HIDE DEF m
  <2>2. m % base \in 0..(base - 1)
    BY <1>1, <2>1
  <2> QED BY <1>1, <2>2 DEF m
<1> HIDE DEF s
<1>4. s \in [1..width -> Byte]
  BY <1>2, <1>3
<1>5. s \in Seq(Byte) /\ Len(s) = width
  BY <1>4
<1>6. \A i \in 1..width : s[i] = Shifted(n)[i - 1] % base
  BY <1>2
<1> QED BY <1>5, <1>6 DEF s, base

\* A number that was read is written in the bytes that it was read from.
LEMMA NumberReadIsWritten ==
    ASSUME bytes \in Seq(Byte), NEW o \in Places, NEW width \in Nat,
           ReadBytesAt(o, width) # Bad
    PROVE  /\ LittleEndianBytes(LittleEndianAt(o, width), width) = BytesAt(o, width)
           /\ FitsIn(LittleEndianAt(o, width), width)
<1> DEFINE region == BytesAt(o, width)
           number == LittleEndianAt(o, width)
           base == 2 * HIGH
           rest == Shifted(number)
<1>1. region \in Seq(Byte) /\ Len(region) = width /\ number \in Nat
  BY BytesAreBytes, LittleEndianIsNumber
<1>2. LittleEndianDigits(region, number)
  BY LittleEndianUnfolds
<1>3. base \in Nat \ {0} /\ Byte = 0..(base - 1)
  BY HighIsNumber DEF Byte
<1> HIDE DEF region, number
<1>4. PICK value :
         /\ \A i \in Nat : /\ value[i] \in Nat
                           /\ value[i] = IF i \in 1..width
                                         THEN region[width - i + 1] + base * value[i - 1] ELSE 0
         /\ number = value[width]
  <2>1. PICK value :
           /\ \A i \in Nat :
                 /\ value[i] \in Nat
                 /\ value[i] = IF i \in 1..Len(region)
                               THEN region[Len(region) - i + 1] + 2 * HIGH * value[i - 1]
                               ELSE 0
           /\ number = value[Len(region)]
    BY <1>2 DEF LittleEndianDigits
  <2> QED BY <1>1, <2>1
<1>5. rest[0] = number /\ \A i \in Nat : rest[i + 1] = rest[i] \div base
  BY <1>1, ShiftedNumbers
<1> HIDE DEF base, rest
<1>6. ASSUME NEW i \in 1..width
      PROVE  /\ value[i] % base = region[width - i + 1]
             /\ value[i] \div base = value[i - 1]
  <2> DEFINE r == region[width - i + 1]
             q == value[i - 1]
  <2>1. i \in Nat /\ i - 1 \in Nat /\ width - i + 1 \in 1..width
    OBVIOUS
  <2>2. r \in 0..(base - 1) /\ q \in Nat /\ value[i] = r + base * q
    <3>1. r \in Byte
      BY <1>1, <2>1
    <3>2. q \in Nat /\ value[i] = r + base * q
      BY <1>4, <2>1
    <3> QED BY <1>3, <3>1, <3>2
  <2> HIDE DEF r, q
  <2>3. (r + base * q) % base = r /\ (r + base * q) \div base = q
    BY <1>3, <2>2, QuotientIsUnique
  <2> QED BY <2>2, <2>3 DEF r, q
<1> DEFINE Same == {i \in Nat : i <= width => rest[i] = value[width - i]}
<1>7. 0 \in Same
  BY <1>4, <1>5
<1>8. ASSUME NEW i \in Same \cap Nat PROVE i + 1 \in Same
  <2> SUFFICES ASSUME i + 1 <= width PROVE rest[i + 1] = value[width - (i + 1)]
    OBVIOUS
  <2>1. width - i \in 1..width /\ i <= width /\ width - i - 1 = width - (i + 1)
    OBVIOUS
  <2>2. rest[i] = value[width - i]
    BY <2>1
  <2>3. value[width - i] \div base = value[width - i - 1]
    BY <1>6, <2>1
  <2> QED BY <1>5, <2>1, <2>2, <2>3
<1>9. Nat \subseteq Same
  <2> HIDE DEF Same
  <2> QED BY <1>7, <1>8, NaturalInduction
<1>10. \A i \in 0..width : rest[i] = value[width - i]
  BY <1>9
<1>11. rest[width] = 0
  <2>1. value[0] = 0
    BY <1>4
  <2> QED BY <1>10, <2>1
<1> DEFINE s == LittleEndianBytes(number, width)
<1>12. s \in Seq(Byte) /\ Len(s) = width /\ \A i \in 1..width : s[i] = rest[i - 1] % base
  BY <1>1, LittleEndianIsBytes DEF rest, base
<1> HIDE DEF s
<1>13. ASSUME NEW i \in 1..width PROVE s[i] = region[i]
  <2> DEFINE j == width - (i - 1)
  <2>1. i - 1 \in 0..width /\ j \in 1..width /\ width - j + 1 = i
    OBVIOUS
  <2>2. rest[i - 1] = value[j]
    BY <1>10, <2>1
  <2> HIDE DEF j
  <2>3. value[j] % base = region[width - j + 1]
    BY <1>6, <2>1
  <2> QED BY <1>12, <2>1, <2>2, <2>3
<1>14. s = region
  BY <1>1, <1>12, <1>13, SeqEqual
<1> QED BY <1>11, <1>14 DEF FitsIn, rest, s, number, region

\* A number that is written in bytes that it fits in is read.
LEMMA WrittenNumberIsRead ==
    ASSUME bytes \in Seq(Byte), NEW n \in Nat, NEW width \in Nat, FitsIn(n, width),
           NEW o, NEW e, Written(o, LittleEndianBytes(n, width), e)
    PROVE  LittleEndianAt(o, width) = n /\ ReadBytesAt(o, width) = e
<1> DEFINE region == LittleEndianBytes(n, width)
           number == LittleEndianAt(o, width)
           base == 2 * HIGH
           rest == Shifted(n)
<1>1. /\ region \in Seq(Byte) /\ Len(region) = width
      /\ \A i \in 1..width : region[i] = rest[i - 1] % base
  BY LittleEndianIsBytes
<1>2. /\ rest[0] = n /\ rest[width] = 0
      /\ \A i \in Nat : rest[i] \in Nat /\ rest[i + 1] = rest[i] \div base
  BY ShiftedNumbers DEF FitsIn
<1>3. base \in Nat \ {0}
  BY HighIsNumber
<1> HIDE DEF region
<1>4. Written(o, region, e)
  BY DEF region
<1>5. BytesAt(o, width) = region /\ ReadBytesAt(o, width) = e /\ o \in Places
  BY <1>1, <1>4, WrittenIsRead
<1>6. LittleEndianDigits(region, number)
  BY <1>5, LittleEndianUnfolds
<1> HIDE DEF number
<1>7. PICK value :
         /\ \A i \in Nat : /\ value[i] \in Nat
                           /\ value[i] = IF i \in 1..width
                                         THEN region[width - i + 1] + base * value[i - 1] ELSE 0
         /\ number = value[width]
  <2>1. PICK value :
           /\ \A i \in Nat :
                 /\ value[i] \in Nat
                 /\ value[i] = IF i \in 1..Len(region)
                               THEN region[Len(region) - i + 1] + 2 * HIGH * value[i - 1]
                               ELSE 0
           /\ number = value[Len(region)]
    BY <1>6 DEF LittleEndianDigits
  <2> QED BY <1>1, <2>1
<1> HIDE DEF base, rest
<1> DEFINE Same == {i \in Nat : i <= width => value[i] = rest[width - i]}
<1>8. 0 \in Same
  <2>1. value[0] = 0
    BY <1>7
  <2>2. width - 0 = width /\ 0 \in Nat
    OBVIOUS
  <2>3. value[0] = rest[width - 0]
    BY <1>2, <2>1, <2>2
  <2> QED BY <2>3
<1>9. ASSUME NEW i \in Same \cap Nat PROVE i + 1 \in Same
  <2> SUFFICES ASSUME i + 1 <= width PROVE value[i + 1] = rest[width - (i + 1)]
    OBVIOUS
  <2> DEFINE j == width - (i + 1)
  <2>1. /\ i <= width /\ i + 1 \in 1..width /\ i + 1 - 1 = i /\ i + 1 \in Nat
        /\ width - (i + 1) + 1 = j + 1 /\ j \in Nat /\ j + 1 \in 1..width
        /\ j + 1 - 1 = j /\ width - i = j + 1
    OBVIOUS
  <2>2. value[i] = rest[j + 1]
    BY <2>1
  <2>3. value[i + 1] = region[j + 1] + base * value[i]
    BY <1>7, <2>1
  <2> HIDE DEF j
  <2>4. region[j + 1] = rest[j] % base /\ rest[j + 1] = rest[j] \div base /\ rest[j] \in Nat
    BY <1>1, <1>2, <2>1
  <2> DEFINE m == rest[j]
  <2>5. m \in Nat /\ value[i + 1] = (m % base) + base * (m \div base)
    BY <2>2, <2>3, <2>4
  <2> HIDE DEF m
  <2>6. m = (m % base) + base * (m \div base)
    BY <1>3, <2>5, QuotientAndRest
  <2> QED BY <2>5, <2>6 DEF m, j
<1>10. Nat \subseteq Same
  <2> HIDE DEF Same
  <2> QED BY <1>8, <1>9, NaturalInduction
<1>11. value[width] = rest[0]
  BY <1>10
<1> QED BY <1>2, <1>5, <1>7, <1>11 DEF number

-----------------------------------------------------------------------------
(* Parts of the input that follow one another.                             *)

\* What the first sequences are together.
GrowsTo(t, pre) ==
    /\ pre[0] = <<>>
    /\ \A i \in 0..Len(t) : pre[i] \in Seq(Byte)
    /\ \A i \in 1..Len(t) : pre[i] = pre[i - 1] \o t[i]

FlattenStep(s) ==
    [i \in Nat |-> [t \in Seq(Byte) |-> IF i + 1 \in 1..Len(s) THEN t \o s[i + 1] ELSE <<>>]]

\* Sequences are flattened one after the other.
LEMMA FlattenUnfolds ==
    ASSUME NEW s \in Seq(Seq(Byte))
    PROVE  \E pre : GrowsTo(s, pre) /\ FlattenSeq(s) = pre[Len(s)]
<1> DEFINE n == Len(s)
           S == Seq(Byte)
           step == FlattenStep(s)
           Body(g) == [i \in 1..n |-> IF i = 1 THEN s[i] ELSE g[i - 1] \o s[i]]
<1>1. n \in Nat /\ \A i \in 1..n : s[i] \in S
  OBVIOUS
<1>2. <<>> \in S /\ \A t \in S : \A i \in 1..n : t \o s[i] \in S
  <2> SUFFICES ASSUME NEW t \in S, NEW i \in 1..n PROVE t \o s[i] \in S
    OBVIOUS
  <2>1. s[i] \in Seq(Byte) /\ t \in Seq(Byte)
    BY <1>1
  <2> QED BY <2>1, ConcatProperties
<1>3. step \in Steps(S)
  <2>1. step = [i \in Nat |-> [t \in S |-> IF i + 1 \in 1..n THEN t \o s[i + 1] ELSE <<>>]]
    BY DEF FlattenStep
  <2> HIDE DEF step, S, n
  <2>2. \A i \in Nat, t \in S : (IF i + 1 \in 1..n THEN t \o s[i + 1] ELSE <<>>) \in S
    BY <1>2
  <2> QED BY <2>1, <2>2 DEF Steps
<1>4. PICK f : SolvesAll(S, <<>>, step, f)
  <2> HIDE DEF step, S
  <2> QED BY <1>2, <1>3, RecursionDefines
<1>5. f \in [Nat -> S] /\ f[0] = <<>> /\ \A i \in Nat : f[i] \in S
  <2> HIDE DEF S
  <2> QED BY <1>4 DEF SolvesAll
<1>6. \A i \in 1..n : f[i] = f[i - 1] \o s[i]
  <2> SUFFICES ASSUME NEW i \in 1..n PROVE f[i] = f[i - 1] \o s[i]
    OBVIOUS
  <2> DEFINE j == i - 1
  <2>1. j \in Nat /\ j + 1 = i /\ j + 1 \in 1..n
    OBVIOUS
  <2> HIDE DEF j
  <2>2. f[j + 1] = step[j][f[j]] /\ f[j] \in S
    BY <1>4, <1>5, <2>1 DEF SolvesAll
  <2>3. step[j][f[j]] = f[j] \o s[j + 1]
    BY <2>1, <2>2 DEF FlattenStep
  <2>4. f[j + 1] = f[j] \o s[j + 1]
    BY <2>2, <2>3
  <2>5. f[i] = f[j] \o s[i]
    BY <2>1, <2>4
  <2> QED BY <2>5 DEF j
<1> HIDE DEF step
<1>7. GrowsTo(s, f)
  <2>1. \A i \in 0..n : f[i] \in Seq(Byte)
    BY <1>1, <1>5
  <2> QED BY <1>5, <1>6, <2>1 DEF GrowsTo
<1>8. CASE n = 0
  <2>1. FlattenSeq(s) = s /\ s = <<>>
    BY <1>8, EmptySeq DEF FlattenSeq
  <2> QED BY <1>5, <1>7, <1>8, <2>1
<1>9. CASE n # 0
  <2> DEFINE G == CHOOSE g : g = Body(g)
             h == [i \in 1..n |-> f[i]]
  <2>1. FlattenSeq(s) = G[n]
    BY <1>9 DEF FlattenSeq
  <2>2. h = Body(h)
    <3>1. ASSUME NEW i \in 1..n PROVE h[i] = IF i = 1 THEN s[i] ELSE h[i - 1] \o s[i]
      <4>1. h[i] = f[i - 1] \o s[i]
        BY <1>6
      <4>2. CASE i = 1
        <5>1. f[i - 1] = <<>> /\ s[i] \in Seq(Byte)
          BY <1>1, <1>5, <4>2
        <5>2. <<>> \o s[i] = s[i]
          BY <5>1, ConcatEmptySeq
        <5> QED BY <4>1, <4>2, <5>1, <5>2
      <4>3. CASE i # 1
        <5>1. i - 1 \in 1..n
          BY <4>3
        <5>2. h[i - 1] = f[i - 1]
          BY <5>1
        <5> QED BY <4>1, <4>3, <5>2
      <4> QED BY <4>2, <4>3
    <3> HIDE DEF h
    <3>2. \A i \in 1..n : h[i] = Body(h)[i]
      BY <3>1
    <3>3. h = [i \in 1..n |-> h[i]]
      BY DEF h
    <3> QED BY <3>2, <3>3
  <2>3. G = Body(G)
    <3> HIDE DEF Body, h
    <3> QED BY <2>2
  <2> HIDE DEF G
  <2>4. \A i \in 1..n : G[i] = IF i = 1 THEN s[i] ELSE G[i - 1] \o s[i]
    <3>1. \A i \in 1..n : Body(G)[i] = IF i = 1 THEN s[i] ELSE G[i - 1] \o s[i]
      OBVIOUS
    <3> HIDE DEF Body
    <3> QED BY <2>3, <3>1
  <2> DEFINE Same == {i \in Nat : i + 1 <= n => G[i + 1] = f[i + 1]}
  <2>5. 0 \in Same
    <3>1. 1 \in 1..n
      BY <1>1, <1>9
    <3>2. G[1] = s[1] /\ h[1] = f[1]
      BY <2>4, <3>1
    <3>3. h[1] = s[1]
      <4>1. Body(h)[1] = s[1]
        BY <3>1
      <4> HIDE DEF Body, h
      <4> QED BY <2>2, <4>1
    <3>4. 0 \in Nat /\ 0 + 1 = 1
      OBVIOUS
    <3> HIDE DEF h
    <3>5. G[0 + 1] = f[0 + 1]
      BY <3>2, <3>3, <3>4
    <3> QED BY <3>4, <3>5
  <2>6. ASSUME NEW i \in Same \cap Nat PROVE i + 1 \in Same
    <3> SUFFICES ASSUME i + 1 + 1 <= n PROVE G[i + 1 + 1] = f[i + 1 + 1]
      OBVIOUS
    <3> DEFINE k == i + 1 + 1
    <3>1. k \in 1..n /\ k # 1 /\ k - 1 = i + 1 /\ i + 1 <= n
      BY <1>1
    <3>2. G[i + 1] = f[i + 1]
      BY <3>1
    <3> HIDE DEF k
    <3>3. G[k] = G[k - 1] \o s[k] /\ f[k] = f[k - 1] \o s[k]
      BY <1>6, <2>4, <3>1
    <3> QED BY <3>1, <3>2, <3>3 DEF k
  <2>7. Nat \subseteq Same
    <3> HIDE DEF Same
    <3> QED BY <2>5, <2>6, NaturalInduction
  <2>8. n - 1 \in Nat /\ n - 1 + 1 = n
    BY <1>1, <1>9
  <2>9. n - 1 \in Same
    BY <2>7, <2>8
  <2>10. G[n] = f[n]
    BY <2>8, <2>9
  <2> QED BY <1>7, <2>1, <2>10
<1> QED BY <1>8, <1>9

\* Sequences that are written one after the other, between these places.
Tiled(s, q) == \A i \in 1..Len(s) : Written(q[i - 1], s[i], q[i])

\* Sequences that are written one after the other are written flattened.
LEMMA TiledIsWritten ==
    ASSUME bytes \in Seq(Byte), NEW s \in Seq(Seq(Byte)), NEW q, Tiled(s, q),
           q[0] \in Nat, q[0] <= Len(bytes)
    PROVE  Written(q[0], FlattenSeq(s), q[Len(s)])
<1> DEFINE n == Len(s)
<1>1. PICK pre : GrowsTo(s, pre) /\ FlattenSeq(s) = pre[n]
  BY FlattenUnfolds
<1>2. n \in Nat
  OBVIOUS
<1>3. pre[0] = <<>> /\ \A i \in 1..n : pre[i] = pre[i - 1] \o s[i]
  BY <1>1 DEF GrowsTo
<1>4. \A i \in 1..n : Written(q[i - 1], s[i], q[i])
  BY DEF Tiled
<1> HIDE DEF n
<1> DEFINE Up == {i \in Nat : i <= n => Written(q[0], pre[i], q[i])}
<1>5. 0 \in Up
  <2> DEFINE o == q[0]
  <2>1. Written(o, <<>>, o)
    <3> HIDE DEF o
    <3>1. o \in Nat /\ o <= Len(bytes)
      BY DEF o
    <3> QED BY <3>1, WrittenNothing
  <2> QED BY <1>3, <2>1
<1>6. ASSUME NEW i \in Up \cap Nat PROVE i + 1 \in Up
  <2> SUFFICES ASSUME i + 1 <= n PROVE Written(q[0], pre[i + 1], q[i + 1])
    OBVIOUS
  <2>1. i <= n /\ i + 1 \in 1..n /\ i + 1 - 1 = i
    BY <1>2
  <2>2. Written(q[0], pre[i], q[i])
    BY <2>1
  <2>3. Written(q[i], s[i + 1], q[i + 1]) /\ pre[i + 1] = pre[i] \o s[i + 1]
    <3> DEFINE j == i + 1
    <3>1. j \in 1..n /\ j - 1 = i
      BY <2>1
    <3> HIDE DEF j
    <3>2. Written(q[j - 1], s[j], q[j]) /\ pre[j] = pre[j - 1] \o s[j]
      BY <1>3, <1>4, <3>1
    <3> QED BY <3>1, <3>2 DEF j
  <2>4. Written(q[0], pre[i] \o s[i + 1], q[i + 1])
    BY <2>2, <2>3, WrittenTogether
  <2> QED BY <2>3, <2>4
<1>7. Nat \subseteq Up
  <2> HIDE DEF Up
  <2> QED BY <1>5, <1>6, NaturalInduction
<1>8. Written(q[0], pre[n], q[n])
  BY <1>2, <1>7
<1> QED BY <1>1, <1>8 DEF n

\* Sequences that are written flattened are written one after the other.
LEMMA WrittenIsTiled ==
    ASSUME bytes \in Seq(Byte), NEW s \in Seq(Seq(Byte)), NEW o, NEW e,
           Written(o, FlattenSeq(s), e)
    PROVE  \E q : Tiled(s, q) /\ q[0] = o /\ q[Len(s)] = e
<1> DEFINE n == Len(s)
<1>1. PICK pre : GrowsTo(s, pre) /\ FlattenSeq(s) = pre[n]
  BY FlattenUnfolds
<1>2. n \in Nat /\ \A i \in 1..n : s[i] \in Seq(Byte)
  OBVIOUS
<1>3. /\ pre[0] = <<>> /\ \A i \in 1..n : pre[i] = pre[i - 1] \o s[i]
      /\ \A i \in 0..n : pre[i] \in Seq(Byte)
  BY <1>1 DEF GrowsTo
<1> DEFINE q == [i \in 0..n |-> o + Len(pre[i])]
<1>4. o \in Nat /\ e = o + Len(pre[n])
  BY <1>1 DEF Written
<1>5. q[0] = o /\ q[n] = e
  <2>1. Len(pre[0]) = 0 /\ 0 \in 0..n /\ n \in 0..n
    BY <1>2, <1>3
  <2>2. q[0] = o + Len(pre[0]) /\ q[n] = o + Len(pre[n])
    <3> HIDE DEF n
    <3> QED BY <2>1
  <2> HIDE DEF q
  <2> QED BY <1>4, <2>1, <2>2
<1>6. \A i \in 0..n : q[i] = o + Len(pre[i])
  OBVIOUS
<1> HIDE DEF n, q
<1> DEFINE Down == {i \in Nat : i <= n => Written(o, pre[n - i], q[n - i])}
<1>7. 0 \in Down
  <2>1. n - 0 = n
    BY <1>2
  <2> QED BY <1>1, <1>5, <2>1
<1>8. ASSUME NEW j \in 1..n, Written(o, pre[j], q[j])
      PROVE  Written(o, pre[j - 1], q[j - 1]) /\ Written(q[j - 1], s[j], q[j])
  <2> DEFINE u == pre[j - 1]
             t == s[j]
  <2>1. j - 1 \in 0..n
    BY <1>2
  <2>2. u \in Seq(Byte) /\ t \in Seq(Byte) /\ q[j - 1] = o + Len(u)
    BY <1>2, <1>3, <1>6, <2>1
  <2>3. Written(o, u \o t, q[j])
    BY <1>3, <1>8
  <2> HIDE DEF u, t
  <2>4. Written(o, u, o + Len(u)) /\ Written(o + Len(u), t, q[j])
    BY <2>2, <2>3, WrittenApart, BytesAreNumbers
  <2> QED BY <2>2, <2>4 DEF u, t
<1>9. ASSUME NEW i \in Down \cap Nat PROVE i + 1 \in Down
  <2> SUFFICES ASSUME i + 1 <= n PROVE Written(o, pre[n - (i + 1)], q[n - (i + 1)])
    OBVIOUS
  <2>1. i <= n /\ n - i \in 1..n /\ n - i - 1 = n - (i + 1)
    BY <1>2
  <2>2. Written(o, pre[n - i], q[n - i])
    BY <2>1
  <2>3. Written(o, pre[n - i - 1], q[n - i - 1])
    BY <1>8, <2>1, <2>2
  <2> QED BY <2>1, <2>3
<1>10. Nat \subseteq Down
  <2> HIDE DEF Down
  <2> QED BY <1>7, <1>9, NaturalInduction
<1>11. ASSUME NEW j \in 1..n PROVE Written(q[j - 1], s[j], q[j])
  <2>1. n - j \in Nat /\ n - j <= n /\ n - (n - j) = j
    BY <1>2
  <2>2. n - j \in Down
    BY <1>10, <2>1
  <2>3. Written(o, pre[j], q[j])
    BY <2>1, <2>2
  <2> QED BY <1>8, <2>3
<1> QED BY <1>5, <1>11 DEF Tiled, n

-----------------------------------------------------------------------------
(* Instructions and lookups, written and read.                             *)

\* A length that fits is written in bytes, one at least.
LEMMA CompactIsBytes ==
    ASSUME NEW n \in Nat, n < HIGH * HIGH
    PROVE  Compact(n) \in Seq(Byte) /\ Len(Compact(n)) \in Nat /\ Len(Compact(n)) >= 1
<1>1. CASE n < HIGH
  <2>1. n \in Byte
    BY <1>1, HighIsNumber DEF Byte
  <2> QED BY <1>1, <2>1 DEF Compact
<1>2. CASE ~(n < HIGH)
  <2> DEFINE base == HIGH
             low == n % base
             q == n \div base
             first == base + low
  <2>1. base \in Nat \ {0} /\ n < base * base
    BY HighIsNumber
  <2> HIDE DEF base
  <2>2. low \in 0..(base - 1) /\ q \in Nat /\ q < base
    BY <2>1, QuotientAndRest, QuotientIsLess
  <2>3. Compact(n) = <<first, q>>
    BY <1>2 DEF Compact, base
  <2> HIDE DEF low, q
  <2>4. first \in Byte /\ q \in Byte
    BY <2>1, <2>2 DEF Byte, base
  <2> HIDE DEF first
  <2> QED BY <2>3, <2>4
<1> QED BY <1>1, <1>2

\* A vector is written in bytes.
LEMMA VectorIsBytes ==
    ASSUME NEW s \in CompactSeq(Byte)
    PROVE  /\ s \in Seq(Byte) /\ Len(s) \in Nat /\ Len(s) < HIGH * HIGH
           /\ Compact(Len(s)) \in Seq(Byte) /\ Vector(s) \in Seq(Byte)
<1>1. s \in Seq(Byte) /\ Len(s) \in Nat /\ Len(s) < HIGH * HIGH
  BY DEF CompactSeq
<1>2. Compact(Len(s)) \in Seq(Byte)
  BY <1>1, CompactIsBytes
<1> QED BY <1>1, <1>2, ConcatProperties DEF Vector

\* An instruction of the older formats that was read was written.
LEMMA InstructionReadIsWritten ==
    ASSUME bytes \in Seq(Byte), NEW h \in Places,
           LegacyInstructionAt(h).header_offset # Bad
    PROVE  Written(h, InstructionBytes(InstructionOf(LegacyInstructionAt(h))),
                   LegacyInstructionAt(h).header_offset)
<1> DEFINE program == ReadBytesAt(h, 1)
           accounts == ReadCompactAt(program)
           behind == ReadBytesAt(accounts.offset, accounts.value)
           data == ReadCompactAt(behind)
           end == ReadBytesAt(data.offset, data.value)
           a == BytesAt(accounts.offset, accounts.value)
           d == BytesAt(data.offset, data.value)
           p == ByteAt(h)
<1>1. program \in Places /\ (program # Bad => h # Bad)
  BY ReadEnds
<1>2. /\ accounts.value \in Nat /\ accounts.offset \in Places
      /\ accounts.offset # Bad => program # Bad
  <2> HIDE DEF program
  <2> QED BY <1>1, CompactIsRead
<1>3. behind \in Places /\ (behind # Bad => accounts.offset # Bad)
  <2> HIDE DEF accounts
  <2> QED BY <1>2, ReadEnds
<1>4. data.value \in Nat /\ data.offset \in Places /\ (data.offset # Bad => behind # Bad)
  <2> HIDE DEF behind
  <2> QED BY <1>3, CompactIsRead
<1>5. end # Bad => data.offset # Bad
  <2> HIDE DEF data
  <2> QED BY <1>4, ReadEnds
<1>6. LegacyInstructionAt(h) = [program_id_index |-> p, accounts |-> a, data |-> d,
                                header_offset |-> end, payload_offset |-> 0]
  BY DEF LegacyInstructionAt
<1>7. end # Bad /\ behind # Bad /\ program # Bad
  BY <1>2, <1>3, <1>4, <1>5, <1>6
<1>8. Written(h, <<p>>, program)
  <2> HIDE DEF program, p
  <2> QED BY <1>7, WrittenByte DEF program, p
<1>9. Written(program, Vector(a), behind)
  <2> HIDE DEF program
  <2> QED BY <1>1, <1>7, VectorReadIsWritten
<1>10. Written(behind, Vector(d), end)
  <2> HIDE DEF behind
  <2> QED BY <1>3, <1>7, VectorReadIsWritten
<1> HIDE DEF program, accounts, behind, data, end, a, d, p
<1>11. Written(h, <<p>> \o Vector(a), behind)
  BY <1>8, <1>9, WrittenTogether
<1>12. Written(h, <<p>> \o Vector(a) \o Vector(d), end)
  BY <1>10, <1>11, WrittenTogether
<1>13. InstructionBytes(InstructionOf(LegacyInstructionAt(h))) = <<p>> \o Vector(a) \o Vector(d)
  BY <1>6 DEF InstructionBytes, InstructionOf
<1>14. LegacyInstructionAt(h).header_offset = end
  BY <1>6
<1> QED BY <1>12, <1>13, <1>14

Instructions ==
    [program_id_index : Byte, accounts : CompactSeq(Byte), data : CompactSeq(Byte)]

\* An instruction of the older formats that is written is read.
LEMMA WrittenInstructionIsRead ==
    ASSUME bytes \in Seq(Byte), NEW ix \in Instructions, NEW h, NEW e,
           Written(h, InstructionBytes(ix), e)
    PROVE  /\ InstructionOf(LegacyInstructionAt(h)) = ix
           /\ LegacyInstructionAt(h).header_offset = e
           /\ h \in Nat /\ e \in Nat /\ h + 3 <= e
<1> DEFINE p == ix.program_id_index
           a == ix.accounts
           d == ix.data
           m == h + Len(<<p>>)
           b == m + Len(Vector(a))
           part == <<p>> \o Vector(a)
           c == h + Len(part)
<1>1. /\ p \in Byte /\ a \in CompactSeq(Byte) /\ d \in CompactSeq(Byte)
      /\ ix = [program_id_index |-> p, accounts |-> a, data |-> d]
  BY DEF Instructions
<1>2. Written(h, part \o Vector(d), e)
  BY DEF InstructionBytes
<1> HIDE DEF p, a, d
<1>3. <<p>> \in Seq(Byte) /\ Vector(a) \in Seq(Byte) /\ Vector(d) \in Seq(Byte)
  BY <1>1, VectorIsBytes
<1>4. part \in Seq(Nat) /\ Vector(a) \in Seq(Nat) /\ Vector(d) \in Seq(Nat) /\ <<p>> \in Seq(Nat)
  BY <1>3, BytesAreNumbers
<1>5. Written(h, part, c) /\ Written(c, Vector(d), e) /\ e \in Nat
  <2> HIDE DEF part
  <2> QED BY <1>2, <1>4, WrittenApart
<1>6. Written(h, <<p>>, m) /\ Written(m, Vector(a), c) /\ m \in Nat /\ h \in Nat
  <2> DEFINE u == <<p>>
             v == Vector(a)
  <2>1. u \in Seq(Nat) /\ v \in Seq(Nat) /\ Written(h, u \o v, c)
    BY <1>4, <1>5
  <2> HIDE DEF u, v
  <2>2. Written(h, u, h + Len(u)) /\ Written(h + Len(u), v, c) /\ h \in Nat /\ h + Len(u) \in Nat
    BY <2>1, WrittenApart
  <2> QED BY <2>2 DEF u, v
<1> HIDE DEF m, part, c
<1>7. ByteAt(h) = p /\ ReadBytesAt(h, 1) = m /\ m = h + 1
  BY <1>6, WrittenByte
<1>8. /\ ReadCompactAt(m).value = Len(a)
      /\ ReadBytesAt(ReadCompactAt(m).offset, Len(a)) = c
      /\ BytesAt(ReadCompactAt(m).offset, Len(a)) = a
      /\ m + 1 + Len(a) <= c
  BY <1>1, <1>6, VectorIsBytes, WrittenVectorIsRead
<1>9. /\ ReadCompactAt(c).value = Len(d)
      /\ ReadBytesAt(ReadCompactAt(c).offset, Len(d)) = e
      /\ BytesAt(ReadCompactAt(c).offset, Len(d)) = d
      /\ c + 1 + Len(d) <= e
  BY <1>1, <1>5, VectorIsBytes, WrittenVectorIsRead
<1>10. LegacyInstructionAt(h) = [program_id_index |-> p, accounts |-> a, data |-> d,
                                 header_offset |-> e, payload_offset |-> 0]
  BY <1>7, <1>8, <1>9 DEF LegacyInstructionAt
<1>11. h + 3 <= e
  <2>1. Len(a) \in Nat /\ Len(d) \in Nat
    BY <1>1, VectorIsBytes
  <2>2. c \in Nat
    BY <1>5 DEF Written
  <2> QED BY <1>5, <1>6, <1>7, <1>8, <1>9, <2>1, <2>2
<1> QED BY <1>1, <1>5, <1>6, <1>10, <1>11 DEF InstructionOf

\* A lookup that was read was written.
LEMMA LookupReadIsWritten ==
    ASSUME bytes \in Seq(Byte), NEW h \in Places, LookupAt(h).header_offset # Bad
    PROVE  Written(h, LookupBytes(LookupOf(LookupAt(h))), LookupAt(h).header_offset)
<1> DEFINE key == ReadBytesAt(h, PUBKEY_BYTES)
           writable == ReadCompactAt(key)
           behind == ReadBytesAt(writable.offset, writable.value)
           readonly == ReadCompactAt(behind)
           end == ReadBytesAt(readonly.offset, readonly.value)
           w == BytesAt(writable.offset, writable.value)
           r == BytesAt(readonly.offset, readonly.value)
           k == BytesAt(h, PUBKEY_BYTES)
<1>1. key \in Places /\ (key # Bad => h # Bad)
  BY FormatAssumption, ReadEnds
<1>2. /\ writable.value \in Nat /\ writable.offset \in Places
      /\ writable.offset # Bad => key # Bad
  <2> HIDE DEF key
  <2> QED BY <1>1, CompactIsRead
<1>3. behind \in Places /\ (behind # Bad => writable.offset # Bad)
  <2> HIDE DEF writable
  <2> QED BY <1>2, ReadEnds
<1>4. /\ readonly.value \in Nat /\ readonly.offset \in Places
      /\ readonly.offset # Bad => behind # Bad
  <2> HIDE DEF behind
  <2> QED BY <1>3, CompactIsRead
<1>5. end # Bad => readonly.offset # Bad
  <2> HIDE DEF readonly
  <2> QED BY <1>4, ReadEnds
<1>6. LookupAt(h) = [account_key |-> k, writable_indexes |-> w, readonly_indexes |-> r,
                     header_offset |-> end, payload_offset |-> 0]
  BY DEF LookupAt
<1>7. end # Bad /\ behind # Bad /\ key # Bad
  BY <1>2, <1>3, <1>4, <1>5, <1>6
<1>8. Written(h, k, key)
  BY <1>7, FormatAssumption, ReadIsWritten
<1>9. Written(key, Vector(w), behind)
  <2> HIDE DEF key
  <2> QED BY <1>1, <1>7, VectorReadIsWritten
<1>10. Written(behind, Vector(r), end)
  <2> HIDE DEF behind
  <2> QED BY <1>3, <1>7, VectorReadIsWritten
<1> HIDE DEF key, writable, behind, readonly, end, w, r, k
<1>11. Written(h, k \o Vector(w), behind)
  BY <1>8, <1>9, WrittenTogether
<1>12. Written(h, k \o Vector(w) \o Vector(r), end)
  BY <1>10, <1>11, WrittenTogether
<1>13. LookupBytes(LookupOf(LookupAt(h))) = k \o Vector(w) \o Vector(r)
  BY <1>6 DEF LookupBytes, LookupOf
<1>14. LookupAt(h).header_offset = end
  BY <1>6
<1> QED BY <1>12, <1>13, <1>14

Lookups ==
    [account_key : Array(PUBKEY_BYTES), writable_indexes : CompactSeq(Byte),
     readonly_indexes : CompactSeq(Byte)]

\* An array is as long as its width.
LEMMA ArrayIsBytes ==
    ASSUME NEW width \in Nat, NEW s \in Array(width)
    PROVE  s \in Seq(Byte) /\ Len(s) = width
BY DEF Array

\* A lookup that is written is read.
LEMMA WrittenLookupIsRead ==
    ASSUME bytes \in Seq(Byte), NEW lookup \in Lookups, NEW h, NEW e,
           Written(h, LookupBytes(lookup), e)
    PROVE  /\ LookupOf(LookupAt(h)) = lookup
           /\ LookupAt(h).header_offset = e
           /\ h \in Nat /\ e \in Nat
           /\ h + PUBKEY_BYTES + 2 + Len(lookup.writable_indexes)
                + Len(lookup.readonly_indexes) <= e
<1> DEFINE k == lookup.account_key
           w == lookup.writable_indexes
           r == lookup.readonly_indexes
           m == h + Len(k)
           part == k \o Vector(w)
           c == h + Len(part)
<1>1. /\ k \in Array(PUBKEY_BYTES) /\ w \in CompactSeq(Byte) /\ r \in CompactSeq(Byte)
      /\ lookup = [account_key |-> k, writable_indexes |-> w, readonly_indexes |-> r]
  BY DEF Lookups
<1>2. Written(h, part \o Vector(r), e)
  BY DEF LookupBytes
<1> HIDE DEF k, w, r
<1>3. /\ k \in Seq(Byte) /\ Len(k) = PUBKEY_BYTES /\ PUBKEY_BYTES \in Nat
      /\ Vector(w) \in Seq(Byte) /\ Vector(r) \in Seq(Byte)
  BY <1>1, ArrayIsBytes, VectorIsBytes, FormatAssumption
<1>4. part \in Seq(Nat) /\ Vector(w) \in Seq(Nat) /\ Vector(r) \in Seq(Nat) /\ k \in Seq(Nat)
  BY <1>3, BytesAreNumbers
<1>5. Written(h, part, c) /\ Written(c, Vector(r), e) /\ e \in Nat
  <2> HIDE DEF part
  <2> QED BY <1>2, <1>4, WrittenApart
<1>6. Written(h, k, m) /\ Written(m, Vector(w), c) /\ m \in Nat /\ h \in Nat
  <2> DEFINE v == Vector(w)
  <2>1. v \in Seq(Nat) /\ Written(h, k \o v, c)
    BY <1>4, <1>5
  <2> HIDE DEF v
  <2>2. Written(h, k, h + Len(k)) /\ Written(h + Len(k), v, c) /\ h \in Nat /\ h + Len(k) \in Nat
    BY <1>4, <2>1, WrittenApart
  <2> QED BY <2>2 DEF v
<1> HIDE DEF m, part, c
<1>7. BytesAt(h, PUBKEY_BYTES) = k /\ ReadBytesAt(h, PUBKEY_BYTES) = m /\ m = h + PUBKEY_BYTES
  <2>1. m = h + Len(k)
    BY <1>6 DEF Written
  <2> QED BY <1>3, <1>6, <2>1, WrittenIsRead
<1>8. /\ ReadCompactAt(m).value = Len(w)
      /\ ReadBytesAt(ReadCompactAt(m).offset, Len(w)) = c
      /\ BytesAt(ReadCompactAt(m).offset, Len(w)) = w
      /\ m + 1 + Len(w) <= c
  BY <1>1, <1>6, VectorIsBytes, WrittenVectorIsRead
<1>9. /\ ReadCompactAt(c).value = Len(r)
      /\ ReadBytesAt(ReadCompactAt(c).offset, Len(r)) = e
      /\ BytesAt(ReadCompactAt(c).offset, Len(r)) = r
      /\ c + 1 + Len(r) <= e
  BY <1>1, <1>5, VectorIsBytes, WrittenVectorIsRead
<1>10. LookupAt(h) = [account_key |-> k, writable_indexes |-> w, readonly_indexes |-> r,
                      header_offset |-> e, payload_offset |-> 0]
  BY <1>7, <1>8, <1>9 DEF LookupAt
<1>11. h + PUBKEY_BYTES + 2 + Len(w) + Len(r) <= e
  <2>1. Len(w) \in Nat /\ Len(r) \in Nat
    BY <1>1, VectorIsBytes
  <2>2. c \in Nat
    BY <1>5 DEF Written
  <2> QED BY <1>3, <1>5, <1>6, <1>7, <1>8, <1>9, <2>1, <2>2
<1> QED BY <1>1, <1>5, <1>6, <1>10, <1>11 DEF LookupOf, w, r

\* What is read together can be read in two reads.
LEMMA ReadInTwo ==
    ASSUME bytes \in Seq(Byte), NEW o \in Places, NEW m \in Nat, NEW n \in Nat, NEW k,
           k = m + n, ReadBytesAt(o, k) # Bad
    PROVE  /\ ReadBytesAt(o, m) \in Places /\ ReadBytesAt(o, m) # Bad
           /\ ReadBytesAt(o, m) = o + m
           /\ ReadBytesAt(ReadBytesAt(o, m), n) = ReadBytesAt(o, k)
<1>1. k \in Nat
  OBVIOUS
<1>2. o # Bad /\ o \in Nat /\ ReadBytesAt(o, k) = o + k /\ o + k <= Len(bytes)
  BY <1>1, ReadEnds
<1>3. o + m <= Len(bytes) /\ Len(bytes) \in Nat
  BY <1>2
<1>4. ReadBytesAt(o, m) \in Places /\ ReadBytesAt(o, m) = o + m
  BY <1>2, <1>3, ReadEnds
<1>5. o + m # Bad /\ o + m + n <= Len(bytes) /\ o + m + n = o + k
  BY <1>2 DEF Bad
<1>6. ReadBytesAt(o + m, n) = o + m + n
  BY <1>5 DEF ReadBytesAt
<1> QED BY <1>2, <1>4, <1>5, <1>6

\* An instruction of V1 that was read was written, its header and its payload.
LEMMA V1InstructionReadIsWritten ==
    ASSUME bytes \in Seq(Byte), NEW h \in Places, NEW p \in Places,
           V1InstructionAt(h, p).header_offset # Bad, V1InstructionAt(h, p).payload_offset # Bad
    PROVE  /\ Written(h, V1HeaderBytes(InstructionOf(V1InstructionAt(h, p))),
                      V1InstructionAt(h, p).header_offset)
           /\ Written(p, V1PayloadBytes(InstructionOf(V1InstructionAt(h, p))),
                      V1InstructionAt(h, p).payload_offset)
<1> DEFINE one == ReadBytesAt(h, 1)
           two == ReadBytesAt(h, 2)
           end == ReadBytesAt(h, 4)
           program == ByteAt(h)
           count == ByteAt(one)
           length == LittleEndianAt(two, 2)
           behind == ReadBytesAt(p, count)
           last == ReadBytesAt(behind, length)
           a == BytesAt(p, count)
           d == BytesAt(behind, length)
<1>1. V1InstructionAt(h, p) = [program_id_index |-> program, accounts |-> a, data |-> d,
                               header_offset |-> end, payload_offset |-> last]
  BY DEF V1InstructionAt
<1>2. end # Bad /\ last # Bad
  BY <1>1
<1>3. two # Bad /\ two \in Places /\ ReadBytesAt(two, 2) = end
  BY <1>2, ReadInTwo
<1>4. one # Bad /\ one \in Places /\ ReadBytesAt(one, 1) = two
  <2> HIDE DEF end
  <2> QED BY <1>3, ReadInTwo
<1>5. program \in Byte /\ count \in Byte /\ count \in Nat /\ length \in Nat
  BY <1>3, <1>4, ByteIsByte, LittleEndianIsNumber
<1>6. Written(h, <<program>>, one)
  <2> HIDE DEF one, program
  <2> QED BY <1>4, WrittenByte DEF one, program
<1>7. Written(one, <<count>>, two)
  <2> HIDE DEF one, two, count
  <2> QED BY <1>3, <1>4, WrittenByte DEF count
<1>8. /\ LittleEndianBytes(length, 2) = BytesAt(two, 2)
      /\ Written(two, BytesAt(two, 2), end)
  <2>1. 2 \in Nat
    OBVIOUS
  <2> HIDE DEF two, end
  <2> QED BY <1>2, <1>3, <2>1, NumberReadIsWritten, ReadIsWritten
<1>9. behind \in Places /\ (last # Bad => behind # Bad)
  <2>1. behind \in Places
    <3> HIDE DEF count
    <3> QED BY <1>5, ReadEnds
  <2> HIDE DEF behind, length
  <2> QED BY <1>5, <2>1, ReadEnds
<1>10. Written(p, a, behind) /\ Len(a) = count
  <2> HIDE DEF count
  <2> QED BY <1>2, <1>5, <1>9, ReadIsWritten, BytesAreBytes
<1>11. Written(behind, d, last) /\ Len(d) = length
  <2> HIDE DEF behind, length
  <2> QED BY <1>2, <1>5, <1>9, ReadIsWritten, BytesAreBytes
<1> HIDE DEF one, two, end, program, count, length, behind, last, a, d
<1>12. Written(h, <<program>> \o <<count>>, two)
  BY <1>6, <1>7, WrittenTogether
<1>13. Written(h, <<program, count>>, two)
  BY <1>5, <1>12, TwoBytes
<1>14. Written(h, <<program, count>> \o LittleEndianBytes(length, 2), end)
  BY <1>8, <1>13, WrittenTogether
<1>15. Written(p, a \o d, last)
  BY <1>10, <1>11, WrittenTogether
<1>16. InstructionOf(V1InstructionAt(h, p)) = [program_id_index |-> program, accounts |-> a,
                                               data |-> d]
  BY <1>1 DEF InstructionOf
<1>17. /\ V1HeaderBytes(InstructionOf(V1InstructionAt(h, p)))
             = <<program, count>> \o LittleEndianBytes(length, 2)
       /\ V1PayloadBytes(InstructionOf(V1InstructionAt(h, p))) = a \o d
  BY <1>10, <1>11, <1>16 DEF V1HeaderBytes, V1PayloadBytes
<1>18. V1InstructionAt(h, p).header_offset = end /\ V1InstructionAt(h, p).payload_offset = last
  BY <1>1
<1> QED BY <1>14, <1>15, <1>17, <1>18

\* An instruction of V1 whose header and payload are written is read.
LEMMA WrittenV1InstructionIsRead ==
    ASSUME bytes \in Seq(Byte), NEW ix \in Instructions, NEW h, NEW e, NEW p, NEW f,
           Written(h, V1HeaderBytes(ix), e), Written(p, V1PayloadBytes(ix), f)
    PROVE  /\ InstructionOf(V1InstructionAt(h, p)) = ix
           /\ V1InstructionAt(h, p).header_offset = e
           /\ V1InstructionAt(h, p).payload_offset = f
           /\ h \in Nat /\ e = h + 4
<1> DEFINE program == ix.program_id_index
           a == ix.accounts
           d == ix.data
           start == <<program, Len(a)>>
           length == LittleEndianBytes(Len(d), 2)
           one == h + 1
           two == h + 2
           behind == p + Len(a)
<1>1. /\ program \in Byte /\ a \in CompactSeq(Byte) /\ d \in CompactSeq(Byte)
      /\ ix = [program_id_index |-> program, accounts |-> a, data |-> d]
  BY DEF Instructions
<1>2. Written(h, start \o length, e) /\ Written(p, a \o d, f)
  BY DEF V1HeaderBytes, V1PayloadBytes
<1> HIDE DEF program, a, d
<1>3. /\ a \in Seq(Byte) /\ Len(a) \in Nat /\ d \in Seq(Byte) /\ Len(d) \in Nat
      /\ FitsIn(Len(d), 2)
  BY <1>1, VectorIsBytes, TwoBytesFit
<1>4. length \in Seq(Byte) /\ Len(length) = 2
  <2>1. 2 \in Nat
    OBVIOUS
  <2> QED BY <1>3, <2>1, LittleEndianIsBytes
<1>5. program \in Nat /\ start \in Seq(Nat) /\ Len(start) = 2 /\ start[1] = program
      /\ start[2] = Len(a)
  <2>1. program \in Nat
    BY <1>1 DEF Byte
  <2> QED BY <1>3, <2>1
<1> HIDE DEF start, length
<1>6. /\ Written(h, start, two) /\ Written(two, length, e)
      /\ h \in Nat /\ two \in Nat /\ e = h + 4 /\ start \in Seq(Byte)
  <2>1. length \in Seq(Nat)
    BY <1>4, BytesAreNumbers
  <2>2. /\ Written(h, start, h + Len(start)) /\ Written(h + Len(start), length, e)
        /\ start \in Seq(Byte) /\ h \in Nat /\ e = h + Len(start) + Len(length)
    <3> DEFINE u == start
               v == length
    <3>1. u \in Seq(Nat) /\ v \in Seq(Nat) /\ Written(h, u \o v, e)
      BY <1>2, <1>5, <2>1
    <3> HIDE DEF u, v
    <3>2. /\ Written(h, u, h + Len(u)) /\ Written(h + Len(u), v, e)
          /\ h \in Nat /\ e = h + Len(u) + Len(v)
      BY <3>1, WrittenApart
    <3>3. u \in Seq(Byte)
      BY <3>2 DEF Written
    <3> QED BY <3>2, <3>3 DEF u, v
  <2>3. h + Len(start) = two /\ two \in Nat /\ e = h + 4
    BY <1>4, <1>5, <2>2
  <2> QED BY <2>2, <2>3
<1>7. Len(a) \in Byte
  <2>1. 2 \in 1..Len(start)
    BY <1>5
  <2>2. start[2] \in Byte
    BY <1>6, <2>1
  <2> QED BY <1>5, <2>2
<1>8. Written(h, <<program>>, one) /\ Written(one, <<Len(a)>>, two)
  <2> DEFINE u == <<program>>
             v == <<Len(a)>>
  <2>1. /\ u \in Seq(Byte) /\ v \in Seq(Byte) /\ Len(u) = 1 /\ Len(v) = 1
        /\ Written(h, u \o v, two)
    <3>1. u \in Seq(Byte) /\ v \in Seq(Byte) /\ Len(u) = 1 /\ Len(v) = 1
      BY <1>1, <1>7
    <3>2. u \o v = start
      BY <1>1, <1>7, TwoBytes DEF start
    <3> QED BY <1>6, <3>1, <3>2
  <2> HIDE DEF u, v
  <2>2. Written(h, u, h + Len(u)) /\ Written(h + Len(u), v, two)
    BY <2>1, WrittenApart, BytesAreNumbers
  <2> QED BY <2>1, <2>2 DEF u, v
<1>9. Written(p, a, behind) /\ Written(behind, d, f)
  BY <1>2, <1>3, WrittenApart, BytesAreNumbers
<1> HIDE DEF one, two, behind
<1>10. ByteAt(h) = program /\ ReadBytesAt(h, 1) = one /\ ByteAt(one) = Len(a)
  BY <1>8, WrittenByte
<1>11. ReadBytesAt(h, 2) = two
  BY <1>5, <1>6, WrittenIsRead
<1>12. LittleEndianAt(two, 2) = Len(d)
  <2>1. 2 \in Nat /\ Written(two, LittleEndianBytes(Len(d), 2), e)
    BY <1>6 DEF length
  <2> QED BY <1>3, <2>1, WrittenNumberIsRead
<1>13. ReadBytesAt(h, 4) = e
  <2>1. h # Bad /\ e <= Len(bytes)
    BY <1>6 DEF Bad, Written
  <2> QED BY <1>6, <2>1 DEF ReadBytesAt
<1>14. BytesAt(p, Len(a)) = a /\ ReadBytesAt(p, Len(a)) = behind
  BY <1>9, WrittenIsRead
<1>15. BytesAt(behind, Len(d)) = d /\ ReadBytesAt(behind, Len(d)) = f
  BY <1>9, WrittenIsRead
<1>16. V1InstructionAt(h, p) = [program_id_index |-> program, accounts |-> a, data |-> d,
                                header_offset |-> e, payload_offset |-> f]
  BY <1>10, <1>11, <1>12, <1>13, <1>14, <1>15 DEF V1InstructionAt
<1> QED BY <1>1, <1>6, <1>16 DEF InstructionOf

-----------------------------------------------------------------------------
(* Loops, written and read.                                                *)

\* A turn that is not the first is read where the one before has ended.
LEMMA TurnFollows ==
    ASSUME bytes \in Seq(Byte), NEW kind \in Kinds, NEW h \in Places, NEW p \in Places,
           NEW n \in Nat, NEW i \in 1..n
    PROVE  /\ i \in Nat /\ i - 1 \in Nat /\ i - 1 \in 0..n /\ i \in 0..n
           /\ Loop(kind, h, p)[i - 1].header_offset \in Places
           /\ Loop(kind, h, p)[i - 1].payload_offset \in Places
           /\ Loop(kind, h, p)[i] = ItemAt(kind, Loop(kind, h, p)[i - 1].header_offset,
                                           Loop(kind, h, p)[i - 1].payload_offset)
<1> DEFINE turn == Loop(kind, h, p)
           j == i - 1
<1>1. /\ i \in Nat /\ i - 1 \in Nat /\ i - 1 \in 0..n /\ i \in 0..n /\ j + 1 = i /\ j \in Nat
  OBVIOUS
<1>2. LoopRuns(kind, h, p, turn)
  BY LoopReads
<1> HIDE DEF turn, j
<1>3. /\ turn[j].header_offset \in Places /\ turn[j].payload_offset \in Places
      /\ turn[j + 1] = ItemAt(kind, turn[j].header_offset, turn[j].payload_offset)
  BY <1>1, <1>2 DEF LoopRuns, LoopTurnsFrom
<1> QED BY <1>1, <1>3 DEF turn, j

\* The cursors of a loop before its first turn.
LEMMA LoopBegins ==
    ASSUME bytes \in Seq(Byte), NEW kind \in Kinds, NEW h \in Places, NEW p \in Places
    PROVE  Loop(kind, h, p)[0].header_offset = h /\ Loop(kind, h, p)[0].payload_offset = p
<1> DEFINE turn == Loop(kind, h, p)
<1>1. LoopTurnsFrom(kind, h, p, turn)
  BY LoopTurns
<1> HIDE DEF turn
<1>2. turn[0] = [header_offset |-> h, payload_offset |-> p]
  BY <1>1 DEF LoopTurnsFrom
<1>3. turn[0].header_offset = h /\ turn[0].payload_offset = p
  BY <1>2
<1> QED BY <1>3 DEF turn

\* Sequences that loops have written between the places of their cursors are
\* written together.
LEMMA CursorsAreTiled ==
    ASSUME bytes \in Seq(Byte), NEW n \in Nat, NEW s, DOMAIN s = 1..n, s = [i \in 1..n |-> s[i]],
           NEW q, q[0] \in Places, q[0] # Bad, \A i \in 1..n : Written(q[i - 1], s[i], q[i])
    PROVE  Written(q[0], FlattenSeq(s), q[n])
<1>1. \A i \in 1..n : s[i] \in Seq(Byte)
  BY DEF Written
<1>2. s \in Seq(Seq(Byte)) /\ Len(s) = n
  <2> DEFINE S == Seq(Byte)
  <2>1. \A i \in 1..n : s[i] \in S
    BY <1>1
  <2> HIDE DEF S
  <2>2. s \in [1..n -> S]
    BY <2>1
  <2>3. s \in Seq(S) /\ Len(s) = n
    BY <2>2
  <2> QED BY <2>3 DEF S
<1>3. q[0] \in Nat /\ q[0] <= Len(bytes)
  BY DEF Places
<1>4. Tiled(s, q)
  BY <1>2 DEF Tiled
<1> QED BY <1>2, <1>3, <1>4, TiledIsWritten

\* The instructions of the older formats that a loop has read were written.
LEMMA InstructionsReadAreWritten ==
    ASSUME bytes \in Seq(Byte), NEW kind \in {"Legacy", "V0"}, NEW h \in Places, NEW n \in Nat,
           \A i \in 0..n : Loop(kind, h, 0)[i].header_offset # Bad,
           NEW items, items = [i \in 1..n |-> InstructionOf(Loop(kind, h, 0)[i])]
    PROVE  Written(h, Concat(InstructionBytes, items), Loop(kind, h, 0)[n].header_offset)
<1> DEFINE turn == Loop(kind, h, 0)
           q == [i \in 0..n |-> turn[i].header_offset]
           s == [i \in 1..n |-> InstructionBytes(items[i])]
<1>1. kind \in Kinds /\ kind # "V1" /\ kind # "Lookup" /\ 0 \in Places
  BY DEF Kinds, Places
<1>2. ASSUME NEW i \in 1..n PROVE Written(q[i - 1], s[i], q[i])
  <2> DEFINE o == turn[i - 1].header_offset
  <2>1. /\ i \in 0..n /\ i - 1 \in 0..n /\ o \in Places
        /\ turn[i] = ItemAt(kind, o, turn[i - 1].payload_offset)
    BY <1>1, TurnFollows
  <2>2. turn[i] = LegacyInstructionAt(o)
    BY <1>1, <2>1 DEF ItemAt
  <2>3. turn[i].header_offset # Bad
    BY <2>1
  <2> HIDE DEF o
  <2>4. Written(o, InstructionBytes(InstructionOf(turn[i])), turn[i].header_offset)
    BY <2>1, <2>2, <2>3, InstructionReadIsWritten
  <2>5. s[i] = InstructionBytes(InstructionOf(turn[i]))
    OBVIOUS
  <2>6. q[i - 1] = o /\ q[i] = turn[i].header_offset
    BY <2>1 DEF o
  <2> HIDE DEF q, s
  <2> QED BY <2>4, <2>5, <2>6
<1>3. q[0] = h /\ q[n] = turn[n].header_offset /\ h # Bad
  <2>1. 0 \in 0..n /\ n \in 0..n /\ turn[0].header_offset = h
    BY <1>1, LoopBegins
  <2>2. turn[0].header_offset # Bad
    BY <2>1
  <2> QED BY <2>1, <2>2
<1>4. DOMAIN s = 1..n /\ s = [i \in 1..n |-> s[i]]
  OBVIOUS
<1>5. Concat(InstructionBytes, items) = FlattenSeq(s)
  <2>1. DOMAIN items = 1..n
    OBVIOUS
  <2> QED BY <2>1 DEF Concat
<1> HIDE DEF q, s
<1>6. Written(h, FlattenSeq(s), q[n])
  BY <1>2, <1>3, <1>4, CursorsAreTiled
<1> QED BY <1>3, <1>5, <1>6

\* So were the lookups.
LEMMA LookupsReadAreWritten ==
    ASSUME bytes \in Seq(Byte), NEW h \in Places, NEW n \in Nat,
           \A i \in 0..n : Loop("Lookup", h, 0)[i].header_offset # Bad,
           NEW items, items = [i \in 1..n |-> LookupOf(Loop("Lookup", h, 0)[i])]
    PROVE  Written(h, Concat(LookupBytes, items), Loop("Lookup", h, 0)[n].header_offset)
<1> DEFINE turn == Loop("Lookup", h, 0)
           q == [i \in 0..n |-> turn[i].header_offset]
           s == [i \in 1..n |-> LookupBytes(items[i])]
<1>1. "Lookup" \in Kinds /\ 0 \in Places
  BY DEF Kinds, Places
<1>2. ASSUME NEW i \in 1..n PROVE Written(q[i - 1], s[i], q[i])
  <2> DEFINE o == turn[i - 1].header_offset
  <2>1. /\ i \in 0..n /\ i - 1 \in 0..n /\ o \in Places
        /\ turn[i] = ItemAt("Lookup", o, turn[i - 1].payload_offset)
    BY <1>1, TurnFollows
  <2>2. turn[i] = LookupAt(o)
    BY <2>1 DEF ItemAt
  <2>3. turn[i].header_offset # Bad
    BY <2>1
  <2> HIDE DEF o
  <2>4. Written(o, LookupBytes(LookupOf(turn[i])), turn[i].header_offset)
    BY <2>1, <2>2, <2>3, LookupReadIsWritten
  <2>5. s[i] = LookupBytes(LookupOf(turn[i]))
    OBVIOUS
  <2>6. q[i - 1] = o /\ q[i] = turn[i].header_offset
    BY <2>1 DEF o
  <2> HIDE DEF q, s
  <2> QED BY <2>4, <2>5, <2>6
<1>3. q[0] = h /\ q[n] = turn[n].header_offset /\ h # Bad
  <2>1. 0 \in 0..n /\ n \in 0..n /\ turn[0].header_offset = h
    BY <1>1, LoopBegins
  <2>2. turn[0].header_offset # Bad
    BY <2>1
  <2> QED BY <2>1, <2>2
<1>4. DOMAIN s = 1..n /\ s = [i \in 1..n |-> s[i]]
  OBVIOUS
<1>5. Concat(LookupBytes, items) = FlattenSeq(s)
  <2>1. DOMAIN items = 1..n
    OBVIOUS
  <2> QED BY <2>1 DEF Concat
<1> HIDE DEF q, s
<1>6. Written(h, FlattenSeq(s), q[n])
  BY <1>2, <1>3, <1>4, CursorsAreTiled
<1> QED BY <1>3, <1>5, <1>6

\* So were the headers and the payloads of the instructions of V1.
LEMMA V1InstructionsReadAreWritten ==
    ASSUME bytes \in Seq(Byte), NEW h \in Places, NEW p \in Places, NEW n \in Nat,
           \A i \in 0..n : /\ Loop("V1", h, p)[i].header_offset # Bad
                           /\ Loop("V1", h, p)[i].payload_offset # Bad,
           NEW items, items = [i \in 1..n |-> InstructionOf(Loop("V1", h, p)[i])]
    PROVE  /\ Written(h, Concat(V1HeaderBytes, items), Loop("V1", h, p)[n].header_offset)
           /\ Written(p, Concat(V1PayloadBytes, items), Loop("V1", h, p)[n].payload_offset)
<1> DEFINE turn == Loop("V1", h, p)
           q == [i \in 0..n |-> turn[i].header_offset]
           s == [i \in 1..n |-> V1HeaderBytes(items[i])]
           r == [i \in 0..n |-> turn[i].payload_offset]
           t == [i \in 1..n |-> V1PayloadBytes(items[i])]
<1>1. "V1" \in Kinds
  BY DEF Kinds
<1>2. ASSUME NEW i \in 1..n
      PROVE  Written(q[i - 1], s[i], q[i]) /\ Written(r[i - 1], t[i], r[i])
  <2> DEFINE o == turn[i - 1].header_offset
             u == turn[i - 1].payload_offset
  <2>1. /\ i \in 0..n /\ i - 1 \in 0..n /\ o \in Places /\ u \in Places
        /\ turn[i] = ItemAt("V1", o, u)
    BY <1>1, TurnFollows
  <2>2. turn[i] = V1InstructionAt(o, u)
    BY <2>1 DEF ItemAt
  <2>3. turn[i].header_offset # Bad /\ turn[i].payload_offset # Bad
    BY <2>1
  <2> HIDE DEF o, u
  <2>4. /\ Written(o, V1HeaderBytes(InstructionOf(turn[i])), turn[i].header_offset)
        /\ Written(u, V1PayloadBytes(InstructionOf(turn[i])), turn[i].payload_offset)
    BY <2>1, <2>2, <2>3, V1InstructionReadIsWritten
  <2>5. /\ s[i] = V1HeaderBytes(InstructionOf(turn[i]))
        /\ t[i] = V1PayloadBytes(InstructionOf(turn[i]))
    OBVIOUS
  <2>6. /\ q[i - 1] = o /\ q[i] = turn[i].header_offset
        /\ r[i - 1] = u /\ r[i] = turn[i].payload_offset
    BY <2>1 DEF o, u
  <2> HIDE DEF q, s, r, t
  <2> QED BY <2>4, <2>5, <2>6
<1>3. /\ q[0] = h /\ q[n] = turn[n].header_offset /\ h # Bad
      /\ r[0] = p /\ r[n] = turn[n].payload_offset /\ p # Bad
  <2>1. 0 \in 0..n /\ n \in 0..n /\ turn[0].header_offset = h /\ turn[0].payload_offset = p
    BY <1>1, LoopBegins
  <2>2. turn[0].header_offset # Bad /\ turn[0].payload_offset # Bad
    BY <2>1
  <2> QED BY <2>1, <2>2
<1>4. /\ DOMAIN s = 1..n /\ s = [i \in 1..n |-> s[i]]
      /\ DOMAIN t = 1..n /\ t = [i \in 1..n |-> t[i]]
  OBVIOUS
<1>5. /\ Concat(V1HeaderBytes, items) = FlattenSeq(s)
      /\ Concat(V1PayloadBytes, items) = FlattenSeq(t)
  <2>1. DOMAIN items = 1..n
    OBVIOUS
  <2> QED BY <2>1 DEF Concat
<1> HIDE DEF q, s, r, t
<1>6. Written(h, FlattenSeq(s), q[n])
  BY <1>2, <1>3, <1>4, CursorsAreTiled
<1>7. Written(p, FlattenSeq(t), r[n])
  BY <1>2, <1>3, <1>4, CursorsAreTiled
<1> QED BY <1>3, <1>5, <1>6, <1>7

\* Arrays that are read one after the other were written.
LEMMA ArraysReadAreWritten ==
    ASSUME bytes \in Seq(Byte), NEW o \in Places, NEW n \in Nat, NEW width \in Nat,
           ReadBytesAt(o, n * width) # Bad
    PROVE  Written(o, FlattenSeq(ArraySlice(o, n, width)), ReadBytesAt(o, n * width))
<1> DEFINE s == ArraySlice(o, n, width)
           q == [i \in 0..n |-> o + i * width]
           size == n * width
<1>1. /\ o # Bad /\ o \in Nat /\ size \in Nat
      /\ ReadBytesAt(o, size) = o + size /\ o + size <= Len(bytes)
  <2>1. size \in Nat
    BY ProductIsNumber
  <2>2. ReadBytesAt(o, size) # Bad
    OBVIOUS
  <2> HIDE DEF size
  <2> QED BY <2>1, <2>2, ReadEnds
<1>2. Len(bytes) \in Nat
  OBVIOUS
<1>3. ASSUME NEW i \in 1..n PROVE Written(q[i - 1], s[i], q[i])
  <2> DEFINE m == (i - 1) * width
             place == o + m
  <2>1. i - 1 \in Nat /\ i - 1 \in 0..n /\ i \in 0..n /\ i \in Nat
    OBVIOUS
  <2>2. m \in Nat
    <3> DEFINE k == i - 1
    <3>1. k * width \in Nat
      <4>1. k \in Nat
        BY <2>1
      <4> HIDE DEF k
      <4> QED BY <4>1, ProductIsNumber
    <3> QED BY <3>1
  <2>3. i * width = m + width /\ i * width <= size
    <3> DEFINE k == i - 1
               l == n - i
    <3>1. k \in Nat /\ i = k + 1 /\ l \in Nat /\ n = i + l
      BY <2>1
    <3>2. (k + 1) * width = k * width + width /\ (i + l) * width = i * width + l * width
      BY <2>1, <3>1
    <3>3. l * width \in Nat /\ i * width \in Nat
      BY <2>1, <3>1, ProductIsNumber
    <3>4. k * width = m
      OBVIOUS
    <3>5. size = i * width + l * width
      BY <3>1, <3>2
    <3> HIDE DEF k, l, size, m
    <3> QED BY <3>1, <3>2, <3>3, <3>4, <3>5
  <2>4. place \in Places /\ place # Bad /\ place + width = o + i * width
        /\ place + width <= Len(bytes) /\ place \in Nat
    <3> HIDE DEF m, size
    <3> DEFINE k == i * width
    <3>1. k = m + width /\ k <= size
      BY <2>3
    <3> HIDE DEF k
    <3>2. place \in Nat /\ place + width = o + k /\ place + width <= Len(bytes)
      BY <1>1, <1>2, <2>2, <3>1
    <3> HIDE DEF place
    <3>3. place \in Places /\ place # Bad
      BY <1>2, <3>2 DEF Places, Bad
    <3> QED BY <3>2, <3>3 DEF k
  <2>5. s[i] = BytesAt(place, width)
    BY DEF ArraySlice
  <2>6. q[i - 1] = place /\ q[i] = o + i * width
    BY <2>1
  <2> HIDE DEF m, q, s, place
  <2>7. ReadBytesAt(place, width) = place + width /\ ReadBytesAt(place, width) # Bad
    BY <2>4, ReadEnds DEF Bad
  <2>8. Written(place, BytesAt(place, width), place + width)
    BY <2>4, <2>7, ReadIsWritten
  <2> QED BY <2>4, <2>5, <2>6, <2>8
<1>4. q[0] = o /\ q[n] = o + size
  <2>1. 0 \in 0..n /\ n \in 0..n /\ 0 * width = 0
    OBVIOUS
  <2> QED BY <1>1, <2>1
<1>5. DOMAIN s = 1..n /\ s = [i \in 1..n |-> s[i]]
  BY DEF ArraySlice
<1> HIDE DEF s, q, size
<1>6. Written(o, FlattenSeq(s), q[n])
  BY <1>1, <1>3, <1>4, <1>5, CursorsAreTiled
<1> QED BY <1>1, <1>4, <1>6 DEF s, size

-----------------------------------------------------------------------------
(* The parts of an accepted transaction.                                   *)

Good == Places \ {Bad}

\* Where try_new_v1 has found what, the mask of the configuration at m.
MessageFirstLayout(v, m, counts) ==
    /\ m = ReadBytesAt(0, 4)
    /\ v.message_version = "V1"
    /\ v.num_signatures = ByteAt(1) /\ v.num_required_signatures = ByteAt(1)
    /\ v.num_readonly_signed_static_accounts = ByteAt(2)
    /\ v.num_readonly_unsigned_static_accounts = ByteAt(3)
    /\ v.transaction_config_mask = LittleEndianAt(m, U32_BYTES)
    /\ v.recent_blockhash_offset = ReadBytesAt(m, U32_BYTES)
    /\ counts = ReadBytesAt(v.recent_blockhash_offset, BLOCKHASH_BYTES)
    /\ v.num_instructions = ByteAt(counts)
    /\ v.num_static_account_keys = ByteAt(ReadBytesAt(counts, 1))
    /\ v.static_account_keys_offset = ReadBytesAt(counts, 2)
    /\ v.transaction_config_values_offset =
          ReadBytesAt(v.static_account_keys_offset, v.num_static_account_keys * PUBKEY_BYTES)
    /\ v.instructions_offset =
          ConfigOffset(v.transaction_config_values_offset, v.transaction_config_mask, 4)
    /\ v.instruction_payloads_offset = ReadBytesAt(v.instructions_offset, 4 * v.num_instructions)
    /\ v.signatures_offset = LoopOverInstructions(v)[v.num_instructions].payload_offset
    /\ v.end = ReadBytesAt(v.signatures_offset, v.num_signatures * SIGNATURE_BYTES)
    /\ v.malformed = ConfigMaskMalformed(v.transaction_config_mask)

MessageFirstPlaces(v, m, counts) ==
    /\ {m, v.recent_blockhash_offset, counts, v.static_account_keys_offset,
        v.transaction_config_values_offset, v.instructions_offset,
        v.instruction_payloads_offset, v.signatures_offset} \subseteq Good
    /\ \A i \in 0..v.num_instructions : LoopOverInstructions(v)[i].header_offset # Bad
                                        /\ LoopOverInstructions(v)[i].payload_offset # Bad

\* The view of V1 is laid out so.
LEMMA MessageFirstIsLaidOut ==
    \E m, counts : MessageFirstLayout(ViewMessageFirst, m, counts)
<1> DEFINE v == ViewMessageFirst
           m == ReadBytesAt(0, 4)
           counts == ReadBytesAt(v.recent_blockhash_offset, BLOCKHASH_BYTES)
           turn == Loop("V1", v.instructions_offset, v.instruction_payloads_offset)
<1>1. /\ m = ReadBytesAt(0, 4)
      /\ v.message_version = "V1"
      /\ v.num_signatures = ByteAt(1) /\ v.num_required_signatures = ByteAt(1)
      /\ v.num_readonly_signed_static_accounts = ByteAt(2)
      /\ v.num_readonly_unsigned_static_accounts = ByteAt(3)
      /\ v.transaction_config_mask = LittleEndianAt(m, U32_BYTES)
      /\ v.recent_blockhash_offset = ReadBytesAt(m, U32_BYTES)
  BY ZenonT(60) DEF ViewMessageFirst
<1>2. /\ v.num_instructions = ByteAt(counts)
      /\ v.num_static_account_keys = ByteAt(ReadBytesAt(counts, 1))
      /\ v.static_account_keys_offset = ReadBytesAt(counts, 2)
  BY ZenonT(60) DEF ViewMessageFirst
<1>3. /\ v.transaction_config_values_offset =
            ReadBytesAt(v.static_account_keys_offset, v.num_static_account_keys * PUBKEY_BYTES)
      /\ v.instructions_offset =
            ConfigOffset(v.transaction_config_values_offset, v.transaction_config_mask, 4)
  BY ZenonT(60) DEF ViewMessageFirst
<1>4. /\ v.instruction_payloads_offset = ReadBytesAt(v.instructions_offset, 4 * v.num_instructions)
      /\ v.signatures_offset = turn[v.num_instructions].payload_offset
  BY ZenonT(60) DEF ViewMessageFirst
<1>5. /\ v.end = ReadBytesAt(v.signatures_offset, v.num_signatures * SIGNATURE_BYTES)
      /\ v.malformed = ConfigMaskMalformed(v.transaction_config_mask)
  BY ZenonT(60) DEF ViewMessageFirst
<1> HIDE DEF v
<1>6. LoopOverInstructions(v) = turn
  BY <1>1 DEF LoopOverInstructions
<1>7. counts = ReadBytesAt(v.recent_blockhash_offset, BLOCKHASH_BYTES)
  OBVIOUS
<1> HIDE DEF m, counts, turn
<1>8. MessageFirstLayout(v, m, counts)
  BY <1>1, <1>2, <1>3, <1>4, <1>5, <1>6, <1>7 DEF MessageFirstLayout
<1> QED BY <1>8 DEF v

\* What has been read to the end of the input has been read at good places.
LEMMA MessageFirstIsInPlace ==
    ASSUME bytes \in Seq(Byte), NEW v, Traversable(v), BytesInView(v) \subseteq Byte,
           NEW m, NEW counts, MessageFirstLayout(v, m, counts)
    PROVE  MessageFirstPlaces(v, m, counts)
<1> DEFINE blockhash == v.recent_blockhash_offset
           keys == v.static_account_keys_offset
           config == v.transaction_config_values_offset
           mask == v.transaction_config_mask
           headers == v.instructions_offset
           payloads == v.instruction_payloads_offset
           n == v.num_instructions
           turn == LoopOverInstructions(v)
           size == v.num_static_account_keys * PUBKEY_BYTES
<1>1. /\ m = ReadBytesAt(0, 4) /\ blockhash = ReadBytesAt(m, U32_BYTES)
      /\ counts = ReadBytesAt(blockhash, BLOCKHASH_BYTES)
      /\ keys = ReadBytesAt(counts, 2)
      /\ config = ReadBytesAt(keys, size)
      /\ headers = ConfigOffset(config, mask, 4)
      /\ v.signatures_offset = turn[n].payload_offset
      /\ v.message_version = "V1"
  BY DEF MessageFirstLayout
<1>2. /\ n \in Nat /\ headers \in Places /\ payloads \in Places
      /\ \A i \in 0..n : turn[i].header_offset # Bad /\ turn[i].payload_offset # Bad
  BY DEF Traversable
<1>3. turn = Loop("V1", headers, payloads)
  BY <1>1 DEF LoopOverInstructions
<1>4. size \in Nat
  <2>1. v.num_static_account_keys \in Nat
    BY DEF BytesInView, Byte
  <2> QED BY <2>1, FormatAssumption, ProductIsNumber
<1> HIDE DEF blockhash, keys, config, mask, headers, payloads, n, turn, size
<1>5. 0 \in 0..n /\ n \in 0..n /\ "V1" \in Kinds
  BY <1>2 DEF Kinds
<1>6. headers # Bad /\ payloads # Bad
  <2>1. turn[0].header_offset = headers /\ turn[0].payload_offset = payloads
    BY <1>2, <1>3, <1>5, LoopBegins
  <2> QED BY <1>2, <1>5, <2>1
<1>7. turn[n].payload_offset \in Places
  <2>1. LoopRuns("V1", headers, payloads, turn)
    BY <1>2, <1>3, V1LoopRuns
  <2> QED BY <1>2, <2>1 DEF LoopRuns
<1>8. m \in Places
  <2>1. 0 \in Places
    BY DEF Places
  <2> QED BY <1>1, <2>1, ReadEnds
<1>9. blockhash \in Places /\ (blockhash # Bad => m # Bad)
  BY <1>1, <1>8, FormatAssumption, ReadEnds
<1>10. counts \in Places /\ (counts # Bad => blockhash # Bad)
  BY <1>1, <1>9, FormatAssumption, ReadEnds
<1>11. keys \in Places /\ (keys # Bad => counts # Bad)
  BY <1>1, <1>10, ReadEnds
<1>12. config \in Places /\ (config # Bad => keys # Bad)
  BY <1>1, <1>4, <1>11, ReadEnds
<1>13. config # Bad
  BY <1>1, <1>6, <1>12, ConfigIsSkipped
<1>14. {m, blockhash, counts, keys, config, headers, payloads, v.signatures_offset} \subseteq Good
  BY <1>1, <1>2, <1>5, <1>6, <1>7, <1>8, <1>9, <1>10, <1>11, <1>12, <1>13 DEF Good
<1>15. \A i \in 0..n : turn[i].header_offset # Bad /\ turn[i].payload_offset # Bad
  BY <1>2
<1> QED BY <1>14, <1>15
       DEF MessageFirstPlaces, blockhash, keys, config, headers, payloads, n, turn

\* The mask of a configuration that is read is that of its values.
LEMMA MaskOfValues ==
    ASSUME NEW mask \in Nat, ~ConfigMaskMalformed(mask),
           NEW a \in Nat, NEW b \in Nat, NEW c \in Nat, NEW d \in Nat,
           NEW config,
           config = [priority_fee |-> IF HasPriorityFee(mask) THEN a ELSE NoValue,
                     compute_unit_limit |-> IF HasBit(mask, 4) THEN b ELSE NoValue,
                     loaded_accounts_data_size_limit |-> IF HasBit(mask, 8) THEN c ELSE NoValue,
                     requested_heap_size |-> IF HasBit(mask, 16) THEN d ELSE NoValue]
    PROVE  ConfigMask(config) = mask
<1>1. /\ (config.priority_fee = NoValue) <=> ~HasPriorityFee(mask)
      /\ (config.compute_unit_limit = NoValue) <=> ~HasBit(mask, 4)
      /\ (config.loaded_accounts_data_size_limit = NoValue) <=> ~HasBit(mask, 8)
      /\ (config.requested_heap_size = NoValue) <=> ~HasBit(mask, 16)
  BY FormatAssumption
<1>2. ConfigMask(config) = (IF HasPriorityFee(mask) THEN 3 ELSE 0)
                           + (IF HasBit(mask, 4) THEN 4 ELSE 0)
                           + (IF HasBit(mask, 8) THEN 8 ELSE 0)
                           + (IF HasBit(mask, 16) THEN 16 ELSE 0)
  BY <1>1 DEF ConfigMask
<1>3. mask \in 0..31 /\ mask % 4 \in {0, 3}
  BY DEF ConfigMaskMalformed
<1>4. mask = (IF HasPriorityFee(mask) THEN 3 ELSE 0)
             + (IF HasBit(mask, 4) THEN 4 ELSE 0)
             + (IF HasBit(mask, 8) THEN 8 ELSE 0)
             + (IF HasBit(mask, 16) THEN 16 ELSE 0)
  BY <1>3 DEF HasPriorityFee, HasBit
<1> QED BY <1>2, <1>4

\* A value of a configuration in bytes, none for none.
ValueBytes(value, width) == IF value = NoValue THEN <<>> ELSE LittleEndianBytes(value, width)

\* A value that was read, or none, was written.
LEMMA ValueReadIsWritten ==
    ASSUME bytes \in Seq(Byte), NEW o \in Places, NEW width \in Nat, NEW present,
           NEW e, e = ReadBytesAt(o, SizeIf(present, width)), e # Bad
    PROVE  /\ Written(o, ValueBytes(IF present THEN LittleEndianAt(o, width) ELSE NoValue,
                                    width), e)
           /\ e = o + SizeIf(present, width) /\ e \in Places
<1>1. CASE present
  <2>1. SizeIf(present, width) = width
    BY <1>1 DEF SizeIf
  <2>2. e = ReadBytesAt(o, width)
    BY <2>1
  <2>3. /\ LittleEndianBytes(LittleEndianAt(o, width), width) = BytesAt(o, width)
        /\ Written(o, BytesAt(o, width), e) /\ e = o + width /\ e \in Places
    BY <2>2, NumberReadIsWritten, ReadIsWritten, ReadEnds
  <2>4. LittleEndianAt(o, width) # NoValue
    BY LittleEndianIsNumber, FormatAssumption
  <2> QED BY <1>1, <2>1, <2>3, <2>4 DEF ValueBytes
<1>2. CASE ~present
  <2>1. SizeIf(present, width) = 0
    BY <1>2 DEF SizeIf
  <2>2. e = o /\ o \in Nat /\ o <= Len(bytes) /\ o + 0 = o
    BY <2>1, ReadEnds
  <2>3. Written(o, <<>>, e)
    BY <2>2, WrittenNothing
  <2> QED BY <1>2, <2>1, <2>2, <2>3 DEF ValueBytes
<1> QED BY <1>1, <1>2

\* The values of a configuration that the accessors read were written.
LEMMA ConfigReadIsWritten ==
    ASSUME bytes \in Seq(Byte), NEW v, v.transaction_config_values_offset \in Places,
           NEW e, e = ConfigOffset(v.transaction_config_values_offset,
                                   v.transaction_config_mask, 4),
           e # Bad
    PROVE  /\ Written(v.transaction_config_values_offset, ConfigBytes(transaction_config(v)), e)
           /\ OffsetAfterPriorityFee(v) \in Places
           /\ OffsetAfterComputeUnitLimit(v) \in Places
           /\ OffsetAfterLoadedAccountsDataSize(v) \in Places
<1> DEFINE mask == v.transaction_config_mask
           o == v.transaction_config_values_offset
           fee == ReadBytesAt(o, SizeIf(HasPriorityFee(mask), U64_BYTES))
           cu == ReadBytesAt(fee, SizeIf(HasBit(mask, 4), U32_BYTES))
           data == ReadBytesAt(cu, SizeIf(HasBit(mask, 8), U32_BYTES))
           heap == ReadBytesAt(data, SizeIf(HasBit(mask, 16), U32_BYTES))
           a == ValueBytes(IF HasPriorityFee(mask) THEN LittleEndianAt(o, U64_BYTES) ELSE NoValue,
                           U64_BYTES)
           b == ValueBytes(IF HasBit(mask, 4) THEN LittleEndianAt(fee, U32_BYTES) ELSE NoValue,
                           U32_BYTES)
           c == ValueBytes(IF HasBit(mask, 8) THEN LittleEndianAt(cu, U32_BYTES) ELSE NoValue,
                           U32_BYTES)
           d == ValueBytes(IF HasBit(mask, 16) THEN LittleEndianAt(data, U32_BYTES) ELSE NoValue,
                           U32_BYTES)
<1>1. /\ U32_BYTES \in Nat /\ U64_BYTES \in Nat
      /\ \A present : SizeIf(present, U64_BYTES) \in Nat /\ SizeIf(present, U32_BYTES) \in Nat
  BY FormatAssumption DEF SizeIf
<1>2. e = heap /\ o \in Places
  BY DEF ConfigOffset
<1>3. transaction_config(v) =
         [priority_fee |->
             IF HasPriorityFee(mask) THEN LittleEndianAt(o, U64_BYTES) ELSE NoValue,
          compute_unit_limit |->
             IF HasBit(mask, 4) THEN LittleEndianAt(OffsetAfterPriorityFee(v), U32_BYTES)
             ELSE NoValue,
          loaded_accounts_data_size_limit |->
             IF HasBit(mask, 8) THEN LittleEndianAt(OffsetAfterComputeUnitLimit(v), U32_BYTES)
             ELSE NoValue,
          requested_heap_size |->
             IF HasBit(mask, 16)
             THEN LittleEndianAt(OffsetAfterLoadedAccountsDataSize(v), U32_BYTES) ELSE NoValue]
  BY DEF transaction_config
<1>4. /\ OffsetAfterPriorityFee(v) = o + SizeIf(HasPriorityFee(mask), U64_BYTES)
      /\ OffsetAfterComputeUnitLimit(v)
            = OffsetAfterPriorityFee(v) + SizeIf(HasBit(mask, 4), U32_BYTES)
      /\ OffsetAfterLoadedAccountsDataSize(v)
            = OffsetAfterComputeUnitLimit(v) + SizeIf(HasBit(mask, 8), U32_BYTES)
  BY DEF OffsetAfterPriorityFee, OffsetAfterComputeUnitLimit, OffsetAfterLoadedAccountsDataSize
<1> HIDE DEF o, mask
<1>5. fee \in Places
  BY <1>1, <1>2, ReadEnds
<1>6. cu \in Places /\ (cu # Bad => fee # Bad)
  <2> HIDE DEF fee
  <2> QED BY <1>1, <1>5, ReadEnds
<1>7. data \in Places /\ (data # Bad => cu # Bad)
  <2> HIDE DEF cu
  <2> QED BY <1>1, <1>6, ReadEnds
<1>8. heap # Bad /\ data # Bad /\ cu # Bad /\ fee # Bad
  <2>1. heap # Bad => data # Bad
    <3> HIDE DEF data
    <3> QED BY <1>1, <1>7, ReadEnds
  <2> QED BY <1>2, <1>6, <1>7, <2>1
<1>9. Written(o, a, fee) /\ fee = o + SizeIf(HasPriorityFee(mask), U64_BYTES)
  BY <1>1, <1>2, <1>8, ValueReadIsWritten
<1>10. Written(fee, b, cu) /\ cu = fee + SizeIf(HasBit(mask, 4), U32_BYTES)
  <2> HIDE DEF fee
  <2> QED BY <1>1, <1>5, <1>8, ValueReadIsWritten
<1>11. Written(cu, c, data) /\ data = cu + SizeIf(HasBit(mask, 8), U32_BYTES)
  <2> HIDE DEF cu
  <2> QED BY <1>1, <1>6, <1>8, ValueReadIsWritten
<1>12. Written(data, d, heap)
  <2> HIDE DEF data
  <2> QED BY <1>1, <1>7, <1>8, ValueReadIsWritten
<1>13. /\ OffsetAfterPriorityFee(v) = fee /\ OffsetAfterComputeUnitLimit(v) = cu
       /\ OffsetAfterLoadedAccountsDataSize(v) = data
  <2> HIDE DEF fee, cu, data
  <2> QED BY <1>4, <1>9, <1>10, <1>11
<1>14. ConfigBytes(transaction_config(v)) = a \o b \o c \o d
  <2> DEFINE config == transaction_config(v)
  <2> HIDE DEF fee, cu, data
  <2>1. /\ ValueBytes(config.priority_fee, U64_BYTES) = a
        /\ ValueBytes(config.compute_unit_limit, U32_BYTES) = b
        /\ ValueBytes(config.loaded_accounts_data_size_limit, U32_BYTES) = c
        /\ ValueBytes(config.requested_heap_size, U32_BYTES) = d
    BY <1>3, <1>13
  <2> HIDE DEF config, a, b, c, d
  <2>2. ConfigBytes(config) = ValueBytes(config.priority_fee, U64_BYTES)
                              \o ValueBytes(config.compute_unit_limit, U32_BYTES)
                              \o ValueBytes(config.loaded_accounts_data_size_limit, U32_BYTES)
                              \o ValueBytes(config.requested_heap_size, U32_BYTES)
    BY DEF ConfigBytes, ValueBytes
  <2> QED BY <2>1, <2>2 DEF config
<1> HIDE DEF fee, cu, data, heap, a, b, c, d
<1>15. Written(o, a \o b, cu)
  BY <1>9, <1>10, WrittenTogether
<1>16. Written(o, a \o b \o c, data)
  BY <1>11, <1>15, WrittenTogether
<1>17. Written(o, a \o b \o c \o d, heap)
  BY <1>12, <1>16, WrittenTogether
<1> QED BY <1>2, <1>5, <1>6, <1>7, <1>13, <1>14, <1>17 DEF o

-----------------------------------------------------------------------------
(* What an accepted view hands out is the transaction that was written.    *)

\* Three bytes that are read were written, and those written are read.
LEMMA HeaderReadIsWritten ==
    ASSUME bytes \in Seq(Byte), NEW o \in Places, ReadBytesAt(o, 3) # Bad,
           NEW a, NEW b, NEW c, a = ByteAt(o), b = ByteAt(ReadBytesAt(o, 1)),
           c = ByteAt(ReadBytesAt(o, 2))
    PROVE  Written(o, <<a, b, c>>, ReadBytesAt(o, 3))
<1>1. /\ o \in Nat /\ o # Bad /\ ReadBytesAt(o, 3) = o + 3 /\ o + 3 <= Len(bytes)
      /\ Len(bytes) \in Nat
  BY ReadEnds
<1>2. /\ ReadBytesAt(o, 1) = o + 1 /\ ReadBytesAt(o, 2) = o + 2
      /\ ReadBytesAt(o + 1, 1) = o + 2 /\ ReadBytesAt(o + 2, 1) = o + 3
      /\ o + 1 \in Places /\ o + 2 \in Places
      /\ o + 1 # Bad /\ o + 2 # Bad /\ o + 3 # Bad
  BY <1>1 DEF ReadBytesAt, Bad, Places
<1>3. a = bytes[o + 1] /\ b = bytes[o + 2] /\ c = bytes[o + 3]
  BY <1>1, <1>2 DEF ByteAt
<1>4. a \in Byte /\ b \in Byte /\ c \in Byte
  BY <1>1, <1>2, ByteIsByte
<1>5. <<a, b, c>> \in Seq(Byte) /\ Len(<<a, b, c>>) = 3
  BY <1>4
<1>6. \A i \in 1..3 : bytes[o + i] = <<a, b, c>>[i]
  <2>1. \A i \in 1..3 : i = 1 \/ i = 2 \/ i = 3
    OBVIOUS
  <2> QED BY <1>3, <2>1
<1> QED BY <1>1, <1>5, <1>6 DEF Written

\* The parts that a view hands out.
ReadsAs(v, tx) ==
    /\ tx.message_version = v.message_version
    /\ tx.signatures = ArraySlice(v.signatures_offset, v.num_signatures, SIGNATURE_BYTES)
    /\ tx.num_required_signatures = v.num_required_signatures
    /\ tx.num_readonly_signed_static_accounts = v.num_readonly_signed_static_accounts
    /\ tx.num_readonly_unsigned_static_accounts = v.num_readonly_unsigned_static_accounts
    /\ tx.static_account_keys =
          ArraySlice(v.static_account_keys_offset, v.num_static_account_keys, PUBKEY_BYTES)
    /\ tx.recent_blockhash = BytesAt(v.recent_blockhash_offset, BLOCKHASH_BYTES)
    /\ tx.instructions =
          [i \in 1..v.num_instructions |-> InstructionOf(LoopOverInstructions(v)[i])]
    /\ tx.lookups =
          [i \in 1..v.num_address_table_lookups |-> LookupOf(LoopOverLookups(v)[i])]
    /\ tx.config = transaction_config(v)

\* What has been read to the end is what the view hands out.
LEMMA ReadingIsOfView ==
    ASSUME ViewInv, ReadToTheEnd
    PROVE  ReadsAs(view, Reading)
<1> DEFINE m == view.num_instructions
           n == view.num_address_table_lookups
           turn == LoopOverInstructions(view)
           lookup == LoopOverLookups(view)
<1>1. bytes \in Seq(Byte) /\ Accepted
  BY ReadToTheEndIsAll DEF ViewInv
<1>2. Traversable(view)
  BY <1>1, AcceptedIsTraversable
<1>3. view.instructions = Items(turn, m) /\ view.lookups = Items(lookup, n)
  BY <1>2 DEF Traversable
<1>4. /\ read_instructions = [i \in 1..m |-> InstructionOf(view.instructions[i])]
      /\ read_lookups = [i \in 1..n |-> LookupOf(view.lookups[i])]
  BY ReadToTheEndIsAll
<1> HIDE DEF m, n, turn, lookup
<1>5. /\ read_instructions = [i \in 1..m |-> InstructionOf(turn[i])]
      /\ read_lookups = [i \in 1..n |-> LookupOf(lookup[i])]
  BY <1>3, <1>4 DEF Items
<1> QED BY <1>5 DEF Reading, ReadsAs, m, n, turn, lookup

\* A V1 transaction that is read is the one written.
LEMMA MessageFirstIsFaithful ==
    ASSUME bytes \in Seq(Byte), bytes # <<>>, bytes[1] = V1_PREFIX,
           NEW v, Traversable(v), BytesInView(v) \subseteq Byte,
           v.end = Len(bytes), ~v.malformed,
           NEW m, NEW counts, MessageFirstLayout(v, m, counts),
           NEW tx, ReadsAs(v, tx)
    PROVE  MessageFirstBytes(tx) = bytes
<1> DEFINE blockhash == v.recent_blockhash_offset
           keys == v.static_account_keys_offset
           config == v.transaction_config_values_offset
           mask == v.transaction_config_mask
           headers == v.instructions_offset
           payloads == v.instruction_payloads_offset
           signatures == v.signatures_offset
           n == v.num_instructions
           k == v.num_static_account_keys
           turn == LoopOverInstructions(v)
           between == ReadBytesAt(counts, 1)
<1>1. MessageFirstPlaces(v, m, counts)
  BY MessageFirstIsInPlace
<1>2. /\ m \in Places /\ m # Bad /\ blockhash \in Places /\ blockhash # Bad
      /\ counts \in Places /\ counts # Bad /\ keys \in Places /\ keys # Bad
      /\ config \in Places /\ config # Bad /\ headers \in Places /\ headers # Bad
      /\ payloads \in Places /\ payloads # Bad /\ signatures \in Places /\ signatures # Bad
      /\ \A i \in 0..n : turn[i].header_offset # Bad /\ turn[i].payload_offset # Bad
  BY <1>1 DEF MessageFirstPlaces, Good
<1>3. n \in Nat /\ k \in Nat /\ v.num_signatures \in Nat
  <2>1. k \in Byte /\ v.num_signatures \in Byte
    BY DEF BytesInView
  <2> QED BY <2>1 DEF Traversable, Byte
<1>4. /\ m = ReadBytesAt(0, 4) /\ blockhash = ReadBytesAt(m, U32_BYTES)
      /\ counts = ReadBytesAt(blockhash, BLOCKHASH_BYTES)
      /\ keys = ReadBytesAt(counts, 2)
      /\ config = ReadBytesAt(keys, k * PUBKEY_BYTES)
      /\ headers = ConfigOffset(config, mask, 4)
      /\ payloads = ReadBytesAt(headers, 4 * n)
      /\ signatures = turn[n].payload_offset
      /\ Len(bytes) = ReadBytesAt(signatures, v.num_signatures * SIGNATURE_BYTES)
      /\ turn = Loop("V1", headers, payloads)
      /\ n = ByteAt(counts) /\ k = ByteAt(between)
  BY DEF MessageFirstLayout, LoopOverInstructions
<1>5. /\ mask = LittleEndianAt(m, U32_BYTES) /\ ~ConfigMaskMalformed(mask)
      /\ v.num_required_signatures = ByteAt(1)
      /\ v.num_readonly_signed_static_accounts = ByteAt(2)
      /\ v.num_readonly_unsigned_static_accounts = ByteAt(3)
  BY DEF MessageFirstLayout
<1>6. /\ tx.signatures = ArraySlice(signatures, v.num_signatures, SIGNATURE_BYTES)
      /\ tx.static_account_keys = ArraySlice(keys, k, PUBKEY_BYTES)
      /\ tx.recent_blockhash = BytesAt(blockhash, BLOCKHASH_BYTES)
      /\ tx.instructions = [i \in 1..n |-> InstructionOf(turn[i])]
      /\ tx.config = transaction_config(v)
      /\ HeaderBytes(tx) = <<v.num_required_signatures, v.num_readonly_signed_static_accounts,
                             v.num_readonly_unsigned_static_accounts>>
  BY DEF ReadsAs, HeaderBytes
<1>7. Len(tx.instructions) = n /\ Len(tx.static_account_keys) = k
  <2> HIDE DEF n, k, turn, keys
  <2>1. Len(tx.instructions) = n
    BY <1>3, <1>6
  <2>2. Len(tx.static_account_keys) = k
    BY <1>3, <1>6 DEF ArraySlice
  <2> QED BY <2>1, <2>2
<1>8. Len(bytes) \in Nat /\ Len(bytes) # Bad
  BY DEF Bad
<1>9. /\ Written(config, ConfigBytes(tx.config), headers)
      /\ OffsetAfterPriorityFee(v) \in Places
      /\ OffsetAfterComputeUnitLimit(v) \in Places
      /\ OffsetAfterLoadedAccountsDataSize(v) \in Places
  BY <1>2, <1>4, <1>6, ConfigReadIsWritten
<1>10. ConfigMask(tx.config) = mask
  <2> DEFINE a == LittleEndianAt(config, U64_BYTES)
             b == LittleEndianAt(OffsetAfterPriorityFee(v), U32_BYTES)
             c == LittleEndianAt(OffsetAfterComputeUnitLimit(v), U32_BYTES)
             d == LittleEndianAt(OffsetAfterLoadedAccountsDataSize(v), U32_BYTES)
  <2>1. transaction_config(v) =
           [priority_fee |-> IF HasPriorityFee(mask) THEN a ELSE NoValue,
            compute_unit_limit |-> IF HasBit(mask, 4) THEN b ELSE NoValue,
            loaded_accounts_data_size_limit |-> IF HasBit(mask, 8) THEN c ELSE NoValue,
            requested_heap_size |-> IF HasBit(mask, 16) THEN d ELSE NoValue]
    BY DEF transaction_config
  <2>2. mask \in Nat /\ a \in Nat /\ b \in Nat /\ c \in Nat /\ d \in Nat
    BY <1>2, <1>5, <1>9, FormatAssumption, LittleEndianIsNumber
  <2>3. tx.config = transaction_config(v)
    BY <1>6
  <2> HIDE DEF a, b, c, d, mask
  <2> QED BY <1>5, <2>1, <2>2, <2>3, MaskOfValues
<1> HIDE DEF blockhash, keys, config, mask, headers, payloads, signatures, n, k, turn
<1>11. m = 4 /\ 4 <= Len(bytes) /\ 0 \in Places /\ 1 \in Places
  <2>1. 0 \in Places
    BY DEF Places
  <2>2. m = 0 + 4 /\ 0 + 4 <= Len(bytes)
    BY <1>2, <1>4, <2>1, ReadEnds
  <2> QED BY <1>8, <2>1, <2>2 DEF Places
<1>12. Written(0, <<V1_PREFIX>>, 1)
  <2>1. ReadBytesAt(0, 1) = 1 /\ 1 # Bad /\ 0 + 1 = 1
    BY <1>8, <1>11 DEF ReadBytesAt, Bad
  <2>2. ByteAt(0) = V1_PREFIX
    BY <2>1 DEF ByteAt
  <2> QED BY <1>11, <2>1, <2>2, WrittenByte
<1>13. Written(1, HeaderBytes(tx), m)
  <2>1. ReadBytesAt(1, 1) = 2 /\ ReadBytesAt(1, 2) = 3 /\ ReadBytesAt(1, 3) = 4 /\ 4 # Bad
    BY <1>8, <1>11 DEF ReadBytesAt, Bad
  <2> DEFINE a == v.num_required_signatures
             b == v.num_readonly_signed_static_accounts
             c == v.num_readonly_unsigned_static_accounts
  <2>2. a = ByteAt(1) /\ b = ByteAt(ReadBytesAt(1, 1)) /\ c = ByteAt(ReadBytesAt(1, 2))
    BY <1>5, <2>1
  <2>3. HeaderBytes(tx) = <<a, b, c>>
    BY <1>6
  <2> HIDE DEF a, b, c
  <2>4. Written(1, <<a, b, c>>, ReadBytesAt(1, 3))
    BY <1>11, <2>1, <2>2, HeaderReadIsWritten
  <2> QED BY <1>11, <2>1, <2>3, <2>4
<1>14. Written(m, LittleEndianBytes(mask, U32_BYTES), blockhash)
  BY <1>2, <1>4, <1>5, FormatAssumption, NumberReadIsWritten, ReadIsWritten
<1>15. Written(blockhash, tx.recent_blockhash, counts)
  BY <1>2, <1>4, <1>6, FormatAssumption, ReadIsWritten
<1>16. Written(counts, <<n, k>>, keys)
  <2>1. /\ between \in Places /\ between # Bad
        /\ ReadBytesAt(between, 1) = keys
    <3>1. ReadBytesAt(counts, 1) \in Places /\ ReadBytesAt(counts, 1) # Bad
          /\ ReadBytesAt(ReadBytesAt(counts, 1), 1) = ReadBytesAt(counts, 2)
      <4>1. 2 = 1 + 1 /\ ReadBytesAt(counts, 2) # Bad
        BY <1>2, <1>4
      <4> QED BY <1>2, <4>1, ReadInTwo
    <3> QED BY <1>4, <3>1
  <2> HIDE DEF between
  <2>2. Written(counts, <<n>>, between)
    BY <1>2, <1>4, <2>1, WrittenByte DEF between
  <2>3. Written(between, <<k>>, keys)
    BY <1>2, <1>4, <2>1, WrittenByte
  <2>4. n \in Byte /\ k \in Byte
    BY <2>2, <2>3, WrittenByte
  <2> QED BY <2>2, <2>3, <2>4, TwoBytes, WrittenTogether
<1>17. Written(keys, FlattenSeq(tx.static_account_keys), config)
  BY <1>2, <1>3, <1>4, <1>6, FormatAssumption, ArraysReadAreWritten
<1>18. /\ Written(headers, Concat(V1HeaderBytes, tx.instructions), turn[n].header_offset)
       /\ Written(payloads, Concat(V1PayloadBytes, tx.instructions), signatures)
  <2> DEFINE loop == Loop("V1", headers, payloads)
  <2>1. /\ \A i \in 0..n : loop[i].header_offset # Bad /\ loop[i].payload_offset # Bad
        /\ tx.instructions = [i \in 1..n |-> InstructionOf(loop[i])]
        /\ loop = turn
    BY <1>2, <1>4, <1>6
  <2> DEFINE items == tx.instructions
  <2>2. items = [i \in 1..n |-> InstructionOf(Loop("V1", headers, payloads)[i])]
    BY <2>1
  <2> HIDE DEF items
  <2>3. /\ Written(headers, Concat(V1HeaderBytes, items),
                   Loop("V1", headers, payloads)[n].header_offset)
        /\ Written(payloads, Concat(V1PayloadBytes, items),
                   Loop("V1", headers, payloads)[n].payload_offset)
    BY <1>2, <1>3, <2>1, <2>2, V1InstructionsReadAreWritten
  <2> QED BY <1>4, <2>1, <2>3 DEF items
<1>19. turn[n].header_offset = payloads
  <2> DEFINE size == 4 * n
  <2>1. size \in Nat /\ payloads = ReadBytesAt(headers, size) /\ n \in 0..n
    BY <1>3, <1>4
  <2>2. payloads = headers + size /\ headers + size <= Len(bytes)
    <3> HIDE DEF size
    <3> QED BY <1>2, <2>1, ReadEnds
  <2>3. turn[n].header_offset = headers + size
    BY <1>2, <1>3, <1>4, <2>1, <2>2, HeadersFollow
  <2> QED BY <2>2, <2>3
<1>20. Written(signatures, FlattenSeq(tx.signatures), Len(bytes))
  BY <1>2, <1>3, <1>4, <1>6, <1>8, WireAssumption, ArraysReadAreWritten
<1> DEFINE b1 == <<V1_PREFIX>>
           b2 == HeaderBytes(tx)
           b3 == LittleEndianBytes(mask, U32_BYTES)
           b4 == tx.recent_blockhash
           b5 == <<n, k>>
           b6 == FlattenSeq(tx.static_account_keys)
           b7 == ConfigBytes(tx.config)
           b8 == Concat(V1HeaderBytes, tx.instructions)
           b9 == Concat(V1PayloadBytes, tx.instructions)
           b10 == FlattenSeq(tx.signatures)
<1>21. MessageFirstBytes(tx) = b1 \o b2 \o b3 \o b4 \o b5 \o b6 \o b7 \o b8 \o b9 \o b10
  BY <1>7, <1>10 DEF MessageFirstBytes
<1>22. /\ Written(0, b1, 1) /\ Written(1, b2, m) /\ Written(m, b3, blockhash)
       /\ Written(blockhash, b4, counts) /\ Written(counts, b5, keys)
       /\ Written(keys, b6, config) /\ Written(config, b7, headers)
       /\ Written(headers, b8, payloads) /\ Written(payloads, b9, signatures)
       /\ Written(signatures, b10, Len(bytes))
  BY <1>9, <1>12, <1>13, <1>14, <1>15, <1>16, <1>17, <1>18, <1>19, <1>20
<1> HIDE DEF b1, b2, b3, b4, b5, b6, b7, b8, b9, b10
<1>23. Written(0, b1 \o b2 \o b3, blockhash)
  BY <1>22, WrittenTogether
<1>24. Written(0, b1 \o b2 \o b3 \o b4 \o b5, keys)
  BY <1>22, <1>23, WrittenTogether
<1>25. Written(0, b1 \o b2 \o b3 \o b4 \o b5 \o b6 \o b7, headers)
  BY <1>22, <1>24, WrittenTogether
<1>26. Written(0, b1 \o b2 \o b3 \o b4 \o b5 \o b6 \o b7 \o b8 \o b9, signatures)
  BY <1>22, <1>25, WrittenTogether
<1>27. Written(0, b1 \o b2 \o b3 \o b4 \o b5 \o b6 \o b7 \o b8 \o b9 \o b10, Len(bytes))
  BY <1>22, <1>26, WrittenTogether
<1> QED BY <1>21, <1>27, WrittenWhole

\* Where try_new_signature_first has found what, the header of the message at h.
SignatureFirstLayout(v, prefix, h, counts) ==
    /\ v.num_signatures = ByteAt(0) /\ v.signatures_offset = 1
    /\ prefix = ReadBytesAt(1, v.num_signatures * SIGNATURE_BYTES)
    /\ v.message_version = IF ByteAt(prefix) < HIGH THEN "Legacy" ELSE "V0"
    /\ h = IF v.message_version = "V0" THEN ReadBytesAt(prefix, 1) ELSE prefix
    /\ v.num_required_signatures = ByteAt(h)
    /\ v.num_readonly_signed_static_accounts = ByteAt(ReadBytesAt(h, 1))
    /\ v.num_readonly_unsigned_static_accounts = ByteAt(ReadBytesAt(h, 2))
    /\ v.num_static_account_keys = ByteAt(ReadBytesAt(h, 3))
    /\ v.static_account_keys_offset = ReadBytesAt(h, 4)
    /\ v.recent_blockhash_offset =
          ReadBytesAt(v.static_account_keys_offset, v.num_static_account_keys * PUBKEY_BYTES)
    /\ counts = ReadBytesAt(v.recent_blockhash_offset, BLOCKHASH_BYTES)
    /\ v.num_instructions = ReadCompactAt(counts).value
    /\ v.instructions_offset = ReadCompactAt(counts).offset
    /\ v.instruction_payloads_offset = 0

\* The loop over its instructions ends at behind, the lookups of V0 are there.
LookupsLayout(v, prefix, behind) ==
    /\ behind = LoopOverInstructions(v)[v.num_instructions].header_offset
    /\ v.num_address_table_lookups = IF v.message_version = "V0" THEN ByteAt(behind) ELSE 0
    /\ v.address_table_lookups_offset =
          IF v.message_version = "V0" THEN ReadBytesAt(behind, 1) ELSE 0
    /\ v.end = IF v.message_version = "V0"
               THEN LoopOverLookups(v)[v.num_address_table_lookups].header_offset ELSE behind
    /\ v.transaction_config_mask = 0
    /\ v.malformed <=>
          \/ v.num_signatures \notin 1..MAX_SIGNATURES
          \/ ByteAt(prefix) > HIGH
          \/ v.num_static_account_keys \notin 1..MAX_STATIC_ACCOUNTS_PER_PACKET
          \/ MinimumBytesMissing(v.instructions_offset, 3 * v.num_instructions)
          \/ v.num_address_table_lookups > MAX_ADDRESS_TABLE_LOOKUPS_PER_PACKET
          \/ MinimumBytesMissing(v.address_table_lookups_offset,
                                 (PUBKEY_BYTES + 3) * v.num_address_table_lookups)

\* The view of the older formats is laid out so.
LEMMA SignatureFirstIsLaidOut ==
    \E prefix, h, counts, behind :
        /\ SignatureFirstLayout(ViewSignatureFirst, prefix, h, counts)
        /\ LookupsLayout(ViewSignatureFirst, prefix, behind)
<1> DEFINE v == ViewSignatureFirst
           prefix == ReadBytesAt(1, ByteAt(0) * SIGNATURE_BYTES)
           version == IF ByteAt(prefix) < HIGH THEN "Legacy" ELSE "V0"
           h == IF version = "V0" THEN ReadBytesAt(prefix, 1) ELSE prefix
           keys == ReadBytesAt(h, 4)
           blockhash == ReadBytesAt(keys, ByteAt(ReadBytesAt(h, 3)) * PUBKEY_BYTES)
           counts == ReadBytesAt(blockhash, BLOCKHASH_BYTES)
           count == ReadCompactAt(counts)
           turn == Loop(version, count.offset, 0)
           behind == turn[count.value].header_offset
           num_lookups == IF version = "V0" THEN ByteAt(behind) ELSE 0
           first == IF version = "V0" THEN ReadBytesAt(behind, 1) ELSE 0
           lookup == Loop("Lookup", first, 0)
<1>1. /\ v.num_signatures = ByteAt(0) /\ v.signatures_offset = 1
      /\ v.message_version = version
      /\ v.num_required_signatures = ByteAt(h)
      /\ v.num_readonly_signed_static_accounts = ByteAt(ReadBytesAt(h, 1))
      /\ v.num_readonly_unsigned_static_accounts = ByteAt(ReadBytesAt(h, 2))
  BY ZenonT(60) DEF ViewSignatureFirst
<1>2. /\ v.num_static_account_keys = ByteAt(ReadBytesAt(h, 3))
      /\ v.static_account_keys_offset = keys
      /\ v.recent_blockhash_offset = blockhash
  BY ZenonT(60) DEF ViewSignatureFirst
<1>3. /\ v.num_instructions = count.value
      /\ v.instructions_offset = count.offset
      /\ v.instruction_payloads_offset = 0
  BY ZenonT(60) DEF ViewSignatureFirst
<1>4. /\ v.num_address_table_lookups = num_lookups
      /\ v.address_table_lookups_offset = first
  BY ZenonT(60) DEF ViewSignatureFirst
<1>5. /\ v.end = IF version = "V0" THEN lookup[num_lookups].header_offset ELSE behind
      /\ v.transaction_config_mask = 0
  BY ZenonT(60) DEF ViewSignatureFirst
<1>6. v.malformed =
         (\/ ByteAt(0) \notin 1..MAX_SIGNATURES
          \/ ByteAt(prefix) > HIGH
          \/ ByteAt(ReadBytesAt(h, 3)) \notin 1..MAX_STATIC_ACCOUNTS_PER_PACKET
          \/ MinimumBytesMissing(count.offset, 3 * count.value)
          \/ num_lookups > MAX_ADDRESS_TABLE_LOOKUPS_PER_PACKET
          \/ MinimumBytesMissing(first, (PUBKEY_BYTES + 3) * num_lookups))
  BY ZenonT(60) DEF ViewSignatureFirst
<1> HIDE DEF v
<1>7. /\ prefix = ReadBytesAt(1, v.num_signatures * SIGNATURE_BYTES)
      /\ version = IF ByteAt(prefix) < HIGH THEN "Legacy" ELSE "V0"
      /\ h = IF version = "V0" THEN ReadBytesAt(prefix, 1) ELSE prefix
  BY <1>1
<1>8. /\ keys = ReadBytesAt(h, 4)
      /\ blockhash = ReadBytesAt(keys, v.num_static_account_keys * PUBKEY_BYTES)
      /\ counts = ReadBytesAt(blockhash, BLOCKHASH_BYTES)
      /\ count = ReadCompactAt(counts)
  BY <1>2
<1>9. LoopOverInstructions(v) = turn /\ LoopOverLookups(v) = lookup
  BY <1>1, <1>3, <1>4 DEF LoopOverInstructions, LoopOverLookups
<1>10. /\ behind = turn[count.value].header_offset
       /\ num_lookups = IF version = "V0" THEN ByteAt(behind) ELSE 0
       /\ first = IF version = "V0" THEN ReadBytesAt(behind, 1) ELSE 0
  OBVIOUS
<1> HIDE DEF prefix, version, h, keys, blockhash, counts, count, turn, behind, num_lookups,
             first, lookup
<1>11. SignatureFirstLayout(v, prefix, h, counts)
  BY <1>1, <1>2, <1>3, <1>7, <1>8 DEF SignatureFirstLayout
<1>12. LookupsLayout(v, prefix, behind)
  <2>1. /\ behind = LoopOverInstructions(v)[v.num_instructions].header_offset
        /\ v.num_address_table_lookups = IF v.message_version = "V0" THEN ByteAt(behind) ELSE 0
        /\ v.address_table_lookups_offset =
              IF v.message_version = "V0" THEN ReadBytesAt(behind, 1) ELSE 0
        /\ v.end = IF v.message_version = "V0"
                   THEN LoopOverLookups(v)[v.num_address_table_lookups].header_offset ELSE behind
    BY <1>1, <1>3, <1>4, <1>5, <1>9, <1>10
  <2> QED BY <1>1, <1>2, <1>3, <1>4, <1>5, <1>6, <2>1 DEF LookupsLayout
<1> QED BY <1>11, <1>12 DEF v

SignatureFirstPlaces(v, prefix, h, counts, behind) ==
    /\ {prefix, h, v.static_account_keys_offset, v.recent_blockhash_offset, counts,
        v.instructions_offset, behind} \subseteq Good
    /\ \A i \in 0..v.num_instructions : LoopOverInstructions(v)[i].header_offset # Bad

\* What has been read to the end of the input has been read at good places.
LEMMA SignatureFirstIsInPlace ==
    ASSUME bytes \in Seq(Byte), bytes # <<>>,
           NEW v, Traversable(v), BytesInView(v) \subseteq Byte,
           NEW prefix, NEW h, NEW counts, NEW behind,
           SignatureFirstLayout(v, prefix, h, counts), LookupsLayout(v, prefix, behind)
    PROVE  SignatureFirstPlaces(v, prefix, h, counts, behind)
<1> DEFINE keys == v.static_account_keys_offset
           blockhash == v.recent_blockhash_offset
           o == v.instructions_offset
           n == v.num_instructions
           turn == LoopOverInstructions(v)
           size == v.num_static_account_keys * PUBKEY_BYTES
           length == v.num_signatures * SIGNATURE_BYTES
<1>1. /\ prefix = ReadBytesAt(1, length)
      /\ h = IF v.message_version = "V0" THEN ReadBytesAt(prefix, 1) ELSE prefix
      /\ keys = ReadBytesAt(h, 4)
      /\ blockhash = ReadBytesAt(keys, size)
      /\ counts = ReadBytesAt(blockhash, BLOCKHASH_BYTES)
      /\ n = ReadCompactAt(counts).value /\ o = ReadCompactAt(counts).offset
      /\ v.instruction_payloads_offset = 0
      /\ v.message_version \in {"Legacy", "V0"}
  BY DEF SignatureFirstLayout
<1>2. /\ n \in Nat /\ o \in Places
      /\ \A i \in 0..n : turn[i].header_offset # Bad
  BY DEF Traversable
<1>3. turn = Loop(v.message_version, o, 0)
  BY <1>1 DEF LoopOverInstructions
<1>4. behind = turn[n].header_offset
  BY DEF LookupsLayout
<1>5. size \in Nat /\ length \in Nat
  <2>1. v.num_static_account_keys \in Nat /\ v.num_signatures \in Nat
    BY DEF BytesInView, Byte
  <2> QED BY <2>1, FormatAssumption, WireAssumption, ProductIsNumber
<1> HIDE DEF keys, blockhash, o, n, turn, size, length
<1>6. 0 \in 0..n /\ n \in 0..n /\ v.message_version \in Kinds /\ 0 \in Places
  BY <1>1, <1>2 DEF Kinds, Places
<1>7. o # Bad
  <2>1. turn[0].header_offset = o
    BY <1>2, <1>3, <1>6, LoopBegins
  <2> QED BY <1>2, <1>6, <2>1
<1>8. behind \in Places /\ behind # Bad
  <2>1. LoopRuns(v.message_version, o, 0, turn)
    BY <1>2, <1>3, <1>6, LoopReads
  <2> QED BY <1>2, <1>4, <1>6, <2>1 DEF LoopRuns
<1>9. prefix \in Places
  <2>1. 1 \in Places
    BY EmptySeq DEF Places
  <2> QED BY <1>1, <1>5, <2>1, ReadEnds
<1>10. h \in Places /\ (h # Bad => prefix # Bad)
  BY <1>1, <1>9, ReadEnds
<1>11. keys \in Places /\ (keys # Bad => h # Bad)
  BY <1>1, <1>10, ReadEnds
<1>12. blockhash \in Places /\ (blockhash # Bad => keys # Bad)
  BY <1>1, <1>5, <1>11, ReadEnds
<1>13. counts \in Places /\ (counts # Bad => blockhash # Bad)
  BY <1>1, <1>12, FormatAssumption, ReadEnds
<1>14. counts # Bad
  BY <1>1, <1>7, <1>13, CompactIsRead
<1>15. {prefix, h, keys, blockhash, counts, o, behind} \subseteq Good
  BY <1>2, <1>7, <1>8, <1>9, <1>10, <1>11, <1>12, <1>13, <1>14 DEF Good
<1> QED BY <1>2, <1>15 DEF SignatureFirstPlaces, keys, blockhash, o, n, turn

\* A transaction of the older formats that is read is the one written.
LEMMA SignatureFirstIsFaithful ==
    ASSUME bytes \in Seq(Byte), bytes # <<>>,
           NEW v, Traversable(v), BytesInView(v) \subseteq Byte,
           v.end = Len(bytes), ~v.malformed,
           NEW prefix, NEW h, NEW counts, NEW behind,
           SignatureFirstLayout(v, prefix, h, counts), LookupsLayout(v, prefix, behind),
           NEW tx, ReadsAs(v, tx)
    PROVE  SignatureFirstBytes(tx) = bytes
<1> DEFINE version == v.message_version
           keys == v.static_account_keys_offset
           blockhash == v.recent_blockhash_offset
           o == v.instructions_offset
           n == v.num_instructions
           k == v.num_static_account_keys
           l == v.num_address_table_lookups
           s == v.num_signatures
           first == v.address_table_lookups_offset
           turn == LoopOverInstructions(v)
           lookup == LoopOverLookups(v)
           between == ReadBytesAt(h, 3)
<1>1. SignatureFirstPlaces(v, prefix, h, counts, behind)
  BY SignatureFirstIsInPlace
<1>2. /\ prefix \in Places /\ prefix # Bad /\ h \in Places /\ h # Bad
      /\ keys \in Places /\ keys # Bad /\ blockhash \in Places /\ blockhash # Bad
      /\ counts \in Places /\ counts # Bad /\ o \in Places /\ o # Bad
      /\ behind \in Places /\ behind # Bad
      /\ \A i \in 0..n : turn[i].header_offset # Bad
  BY <1>1 DEF SignatureFirstPlaces, Good
<1>3. n \in Nat /\ k \in Nat /\ l \in Nat /\ s \in Nat /\ first \in Places
      /\ \A i \in 0..l : lookup[i].header_offset # Bad
  <2>1. k \in Byte /\ s \in Byte
    BY DEF BytesInView
  <2> QED BY <2>1 DEF Traversable, Byte
<1>4. /\ s = ByteAt(0) /\ prefix = ReadBytesAt(1, s * SIGNATURE_BYTES)
      /\ version = IF ByteAt(prefix) < HIGH THEN "Legacy" ELSE "V0"
      /\ h = IF version = "V0" THEN ReadBytesAt(prefix, 1) ELSE prefix
      /\ k = ByteAt(between) /\ keys = ReadBytesAt(h, 4)
      /\ blockhash = ReadBytesAt(keys, k * PUBKEY_BYTES)
      /\ counts = ReadBytesAt(blockhash, BLOCKHASH_BYTES)
      /\ n = ReadCompactAt(counts).value /\ o = ReadCompactAt(counts).offset
      /\ v.instruction_payloads_offset = 0
      /\ v.num_required_signatures = ByteAt(h)
      /\ v.num_readonly_signed_static_accounts = ByteAt(ReadBytesAt(h, 1))
      /\ v.num_readonly_unsigned_static_accounts = ByteAt(ReadBytesAt(h, 2))
  BY DEF SignatureFirstLayout
<1>5. /\ behind = turn[n].header_offset
      /\ l = IF version = "V0" THEN ByteAt(behind) ELSE 0
      /\ first = IF version = "V0" THEN ReadBytesAt(behind, 1) ELSE 0
      /\ Len(bytes) = IF version = "V0" THEN lookup[l].header_offset ELSE behind
      /\ ~(ByteAt(prefix) > HIGH)
  BY DEF LookupsLayout
<1>6. /\ tx.message_version = version
      /\ tx.signatures = ArraySlice(1, s, SIGNATURE_BYTES)
      /\ tx.static_account_keys = ArraySlice(keys, k, PUBKEY_BYTES)
      /\ tx.recent_blockhash = BytesAt(blockhash, BLOCKHASH_BYTES)
      /\ tx.instructions = [i \in 1..n |-> InstructionOf(turn[i])]
      /\ tx.lookups = [i \in 1..l |-> LookupOf(lookup[i])]
      /\ HeaderBytes(tx) = <<v.num_required_signatures, v.num_readonly_signed_static_accounts,
                             v.num_readonly_unsigned_static_accounts>>
  BY DEF ReadsAs, HeaderBytes, SignatureFirstLayout
<1>7. turn = Loop(version, o, 0) /\ lookup = Loop("Lookup", first, 0)
  BY <1>4 DEF LoopOverInstructions, LoopOverLookups
<1> DEFINE HeaderIs(a, b, c) ==
              /\ a = ByteAt(h) /\ b = ByteAt(ReadBytesAt(h, 1)) /\ c = ByteAt(ReadBytesAt(h, 2))
              /\ HeaderBytes(tx) = <<a, b, c>>
<1>8. \E a, b, c : HeaderIs(a, b, c)
  BY <1>4, <1>6
<1> HIDE DEF version, keys, blockhash, o, n, k, l, s, first, turn, lookup, HeaderIs
<1>9. /\ Len(tx.signatures) = s /\ Len(tx.static_account_keys) = k
      /\ Len(tx.instructions) = n /\ Len(tx.lookups) = l
  <2>1. Len(tx.signatures) = s /\ Len(tx.static_account_keys) = k
    BY <1>3, <1>6 DEF ArraySlice
  <2>2. Len(tx.instructions) = n
    BY <1>3, <1>6
  <2>3. Len(tx.lookups) = l
    BY <1>3, <1>6
  <2> QED BY <2>1, <2>2, <2>3
<1>10. Len(bytes) \in Nat /\ Len(bytes) # Bad /\ Len(bytes) >= 1
       /\ 0 \in Places /\ 1 \in Places
  <2>1. Len(bytes) \in Nat /\ Len(bytes) # 0
    BY EmptySeq
  <2> QED BY <2>1 DEF Bad, Places
<1>11. Written(0, <<s>>, 1)
  <2>1. ReadBytesAt(0, 1) = 1 /\ 1 # Bad
    BY <1>10 DEF ReadBytesAt, Bad
  <2> QED BY <1>4, <1>10, <2>1, WrittenByte
<1>12. Written(1, FlattenSeq(tx.signatures), prefix)
  BY <1>2, <1>3, <1>4, <1>6, <1>10, WireAssumption, ArraysReadAreWritten
<1>13. Written(prefix, IF version = "V0" THEN <<HIGH>> ELSE <<>>, h)
  <2>1. CASE version = "V0"
    <3>1. ByteAt(prefix) = HIGH
      <4>1. ByteAt(prefix) \in Nat
        BY <1>2, ByteIsByte
      <4>2. ~(ByteAt(prefix) < HIGH)
        BY <1>4, <2>1
      <4> QED BY <1>5, <4>1, <4>2, HighIsNumber
    <3>2. h = ReadBytesAt(prefix, 1)
      BY <1>4, <2>1
    <3> QED BY <1>2, <2>1, <3>1, <3>2, WrittenByte
  <2>2. CASE version # "V0"
    <3>1. h = prefix /\ prefix \in Nat /\ prefix <= Len(bytes)
      BY <1>2, <1>4, <1>10, <2>2 DEF Places
    <3> QED BY <2>2, <3>1, WrittenNothing
  <2> QED BY <2>1, <2>2
<1>14. /\ between \in Places /\ between # Bad /\ ReadBytesAt(between, 1) = keys
  <2>1. ReadBytesAt(h, 3) \in Places /\ ReadBytesAt(h, 3) # Bad
        /\ ReadBytesAt(ReadBytesAt(h, 3), 1) = ReadBytesAt(h, 4)
    <3>1. 4 = 3 + 1 /\ ReadBytesAt(h, 4) # Bad
      BY <1>2, <1>4
    <3> QED BY <1>2, <3>1, ReadInTwo
  <2> QED BY <1>4, <2>1
<1>15. Written(h, HeaderBytes(tx), between)
  <2>1. PICK a, b, c : HeaderIs(a, b, c)
    BY <1>8
  <2> QED BY <1>2, <1>14, <2>1, HeaderReadIsWritten DEF HeaderIs
<1> HIDE DEF between
<1>16. Written(between, <<k>>, keys)
  BY <1>2, <1>4, <1>14, WrittenByte
<1>17. Written(keys, FlattenSeq(tx.static_account_keys), blockhash)
  BY <1>2, <1>3, <1>4, <1>6, FormatAssumption, ArraysReadAreWritten
<1>18. Written(blockhash, tx.recent_blockhash, counts)
  BY <1>2, <1>4, <1>6, FormatAssumption, ReadIsWritten
<1>19. Written(counts, Compact(n), o)
  BY <1>2, <1>4, CompactReadIsWritten
<1>20. version \in {"Legacy", "V0"}
  BY <1>4
<1>21. Written(o, Concat(InstructionBytes, tx.instructions), behind)
  <2> DEFINE items == tx.instructions
             loop == Loop(version, o, 0)
  <2>1. /\ \A i \in 0..n : loop[i].header_offset # Bad
        /\ items = [i \in 1..n |-> InstructionOf(loop[i])]
        /\ behind = loop[n].header_offset
    BY <1>2, <1>5, <1>6, <1>7
  <2> HIDE DEF items
  <2>2. Written(o, Concat(InstructionBytes, items), loop[n].header_offset)
    BY <1>2, <1>3, <1>20, <2>1, InstructionsReadAreWritten
  <2> QED BY <2>1, <2>2 DEF items
<1> DEFINE tail == IF version = "V0" THEN <<Len(tx.lookups)>> \o Concat(LookupBytes, tx.lookups)
                   ELSE <<>>
<1>22. Written(behind, tail, Len(bytes))
  <2>1. CASE version = "V0"
    <3> DEFINE items == tx.lookups
               loop == Loop("Lookup", first, 0)
    <3>1. /\ \A i \in 0..l : loop[i].header_offset # Bad
          /\ items = [i \in 1..l |-> LookupOf(loop[i])]
          /\ Len(bytes) = loop[l].header_offset
      BY <1>3, <1>5, <1>6, <1>7, <2>1
    <3>2. /\ l = ByteAt(behind) /\ first = ReadBytesAt(behind, 1) /\ Len(items) = l
          /\ tail = <<l>> \o Concat(LookupBytes, items)
      BY <1>5, <1>9, <2>1
    <3> HIDE DEF items, tail
    <3>3. Written(first, Concat(LookupBytes, items), loop[l].header_offset)
      BY <1>3, <3>1, LookupsReadAreWritten
    <3>4. first # Bad
      <4>1. "Lookup" \in Kinds /\ 0 \in 0..l
        BY <1>3 DEF Kinds
      <4>2. loop[0].header_offset = first
        BY <1>3, <1>10, <4>1, LoopBegins
      <4> HIDE DEF loop
      <4> QED BY <3>1, <4>1, <4>2
    <3>5. Written(behind, <<l>>, first)
      BY <1>2, <3>2, <3>4, WrittenByte
    <3> HIDE DEF loop
    <3> QED BY <3>1, <3>2, <3>3, <3>5, WrittenTogether
  <2>2. CASE version # "V0"
    <3>1. tail = <<>> /\ Len(bytes) = behind /\ behind \in Nat
      BY <1>2, <1>5, <1>10, <2>2
    <3> HIDE DEF tail
    <3> QED BY <3>1, WrittenNothing
  <2> QED BY <2>1, <2>2
<1> DEFINE b1 == <<s>>
           b2 == FlattenSeq(tx.signatures)
           b3 == IF version = "V0" THEN <<HIGH>> ELSE <<>>
           b4 == HeaderBytes(tx)
           b5 == <<k>>
           b6 == FlattenSeq(tx.static_account_keys)
           b7 == tx.recent_blockhash
           b8 == Compact(n)
           b9 == Concat(InstructionBytes, tx.instructions)
<1>23. SignatureFirstBytes(tx) =
          b1 \o b2 \o b3 \o b4 \o b5 \o b6 \o b7 \o b8 \o b9 \o tail
  BY <1>6, <1>9 DEF SignatureFirstBytes
<1>24. /\ Written(0, b1, 1) /\ Written(1, b2, prefix) /\ Written(prefix, b3, h)
       /\ Written(h, b4, between) /\ Written(between, b5, keys)
       /\ Written(keys, b6, blockhash) /\ Written(blockhash, b7, counts)
       /\ Written(counts, b8, o) /\ Written(o, b9, behind)
       /\ Written(behind, tail, Len(bytes))
  BY <1>11, <1>12, <1>13, <1>15, <1>16, <1>17, <1>18, <1>19, <1>21, <1>22
<1> HIDE DEF b1, b2, b3, b4, b5, b6, b7, b8, b9, tail
<1>25. Written(0, b1 \o b2 \o b3, h)
  BY <1>24, WrittenTogether
<1>26. Written(0, b1 \o b2 \o b3 \o b4 \o b5, keys)
  BY <1>24, <1>25, WrittenTogether
<1>27. Written(0, b1 \o b2 \o b3 \o b4 \o b5 \o b6 \o b7, counts)
  BY <1>24, <1>26, WrittenTogether
<1>28. Written(0, b1 \o b2 \o b3 \o b4 \o b5 \o b6 \o b7 \o b8 \o b9, behind)
  BY <1>24, <1>27, WrittenTogether
<1>29. Written(0, b1 \o b2 \o b3 \o b4 \o b5 \o b6 \o b7 \o b8 \o b9 \o tail, Len(bytes))
  BY <1>24, <1>28, WrittenTogether
<1> QED BY <1>23, <1>29, WrittenWhole

\* ReadingIsFaithful: what an accepted input hands out, written again, is the
\* input to the last byte.
THEOREM ReadingsAreFaithful == ViewSpec => []ReadingIsFaithful
<1>1. ViewInv => ReadingIsFaithful
  <2> SUFFICES ASSUME ViewInv, ReadToTheEnd PROVE Serialize(Reading) = bytes
    BY DEF ReadingIsFaithful
  <2>1. bytes \in Seq(Byte) /\ Accepted /\ ReadsAs(view, Reading)
    BY ReadToTheEndIsAll, ReadingIsOfView DEF ViewInv
  <2>2. /\ Traversable(view) /\ BytesInView(view) \subseteq Byte
        /\ ~view.malformed /\ view.end = Len(bytes) /\ bytes # <<>>
        /\ Reading.message_version = view.message_version
    BY <2>1, AcceptedIsTraversable, OkPassesRules DEF Accepted, ReadsAs
  <2>3. CASE bytes[1] = V1_PREFIX /\ view = ViewMessageFirst
    <3>1. PICK m, counts : MessageFirstLayout(view, m, counts)
      BY <2>3, MessageFirstIsLaidOut
    <3>2. view.message_version = "V1"
      BY <3>1 DEF MessageFirstLayout
    <3>3. MessageFirstBytes(Reading) = bytes
      <4> DEFINE tx == Reading
                 v == view
      <4>1. ReadsAs(v, tx) /\ MessageFirstLayout(v, m, counts)
        BY <2>1, <3>1
      <4>2. Traversable(v) /\ BytesInView(v) \subseteq Byte /\ ~v.malformed /\ v.end = Len(bytes)
        BY <2>2
      <4> HIDE DEF tx, v
      <4>3. MessageFirstBytes(tx) = bytes
        BY <2>1, <2>2, <2>3, <4>1, <4>2, MessageFirstIsFaithful
      <4> QED BY <4>3 DEF tx
    <3> QED BY <2>2, <3>2, <3>3 DEF Serialize
  <2>4. CASE bytes[1] < HIGH /\ view = ViewSignatureFirst
    <3>1. PICK prefix, h, counts, behind : /\ SignatureFirstLayout(view, prefix, h, counts)
                                           /\ LookupsLayout(view, prefix, behind)
      BY <2>4, SignatureFirstIsLaidOut
    <3>2. view.message_version # "V1"
      BY <3>1 DEF SignatureFirstLayout
    <3>3. SignatureFirstBytes(Reading) = bytes
      <4> DEFINE tx == Reading
                 v == view
      <4>1. /\ ReadsAs(v, tx) /\ SignatureFirstLayout(v, prefix, h, counts)
            /\ LookupsLayout(v, prefix, behind)
        BY <2>1, <3>1
      <4>2. Traversable(v) /\ BytesInView(v) \subseteq Byte /\ ~v.malformed /\ v.end = Len(bytes)
        BY <2>2
      <4> HIDE DEF tx, v
      <4>3. SignatureFirstBytes(tx) = bytes
        BY <2>1, <2>2, <4>1, <4>2, SignatureFirstIsFaithful
      <4> QED BY <4>3 DEF tx
    <3> QED BY <2>2, <3>2, <3>3 DEF Serialize
  <2> QED BY <2>1, <2>3, <2>4 DEF Accepted
<1> QED BY <1>1, ViewInvariance, PTL

-----------------------------------------------------------------------------
(* What was written is read back.                                          *)

\* Sequences of bytes one after the other are bytes.
LEMMA FlattenIsBytes ==
    ASSUME NEW s \in Seq(Seq(Byte))
    PROVE  FlattenSeq(s) \in Seq(Byte)
<1>1. PICK pre : GrowsTo(s, pre) /\ FlattenSeq(s) = pre[Len(s)]
  BY FlattenUnfolds
<1>2. Len(s) \in 0..Len(s)
  OBVIOUS
<1> QED BY <1>1, <1>2 DEF GrowsTo

\* What a writer makes of each element are sequences of bytes.
LEMMA WritingsAreBytes ==
    ASSUME NEW n \in Nat, NEW s, s = [i \in 1..n |-> s[i]],
           \A i \in 1..n : s[i] \in Seq(Byte)
    PROVE  s \in Seq(Seq(Byte)) /\ Len(s) = n
<1> DEFINE S == Seq(Byte)
<1>1. \A i \in 1..n : s[i] \in S
  OBVIOUS
<1> HIDE DEF S
<1>2. s \in [1..n -> S]
  BY <1>1
<1>3. s \in Seq(S) /\ Len(s) = n
  BY <1>2
<1> QED BY <1>3 DEF S

\* An array takes its width.
LEMMA WrittenArraysEnd ==
    ASSUME bytes \in Seq(Byte), NEW width \in Nat, NEW s \in Seq(Array(width)), NEW o, NEW e,
           Written(o, FlattenSeq(s), e)
    PROVE  /\ o \in Places /\ o # Bad /\ e # Bad
           /\ ReadBytesAt(o, Len(s) * width) = e
<1> DEFINE n == Len(s)
<1>1. n \in Nat /\ s = [i \in 1..n |-> s[i]] /\ \A i \in 1..n : s[i] \in Array(width)
  OBVIOUS
<1>2. \A i \in 1..n : s[i] \in Seq(Byte) /\ Len(s[i]) = width
  BY <1>1, ArrayIsBytes
<1> HIDE DEF n
<1>3. s \in Seq(Seq(Byte)) /\ Len(s) = n
  BY <1>1, <1>2, WritingsAreBytes
<1>4. PICK q : Tiled(s, q) /\ q[0] = o /\ q[n] = e
  BY <1>3, WrittenIsTiled
<1>5. o \in Nat /\ e \in Nat /\ e <= Len(bytes) /\ o # Bad /\ e # Bad /\ o \in Places
  BY WrittenIsRead DEF Written
<1> DEFINE Ends == {i \in Nat : i <= n => q[i] = o + i * width}
<1>6. 0 \in Ends
  BY <1>4, <1>5
<1>7. ASSUME NEW i \in Ends \cap Nat PROVE i + 1 \in Ends
  <2> SUFFICES ASSUME i + 1 <= n PROVE q[i + 1] = o + (i + 1) * width
    OBVIOUS
  <2> DEFINE j == i + 1
             size == i * width
  <2>1. j \in 1..n /\ j - 1 = i /\ i \in Nat
    BY <1>1
  <2>2. q[i] = o + size /\ size \in Nat /\ j * width = size + width
    BY <1>1, <2>1, ProductIsNumber
  <2> HIDE DEF j, size
  <2>3. Written(q[i], s[j], q[j])
    BY <1>3, <1>4, <2>1 DEF Tiled
  <2>4. Len(s[j]) = width
    BY <1>2, <2>1
  <2>5. q[j] = q[i] + width
    BY <2>3, <2>4 DEF Written
  <2>6. q[j] = o + j * width
    <3> DEFINE size2 == j * width
    <3>1. size2 = size + width
      BY <2>2
    <3> HIDE DEF size2
    <3>2. q[j] = o + size2
      BY <1>5, <2>2, <2>5, <3>1
    <3> QED BY <3>2 DEF size2
  <2> QED BY <2>6 DEF j
<1>8. Nat \subseteq Ends
  <2> HIDE DEF Ends
  <2> QED BY <1>6, <1>7, NaturalInduction
<1>9. e = o + n * width
  BY <1>1, <1>4, <1>8
<1>10. ReadBytesAt(o, n * width) = e
  <2> DEFINE size == n * width
  <2>1. e = o + size
    BY <1>9
  <2> HIDE DEF size
  <2>2. ReadBytesAt(o, size) = e
    BY <1>5, <2>1 DEF ReadBytesAt
  <2> QED BY <2>2 DEF size
<1> QED BY <1>5, <1>10 DEF n

\* An instruction is written in bytes.
LEMMA InstructionIsBytes ==
    ASSUME NEW ix \in Instructions
    PROVE  InstructionBytes(ix) \in Seq(Byte)
<1>1. /\ ix.program_id_index \in Byte /\ ix.accounts \in CompactSeq(Byte)
      /\ ix.data \in CompactSeq(Byte)
  BY DEF Instructions
<1>2. Vector(ix.accounts) \in Seq(Byte) /\ Vector(ix.data) \in Seq(Byte)
  BY <1>1, VectorIsBytes
<1>3. <<ix.program_id_index>> \in Seq(Byte)
  BY <1>1
<1> DEFINE a == <<ix.program_id_index>>
           b == Vector(ix.accounts)
           c == Vector(ix.data)
<1>4. a \in Seq(Byte) /\ b \in Seq(Byte) /\ c \in Seq(Byte) /\ InstructionBytes(ix) = a \o b \o c
  BY <1>2, <1>3 DEF InstructionBytes
<1> HIDE DEF a, b, c
<1> QED BY <1>4

\* A lookup is written in bytes.
LEMMA LookupIsBytes ==
    ASSUME NEW lookup \in Lookups
    PROVE  LookupBytes(lookup) \in Seq(Byte)
<1>1. /\ lookup.account_key \in Array(PUBKEY_BYTES)
      /\ lookup.writable_indexes \in CompactSeq(Byte)
      /\ lookup.readonly_indexes \in CompactSeq(Byte)
  BY DEF Lookups
<1> DEFINE a == lookup.account_key
           b == Vector(lookup.writable_indexes)
           c == Vector(lookup.readonly_indexes)
<1>2. a \in Seq(Byte)
  BY <1>1, FormatAssumption, ArrayIsBytes
<1>3. b \in Seq(Byte) /\ c \in Seq(Byte) /\ LookupBytes(lookup) = a \o b \o c
  BY <1>1, VectorIsBytes DEF LookupBytes
<1> HIDE DEF a, b, c
<1> QED BY <1>2, <1>3

\* An instruction of V1 is written in bytes if a byte can count its accounts.
LEMMA V1InstructionIsBytes ==
    ASSUME NEW ix \in Instructions, Len(ix.accounts) < MAX_ACCOUNTS
    PROVE  V1HeaderBytes(ix) \in Seq(Byte) /\ V1PayloadBytes(ix) \in Seq(Byte)
<1> DEFINE a == ix.accounts
           d == ix.data
           p == ix.program_id_index
           n == Len(ix.accounts)
           header == <<ix.program_id_index, Len(ix.accounts)>>
           length == LittleEndianBytes(Len(ix.data), 2)
<1>1. p \in Byte /\ a \in CompactSeq(Byte) /\ d \in CompactSeq(Byte)
  BY DEF Instructions
<1>2. a \in Seq(Byte) /\ d \in Seq(Byte) /\ n \in Nat /\ Len(d) \in Nat
  BY <1>1, VectorIsBytes
<1>3. n \in Byte
  BY <1>2, HighIsNumber DEF Byte, MAX_ACCOUNTS
<1>4. header \in Seq(Byte)
  <2>1. header = <<p, n>>
    OBVIOUS
  <2> HIDE DEF p, n, header
  <2> QED BY <1>1, <1>3, <2>1
<1>5. length \in Seq(Byte)
  BY <1>2, LittleEndianIsBytes
<1>6. V1HeaderBytes(ix) = header \o length /\ V1PayloadBytes(ix) = a \o d
  BY DEF V1HeaderBytes, V1PayloadBytes
<1> HIDE DEF a, d, header, length
<1> QED BY <1>2, <1>4, <1>5, <1>6

\* The instructions of the older formats are written in bytes.
LEMMA InstructionsAreBytes ==
    ASSUME NEW ixs \in Seq(Instructions)
    PROVE  [i \in DOMAIN ixs |-> InstructionBytes(ixs[i])] \in Seq(Seq(Byte))
<1> DEFINE n == Len(ixs)
           s == [i \in 1..n |-> InstructionBytes(ixs[i])]
<1>1. n \in Nat /\ DOMAIN ixs = 1..n /\ \A i \in 1..n : ixs[i] \in Instructions
  OBVIOUS
<1>2. s = [i \in 1..n |-> s[i]] /\ \A i \in 1..n : s[i] \in Seq(Byte)
  BY <1>1, InstructionIsBytes
<1> HIDE DEF s, n
<1>3. s \in Seq(Seq(Byte))
  BY <1>1, <1>2, WritingsAreBytes
<1> QED BY <1>1, <1>3 DEF s

\* Lookups are written in bytes.
LEMMA LookupsAreBytes ==
    ASSUME NEW items \in Seq(Lookups)
    PROVE  [i \in DOMAIN items |-> LookupBytes(items[i])] \in Seq(Seq(Byte))
<1> DEFINE n == Len(items)
           s == [i \in 1..n |-> LookupBytes(items[i])]
<1>1. n \in Nat /\ DOMAIN items = 1..n /\ \A i \in 1..n : items[i] \in Lookups
  OBVIOUS
<1>2. s = [i \in 1..n |-> s[i]] /\ \A i \in 1..n : s[i] \in Seq(Byte)
  BY <1>1, LookupIsBytes
<1> HIDE DEF s, n
<1>3. s \in Seq(Seq(Byte))
  BY <1>1, <1>2, WritingsAreBytes
<1> QED BY <1>1, <1>3 DEF s

\* So are the headers and the payloads of V1.
LEMMA V1InstructionsAreBytes ==
    ASSUME NEW ixs \in Seq(Instructions), \A i \in DOMAIN ixs : Len(ixs[i].accounts) < MAX_ACCOUNTS
    PROVE  /\ [i \in DOMAIN ixs |-> V1HeaderBytes(ixs[i])] \in Seq(Seq(Byte))
           /\ [i \in DOMAIN ixs |-> V1PayloadBytes(ixs[i])] \in Seq(Seq(Byte))
<1> DEFINE n == Len(ixs)
           s == [i \in 1..n |-> V1HeaderBytes(ixs[i])]
           t == [i \in 1..n |-> V1PayloadBytes(ixs[i])]
<1>1. n \in Nat /\ DOMAIN ixs = 1..n /\ \A i \in 1..n : ixs[i] \in Instructions
  OBVIOUS
<1>2. \A i \in 1..n : V1HeaderBytes(ixs[i]) \in Seq(Byte) /\ V1PayloadBytes(ixs[i]) \in Seq(Byte)
  BY <1>1, V1InstructionIsBytes
<1>3. /\ s = [i \in 1..n |-> s[i]] /\ \A i \in 1..n : s[i] \in Seq(Byte)
      /\ t = [i \in 1..n |-> t[i]] /\ \A i \in 1..n : t[i] \in Seq(Byte)
  BY <1>2
<1> HIDE DEF s, t, n
<1>4. s \in Seq(Seq(Byte)) /\ t \in Seq(Seq(Byte))
  BY <1>1, <1>3, WritingsAreBytes
<1> QED BY <1>1, <1>4 DEF s, t

\* A loop reads the instructions of the older formats that were written.
LEMMA WrittenInstructionsAreRead ==
    ASSUME bytes \in Seq(Byte), NEW kind \in {"Legacy", "V0"}, NEW ixs \in Seq(Instructions),
           NEW h, NEW e, Written(h, Concat(InstructionBytes, ixs), e)
    PROVE  /\ Loop(kind, h, 0)[Len(ixs)].header_offset = e
           /\ \A i \in 1..Len(ixs) : InstructionOf(Loop(kind, h, 0)[i]) = ixs[i]
           /\ h + 3 * Len(ixs) <= e
<1> DEFINE turn == Loop(kind, h, 0)
           n == Len(ixs)
           s == [i \in DOMAIN ixs |-> InstructionBytes(ixs[i])]
<1>1. /\ n \in Nat /\ DOMAIN ixs = 1..n /\ \A i \in 1..n : ixs[i] \in Instructions
      /\ s = [i \in 1..n |-> InstructionBytes(ixs[i])]
  OBVIOUS
<1>2. s \in Seq(Seq(Byte)) /\ Written(h, FlattenSeq(s), e)
  BY InstructionsAreBytes DEF Concat
<1>3. Len(s) = n /\ \A i \in 1..n : s[i] = InstructionBytes(ixs[i])
  BY <1>1
<1>4. h \in Nat /\ h \in Places /\ e \in Nat
  BY WrittenIsRead
<1> HIDE DEF n, s
<1>5. PICK q : Tiled(s, q) /\ q[0] = h /\ q[Len(s)] = e
  BY <1>2, WrittenIsTiled
<1>6. kind \in Kinds /\ kind # "V1" /\ kind # "Lookup" /\ 0 \in Places
  BY DEF Kinds, Places
<1>7. turn[0].header_offset = h
  BY <1>4, <1>6, LoopBegins
<1>8. \A i \in 1..n : i - 1 \in Nat /\ turn[i] = LegacyInstructionAt(turn[i - 1].header_offset)
  <2> SUFFICES ASSUME NEW i \in 1..n
               PROVE  i - 1 \in Nat /\ turn[i] = LegacyInstructionAt(turn[i - 1].header_offset)
    OBVIOUS
  <2>1. /\ i - 1 \in Nat
        /\ turn[i] = ItemAt(kind, turn[i - 1].header_offset, turn[i - 1].payload_offset)
    BY <1>1, <1>4, <1>6, TurnFollows
  <2> HIDE DEF turn
  <2> QED BY <1>6, <2>1 DEF ItemAt
<1> HIDE DEF turn
<1>9. ASSUME NEW i \in 1..n, turn[i - 1].header_offset = q[i - 1]
      PROVE  /\ turn[i].header_offset = q[i] /\ InstructionOf(turn[i]) = ixs[i]
             /\ q[i - 1] \in Nat /\ q[i] \in Nat /\ q[i - 1] + 3 <= q[i]
  <2> DEFINE o == q[i - 1]
  <2>1. turn[i] = LegacyInstructionAt(o)
    BY <1>8, <1>9
  <2>2. Written(o, InstructionBytes(ixs[i]), q[i])
    BY <1>3, <1>5 DEF Tiled
  <2>3. ixs[i] \in Instructions
    BY <1>1
  <2> HIDE DEF o
  <2>4. /\ InstructionOf(LegacyInstructionAt(o)) = ixs[i]
        /\ LegacyInstructionAt(o).header_offset = q[i]
        /\ o \in Nat /\ q[i] \in Nat /\ o + 3 <= q[i]
    BY <2>2, <2>3, WrittenInstructionIsRead
  <2> QED BY <2>1, <2>4 DEF o
<1> DEFINE Read == {i \in Nat : i <= n => /\ turn[i].header_offset = q[i]
                                          /\ h + 3 * i <= q[i] /\ q[i] \in Nat}
<1>10. 0 \in Read
  BY <1>4, <1>5, <1>7
<1>11. ASSUME NEW i \in Read \cap Nat PROVE i + 1 \in Read
  <2> SUFFICES ASSUME i + 1 <= n
               PROVE  /\ turn[i + 1].header_offset = q[i + 1]
                      /\ h + 3 * (i + 1) <= q[i + 1] /\ q[i + 1] \in Nat
    OBVIOUS
  <2> DEFINE j == i + 1
  <2>1. j \in 1..n /\ j - 1 = i /\ i \in Nat
    BY <1>1
  <2>2. turn[i].header_offset = q[i] /\ h + 3 * i <= q[i]
    BY <1>1
  <2>3. 3 * j = 3 * i + 3 /\ 3 * i \in Nat
    BY <2>1
  <2> HIDE DEF j
  <2>4. /\ turn[j].header_offset = q[j] /\ q[i] \in Nat /\ q[j] \in Nat /\ q[i] + 3 <= q[j]
    BY <1>9, <2>1, <2>2
  <2>5. h + 3 * j <= q[j]
    BY <1>4, <2>2, <2>3, <2>4
  <2> QED BY <2>4, <2>5 DEF j
<1>12. Nat \subseteq Read
  <2> HIDE DEF Read
  <2> QED BY <1>10, <1>11, NaturalInduction
<1>13. turn[n].header_offset = e /\ h + 3 * n <= e
  BY <1>1, <1>3, <1>5, <1>12
<1>14. ASSUME NEW i \in 1..n PROVE InstructionOf(turn[i]) = ixs[i]
  <2> DEFINE j == i - 1
  <2>1. j \in Nat /\ j <= n
    BY <1>1
  <2>2. turn[j].header_offset = q[j]
    BY <1>12, <2>1
  <2> QED BY <1>9, <2>2
<1> QED BY <1>13, <1>14 DEF turn, n

\* A loop reads the lookups that were written, none of them of no index.
LEMMA WrittenLookupsAreRead ==
    ASSUME bytes \in Seq(Byte), NEW items \in Seq(Lookups),
           \A i \in DOMAIN items : items[i].writable_indexes \o items[i].readonly_indexes # <<>>,
           NEW h, NEW e, Written(h, Concat(LookupBytes, items), e)
    PROVE  /\ Loop("Lookup", h, 0)[Len(items)].header_offset = e
           /\ \A i \in 1..Len(items) : LookupOf(Loop("Lookup", h, 0)[i]) = items[i]
           /\ h + (PUBKEY_BYTES + 3) * Len(items) <= e
<1> DEFINE turn == Loop("Lookup", h, 0)
           n == Len(items)
           least == PUBKEY_BYTES + 3
           s == [i \in DOMAIN items |-> LookupBytes(items[i])]
<1>1. /\ n \in Nat /\ DOMAIN items = 1..n /\ \A i \in 1..n : items[i] \in Lookups
      /\ s = [i \in 1..n |-> LookupBytes(items[i])]
  OBVIOUS
<1>2. s \in Seq(Seq(Byte)) /\ Written(h, FlattenSeq(s), e)
  BY LookupsAreBytes DEF Concat
<1>3. Len(s) = n /\ \A i \in 1..n : s[i] = LookupBytes(items[i])
  BY <1>1
<1>4. h \in Nat /\ h \in Places /\ e \in Nat
  BY WrittenIsRead
<1> HIDE DEF n, s
<1>5. PICK q : Tiled(s, q) /\ q[0] = h /\ q[Len(s)] = e
  BY <1>2, WrittenIsTiled
<1>6. "Lookup" \in Kinds /\ 0 \in Places /\ least \in Nat /\ PUBKEY_BYTES \in Nat
  <2>1. "Lookup" \in Kinds /\ 0 \in Places
    BY DEF Kinds, Places
  <2>2. PUBKEY_BYTES \in Nat /\ least \in Nat
    BY FormatAssumption
  <2> QED BY <2>1, <2>2
<1>7. turn[0].header_offset = h
  BY <1>4, <1>6, LoopBegins
<1>8. \A i \in 1..n : i - 1 \in Nat /\ turn[i] = LookupAt(turn[i - 1].header_offset)
  <2> SUFFICES ASSUME NEW i \in 1..n
               PROVE  i - 1 \in Nat /\ turn[i] = LookupAt(turn[i - 1].header_offset)
    OBVIOUS
  <2>1. /\ i - 1 \in Nat
        /\ turn[i] = ItemAt("Lookup", turn[i - 1].header_offset, turn[i - 1].payload_offset)
    <3>1. n \in Nat /\ h \in Places /\ 0 \in Places /\ "Lookup" \in Kinds
      BY <1>1, <1>4, <1>6
    <3> QED BY <3>1, TurnFollows
  <2> HIDE DEF turn
  <2> QED BY <2>1 DEF ItemAt
<1> HIDE DEF turn
<1>9. ASSUME NEW i \in 1..n, turn[i - 1].header_offset = q[i - 1]
      PROVE  /\ turn[i].header_offset = q[i] /\ LookupOf(turn[i]) = items[i]
             /\ q[i - 1] \in Nat /\ q[i] \in Nat /\ q[i - 1] + least <= q[i]
  <2> DEFINE o == q[i - 1]
             w == items[i].writable_indexes
             r == items[i].readonly_indexes
  <2>1. turn[i] = LookupAt(o)
    BY <1>8, <1>9
  <2>2. Written(o, LookupBytes(items[i]), q[i])
    BY <1>3, <1>5 DEF Tiled
  <2>3. items[i] \in Lookups
    BY <1>1
  <2>4. w \in CompactSeq(Byte) /\ r \in CompactSeq(Byte) /\ w \o r # <<>>
    BY <1>1, <2>3 DEF Lookups
  <2> HIDE DEF o
  <2>5. /\ LookupOf(LookupAt(o)) = items[i]
        /\ LookupAt(o).header_offset = q[i]
        /\ o \in Nat /\ q[i] \in Nat
        /\ o + PUBKEY_BYTES + 2 + Len(w) + Len(r) <= q[i]
    BY <2>2, <2>3, WrittenLookupIsRead
  <2> HIDE DEF w, r
  <2>6. w \in Seq(Byte) /\ r \in Seq(Byte) /\ Len(w) \in Nat /\ Len(r) \in Nat
    BY <2>4, VectorIsBytes
  <2>7. Len(w) + Len(r) >= 1
    <3>1. CASE Len(w) = 0 /\ Len(r) = 0
      <4>1. w = <<>> /\ r = <<>>
        BY <2>6, <3>1, EmptySeq
      <4>2. w \o r = <<>>
        BY <4>1
      <4> QED BY <2>4, <4>2
    <3> QED BY <2>6, <3>1
  <2>8. o + least <= q[i]
    BY <1>6, <2>5, <2>6, <2>7
  <2> QED BY <2>1, <2>5, <2>8 DEF o
<1> HIDE DEF least
<1> DEFINE Read == {i \in Nat : i <= n => /\ turn[i].header_offset = q[i]
                                          /\ h + least * i <= q[i] /\ q[i] \in Nat}
<1>10. 0 \in Read
  <2>1. least * 0 = 0
    BY <1>6
  <2> QED BY <1>4, <1>5, <1>7, <2>1
<1>11. ASSUME NEW i \in Read \cap Nat PROVE i + 1 \in Read
  <2> SUFFICES ASSUME i + 1 <= n
               PROVE  /\ turn[i + 1].header_offset = q[i + 1]
                      /\ h + least * (i + 1) <= q[i + 1] /\ q[i + 1] \in Nat
    OBVIOUS
  <2> DEFINE j == i + 1
             size == least * i
  <2>1. j \in 1..n /\ j - 1 = i /\ i \in Nat
    BY <1>1
  <2>2. turn[i].header_offset = q[i] /\ h + size <= q[i]
    BY <1>1
  <2>3. least * j = size + least /\ size \in Nat
    BY <1>6, <2>1, ProductIsNumber
  <2> HIDE DEF j, size
  <2>4. /\ turn[j].header_offset = q[j] /\ q[i] \in Nat /\ q[j] \in Nat /\ q[i] + least <= q[j]
    BY <1>9, <2>1, <2>2
  <2>5. h + least * j <= q[j]
    <3> DEFINE more == least * j
    <3>1. more = size + least
      BY <2>3
    <3> HIDE DEF more
    <3>2. h + more <= q[j]
      BY <1>4, <1>6, <2>2, <2>3, <2>4, <3>1
    <3> QED BY <3>2 DEF more
  <2> QED BY <2>4, <2>5 DEF j
<1>12. Nat \subseteq Read
  <2> HIDE DEF Read
  <2> QED BY <1>10, <1>11, NaturalInduction
<1>13. turn[n].header_offset = e /\ h + least * n <= e
  BY <1>1, <1>3, <1>5, <1>12
<1>14. ASSUME NEW i \in 1..n PROVE LookupOf(turn[i]) = items[i]
  <2> DEFINE j == i - 1
  <2>1. j \in Nat /\ j <= n
    BY <1>1
  <2>2. turn[j].header_offset = q[j]
    BY <1>12, <2>1
  <2> QED BY <1>9, <2>2
<1> QED BY <1>13, <1>14 DEF turn, n, least

\* A loop reads the instructions of V1 that were written.
LEMMA WrittenV1InstructionsAreRead ==
    ASSUME bytes \in Seq(Byte), NEW ixs \in Seq(Instructions),
           \A i \in DOMAIN ixs : Len(ixs[i].accounts) < MAX_ACCOUNTS,
           NEW h, NEW e, Written(h, Concat(V1HeaderBytes, ixs), e),
           NEW p, NEW f, Written(p, Concat(V1PayloadBytes, ixs), f)
    PROVE  /\ Loop("V1", h, p)[Len(ixs)].payload_offset = f
           /\ \A i \in 1..Len(ixs) : InstructionOf(Loop("V1", h, p)[i]) = ixs[i]
           /\ e = h + 4 * Len(ixs)
<1> DEFINE turn == Loop("V1", h, p)
           n == Len(ixs)
           s == [i \in DOMAIN ixs |-> V1HeaderBytes(ixs[i])]
           t == [i \in DOMAIN ixs |-> V1PayloadBytes(ixs[i])]
<1>1. /\ n \in Nat /\ DOMAIN ixs = 1..n /\ \A i \in 1..n : ixs[i] \in Instructions
      /\ s = [i \in 1..n |-> V1HeaderBytes(ixs[i])]
      /\ t = [i \in 1..n |-> V1PayloadBytes(ixs[i])]
  OBVIOUS
<1>2. /\ s \in Seq(Seq(Byte)) /\ Written(h, FlattenSeq(s), e)
      /\ t \in Seq(Seq(Byte)) /\ Written(p, FlattenSeq(t), f)
  BY V1InstructionsAreBytes DEF Concat
<1>3. /\ Len(s) = n /\ \A i \in 1..n : s[i] = V1HeaderBytes(ixs[i])
      /\ Len(t) = n /\ \A i \in 1..n : t[i] = V1PayloadBytes(ixs[i])
  BY <1>1
<1>4. h \in Nat /\ h \in Places /\ e \in Nat /\ p \in Places
  BY WrittenIsRead
<1> HIDE DEF n, s, t
<1>5. PICK q : Tiled(s, q) /\ q[0] = h /\ q[Len(s)] = e
  BY <1>2, WrittenIsTiled
<1>6. PICK r : Tiled(t, r) /\ r[0] = p /\ r[Len(t)] = f
  BY <1>2, WrittenIsTiled
<1>7. turn[0].header_offset = h /\ turn[0].payload_offset = p /\ "V1" \in Kinds
  BY <1>4, LoopBegins DEF Kinds
<1>8. \A i \in 1..n : /\ i - 1 \in Nat
                      /\ turn[i] = V1InstructionAt(turn[i - 1].header_offset,
                                                   turn[i - 1].payload_offset)
  <2> SUFFICES ASSUME NEW i \in 1..n
               PROVE  /\ i - 1 \in Nat
                      /\ turn[i] = V1InstructionAt(turn[i - 1].header_offset,
                                                   turn[i - 1].payload_offset)
    OBVIOUS
  <2>1. /\ i - 1 \in Nat
        /\ turn[i] = ItemAt("V1", turn[i - 1].header_offset, turn[i - 1].payload_offset)
    <3>1. n \in Nat /\ "V1" \in Kinds
      BY <1>1, <1>7
    <3> QED BY <1>4, <3>1, TurnFollows
  <2> HIDE DEF turn
  <2> QED BY <2>1 DEF ItemAt
<1> HIDE DEF turn
<1>9. ASSUME NEW i \in 1..n, turn[i - 1].header_offset = q[i - 1],
             turn[i - 1].payload_offset = r[i - 1]
      PROVE  /\ turn[i].header_offset = q[i] /\ turn[i].payload_offset = r[i]
             /\ InstructionOf(turn[i]) = ixs[i]
             /\ q[i - 1] \in Nat /\ q[i] = q[i - 1] + 4
  <2> DEFINE o == q[i - 1]
             u == r[i - 1]
  <2>1. turn[i] = V1InstructionAt(o, u)
    BY <1>8, <1>9
  <2>2. Written(o, V1HeaderBytes(ixs[i]), q[i]) /\ Written(u, V1PayloadBytes(ixs[i]), r[i])
    BY <1>3, <1>5, <1>6 DEF Tiled
  <2>3. ixs[i] \in Instructions
    BY <1>1
  <2> HIDE DEF o, u
  <2>4. /\ InstructionOf(V1InstructionAt(o, u)) = ixs[i]
        /\ V1InstructionAt(o, u).header_offset = q[i]
        /\ V1InstructionAt(o, u).payload_offset = r[i]
        /\ o \in Nat /\ q[i] = o + 4
    BY <2>2, <2>3, WrittenV1InstructionIsRead
  <2> QED BY <2>1, <2>4 DEF o, u
<1> DEFINE Read == {i \in Nat : i <= n => /\ turn[i].header_offset = q[i]
                                          /\ turn[i].payload_offset = r[i]
                                          /\ q[i] = h + 4 * i}
<1>10. 0 \in Read
  BY <1>4, <1>5, <1>6, <1>7
<1>11. ASSUME NEW i \in Read \cap Nat PROVE i + 1 \in Read
  <2> SUFFICES ASSUME i + 1 <= n
               PROVE  /\ turn[i + 1].header_offset = q[i + 1]
                      /\ turn[i + 1].payload_offset = r[i + 1]
                      /\ q[i + 1] = h + 4 * (i + 1)
    OBVIOUS
  <2> DEFINE j == i + 1
  <2>1. j \in 1..n /\ j - 1 = i /\ i \in Nat /\ 4 * j = 4 * i + 4
    BY <1>1
  <2>2. turn[i].header_offset = q[i] /\ turn[i].payload_offset = r[i] /\ q[i] = h + 4 * i
    BY <1>1
  <2> HIDE DEF j
  <2>3. /\ turn[j].header_offset = q[j] /\ turn[j].payload_offset = r[j]
        /\ q[i] \in Nat /\ q[j] = q[i] + 4
    BY <1>9, <2>1, <2>2
  <2>4. q[j] = h + 4 * j
    BY <1>4, <2>1, <2>2, <2>3
  <2> QED BY <2>3, <2>4 DEF j
<1>12. Nat \subseteq Read
  <2> HIDE DEF Read
  <2> QED BY <1>10, <1>11, NaturalInduction
<1>13. turn[n].payload_offset = f /\ e = h + 4 * n
  BY <1>1, <1>3, <1>5, <1>6, <1>12
<1>14. ASSUME NEW i \in 1..n PROVE InstructionOf(turn[i]) = ixs[i]
  <2> DEFINE j == i - 1
  <2>1. j \in Nat /\ j <= n
    BY <1>1
  <2>2. turn[j].header_offset = q[j] /\ turn[j].payload_offset = r[j]
    BY <1>12, <2>1
  <2> QED BY <1>9, <2>2
<1> QED BY <1>13, <1>14 DEF turn, n

\* What is written together is written up to some place and on from there.
LEMMA WrittenInTwo ==
    ASSUME bytes \in Seq(Byte), NEW s \in Seq(Nat), NEW t \in Seq(Nat), NEW o, NEW e,
           Written(o, s \o t, e)
    PROVE  \E m : Written(o, s, m) /\ Written(m, t, e)
<1> DEFINE m == o + Len(s)
<1>1. Written(o, s, m) /\ Written(m, t, e)
  BY WrittenApart
<1> HIDE DEF m
<1> QED BY <1>1

\* The input is ten parts.
InputIs(b1, b2, b3, b4, b5, b6, b7, b8, b9, b10) ==
    /\ b1 \in Seq(Nat) /\ b2 \in Seq(Nat) /\ b3 \in Seq(Nat) /\ b4 \in Seq(Nat)
    /\ b5 \in Seq(Nat) /\ b6 \in Seq(Nat) /\ b7 \in Seq(Nat) /\ b8 \in Seq(Nat)
    /\ b9 \in Seq(Nat) /\ b10 \in Seq(Nat)
    /\ bytes = b1 \o b2 \o b3 \o b4 \o b5 \o b6 \o b7 \o b8 \o b9 \o b10

\* An input of ten parts has nine places between them.
LEMMA WrittenInTen ==
    ASSUME bytes \in Seq(Byte),
           NEW b1, NEW b2, NEW b3, NEW b4, NEW b5, NEW b6, NEW b7, NEW b8, NEW b9, NEW b10,
           InputIs(b1, b2, b3, b4, b5, b6, b7, b8, b9, b10)
    PROVE  \E m1, m2, m3, m4, m5, m6, m7, m8, m9 :
              /\ Written(0, b1, m1) /\ Written(m1, b2, m2) /\ Written(m2, b3, m3)
              /\ Written(m3, b4, m4) /\ Written(m4, b5, m5) /\ Written(m5, b6, m6)
              /\ Written(m6, b7, m7) /\ Written(m7, b8, m8) /\ Written(m8, b9, m9)
              /\ Written(m9, b10, Len(bytes))
<1> DEFINE c2 == b1 \o b2
           c3 == c2 \o b3
           c4 == c3 \o b4
           c5 == c4 \o b5
           c6 == c5 \o b6
           c7 == c6 \o b7
           c8 == c7 \o b8
           c9 == c8 \o b9
<1>1. /\ bytes = c9 \o b10
      /\ b1 \in Seq(Nat) /\ b2 \in Seq(Nat) /\ b3 \in Seq(Nat) /\ b4 \in Seq(Nat)
      /\ b5 \in Seq(Nat) /\ b6 \in Seq(Nat) /\ b7 \in Seq(Nat) /\ b8 \in Seq(Nat)
      /\ b9 \in Seq(Nat) /\ b10 \in Seq(Nat)
  BY DEF InputIs
<1>2. c9 = c8 \o b9 /\ c8 = c7 \o b8 /\ c7 = c6 \o b7 /\ c6 = c5 \o b6
  OBVIOUS
<1>3. c5 = c4 \o b5 /\ c4 = c3 \o b4 /\ c3 = c2 \o b3 /\ c2 = b1 \o b2
  OBVIOUS
<1> HIDE DEF c2, c3, c4, c5, c6, c7, c8, c9
<1>4. c2 \in Seq(Nat)
  BY <1>1, <1>3, BytesAreNumbers
<1>5. c3 \in Seq(Nat)
  BY <1>1, <1>3, <1>4, BytesAreNumbers
<1>6. c4 \in Seq(Nat)
  BY <1>1, <1>3, <1>5, BytesAreNumbers
<1>7. c5 \in Seq(Nat)
  BY <1>1, <1>3, <1>6, BytesAreNumbers
<1>8. c6 \in Seq(Nat)
  BY <1>1, <1>2, <1>7, BytesAreNumbers
<1>9. c7 \in Seq(Nat)
  BY <1>1, <1>2, <1>8, BytesAreNumbers
<1>10. c8 \in Seq(Nat)
  BY <1>1, <1>2, <1>9, BytesAreNumbers
<1>11. c9 \in Seq(Nat)
  BY <1>1, <1>2, <1>10, BytesAreNumbers
<1>12. Written(0, c9 \o b10, Len(bytes))
  BY <1>1, WrittenWhole
<1>13. PICK m9 : Written(0, c8 \o b9, m9) /\ Written(m9, b10, Len(bytes))
  BY <1>1, <1>2, <1>11, <1>12, WrittenInTwo
<1>14. PICK m8 : Written(0, c7 \o b8, m8) /\ Written(m8, b9, m9)
  BY <1>1, <1>2, <1>10, <1>13, WrittenInTwo
<1>15. PICK m7 : Written(0, c6 \o b7, m7) /\ Written(m7, b8, m8)
  BY <1>1, <1>2, <1>9, <1>14, WrittenInTwo
<1>16. PICK m6 : Written(0, c5 \o b6, m6) /\ Written(m6, b7, m7)
  BY <1>1, <1>2, <1>8, <1>15, WrittenInTwo
<1>17. PICK m5 : Written(0, c4 \o b5, m5) /\ Written(m5, b6, m6)
  BY <1>1, <1>3, <1>7, <1>16, WrittenInTwo
<1>18. PICK m4 : Written(0, c3 \o b4, m4) /\ Written(m4, b5, m5)
  BY <1>1, <1>3, <1>6, <1>17, WrittenInTwo
<1>19. PICK m3 : Written(0, c2 \o b3, m3) /\ Written(m3, b4, m4)
  BY <1>1, <1>3, <1>5, <1>18, WrittenInTwo
<1>20. PICK m2 : Written(0, b1 \o b2, m2) /\ Written(m2, b3, m3)
  BY <1>1, <1>3, <1>4, <1>19, WrittenInTwo
<1>21. PICK m1 : Written(0, b1, m1) /\ Written(m1, b2, m2)
  BY <1>1, <1>20, WrittenInTwo
<1> QED BY <1>13, <1>14, <1>15, <1>16, <1>17, <1>18, <1>19, <1>20, <1>21

\* Two bytes that are written can be read.
LEMMA WrittenPairIsRead ==
    ASSUME bytes \in Seq(Byte), NEW o, NEW a, NEW b, NEW e, Written(o, <<a, b>>, e)
    PROVE  /\ ByteAt(o) = a /\ ByteAt(ReadBytesAt(o, 1)) = b /\ ReadBytesAt(o, 2) = e
           /\ a \in Byte /\ b \in Byte
<1> DEFINE s == <<a, b>>
<1>1. Len(s) = 2 /\ s[1] = a /\ s[2] = b /\ DOMAIN s = 1..2
  OBVIOUS
<1>2. /\ s \in Seq(Byte) /\ o \in Nat /\ e = o + 2 /\ e <= Len(bytes)
      /\ \A i \in 1..2 : bytes[o + i] = s[i]
  BY <1>1 DEF Written
<1> HIDE DEF s
<1>3. bytes[o + 1] = a /\ bytes[o + 2] = b /\ s[1] \in Byte /\ s[2] \in Byte
  BY <1>1, <1>2
<1>4. /\ Len(bytes) \in Nat /\ o # Bad /\ o + 1 # Bad /\ o + 2 # Bad
      /\ ReadBytesAt(o, 1) = o + 1 /\ ReadBytesAt(o + 1, 1) = o + 2 /\ ReadBytesAt(o, 2) = o + 2
  BY <1>2 DEF ReadBytesAt, Bad
<1>5. ByteAt(o) = bytes[o + 1] /\ ByteAt(o + 1) = bytes[o + 2]
  BY <1>2, <1>4 DEF ByteAt
<1> QED BY <1>1, <1>2, <1>3, <1>4, <1>5

\* Three bytes that are written can be read.
LEMMA WrittenHeaderIsRead ==
    ASSUME bytes \in Seq(Byte), NEW o, NEW a, NEW b, NEW c, NEW e, Written(o, <<a, b, c>>, e)
    PROVE  /\ ByteAt(o) = a /\ ByteAt(ReadBytesAt(o, 1)) = b /\ ByteAt(ReadBytesAt(o, 2)) = c
           /\ ReadBytesAt(o, 3) = e /\ e = o + 3 /\ o \in Nat /\ e <= Len(bytes)
           /\ ReadBytesAt(o, 1) = o + 1 /\ ReadBytesAt(o, 2) = o + 2
<1> DEFINE s == <<a, b, c>>
<1>1. Len(s) = 3 /\ s[1] = a /\ s[2] = b /\ s[3] = c
  OBVIOUS
<1>2. /\ o \in Nat /\ e = o + 3 /\ e <= Len(bytes)
      /\ \A i \in 1..3 : bytes[o + i] = s[i]
  BY <1>1 DEF Written
<1> HIDE DEF s
<1>3. bytes[o + 1] = a /\ bytes[o + 2] = b /\ bytes[o + 3] = c
  BY <1>1, <1>2
<1>4. /\ Len(bytes) \in Nat /\ o # Bad /\ o + 1 # Bad /\ o + 2 # Bad /\ o + 3 # Bad
      /\ ReadBytesAt(o, 1) = o + 1 /\ ReadBytesAt(o + 1, 1) = o + 2
      /\ ReadBytesAt(o + 2, 1) = o + 3
      /\ ReadBytesAt(o, 2) = o + 2 /\ ReadBytesAt(o, 3) = o + 3
  BY <1>2 DEF ReadBytesAt, Bad
<1>5. ByteAt(o) = bytes[o + 1] /\ ByteAt(o + 1) = bytes[o + 2] /\ ByteAt(o + 2) = bytes[o + 3]
  BY <1>2, <1>4 DEF ByteAt
<1> QED BY <1>2, <1>3, <1>4, <1>5

\* The mask of a configuration tells which values it has.
LEMMA MaskTellsValues ==
    ASSUME NEW config
    PROVE  /\ ConfigMask(config) \in 0..31 /\ ~ConfigMaskMalformed(ConfigMask(config))
           /\ HasPriorityFee(ConfigMask(config)) <=> config.priority_fee # NoValue
           /\ HasBit(ConfigMask(config), 4) <=> config.compute_unit_limit # NoValue
           /\ HasBit(ConfigMask(config), 8) <=> config.loaded_accounts_data_size_limit # NoValue
           /\ HasBit(ConfigMask(config), 16) <=> config.requested_heap_size # NoValue
<1> DEFINE a == IF config.priority_fee = NoValue THEN 0 ELSE 1
           b == IF config.compute_unit_limit = NoValue THEN 0 ELSE 1
           c == IF config.loaded_accounts_data_size_limit = NoValue THEN 0 ELSE 1
           d == IF config.requested_heap_size = NoValue THEN 0 ELSE 1
           mask == ConfigMask(config)
<1>1. /\ a \in 0..1 /\ (a = 1 <=> config.priority_fee # NoValue)
      /\ b \in 0..1 /\ (b = 1 <=> config.compute_unit_limit # NoValue)
      /\ c \in 0..1 /\ (c = 1 <=> config.loaded_accounts_data_size_limit # NoValue)
      /\ d \in 0..1 /\ (d = 1 <=> config.requested_heap_size # NoValue)
  OBVIOUS
<1>2. mask = 3 * a + 4 * b + 8 * c + 16 * d
  BY DEF ConfigMask
<1> HIDE DEF a, b, c, d, mask
<1>3. /\ mask \in 0..31 /\ mask % 4 = 3 * a
      /\ (mask \div 4) % 2 = b /\ (mask \div 8) % 2 = c /\ (mask \div 16) % 2 = d
  BY <1>1, <1>2
<1> QED BY <1>1, <1>3 DEF mask, ConfigMaskMalformed, HasPriorityFee, HasBit

\* A value that is written, or none, can be read.
LEMMA WrittenValueIsRead ==
    ASSUME bytes \in Seq(Byte), NEW width \in Nat, NEW value \in Optional(width),
           NEW o, NEW e, Written(o, ValueBytes(value, width), e),
           NEW present, present <=> value # NoValue
    PROVE  /\ ReadBytesAt(o, SizeIf(present, width)) = e
           /\ present => LittleEndianAt(o, width) = value
<1>1. CASE value = NoValue
  <2>1. Written(o, <<>>, e) /\ SizeIf(present, width) = 0
    BY <1>1 DEF ValueBytes, SizeIf
  <2>2. Len(<<>>) = 0
    OBVIOUS
  <2>3. ReadBytesAt(o, 0) = e
    BY <2>1, <2>2, WrittenIsRead
  <2> QED BY <1>1, <2>1, <2>3
<1>2. CASE value # NoValue
  <2>1. value \in Nat /\ FitsIn(value, width)
    BY <1>2 DEF Optional
  <2>2. Written(o, LittleEndianBytes(value, width), e) /\ SizeIf(present, width) = width
    BY <1>2 DEF ValueBytes, SizeIf
  <2> QED BY <2>1, <2>2, WrittenNumberIsRead
<1> QED BY <1>1, <1>2

\* A value is written in bytes.
LEMMA ValueIsBytes ==
    ASSUME NEW width \in Nat, NEW value \in Optional(width)
    PROVE  ValueBytes(value, width) \in Seq(Byte)
<1>1. CASE value = NoValue
  BY <1>1 DEF ValueBytes
<1>2. CASE value # NoValue
  BY <1>2, LittleEndianIsBytes DEF ValueBytes, Optional
<1> QED BY <1>1, <1>2

WireConfigs ==
    [priority_fee : Optional(U64_BYTES), compute_unit_limit : Optional(U32_BYTES),
     loaded_accounts_data_size_limit : Optional(U32_BYTES),
     requested_heap_size : Optional(U32_BYTES)]

\* A configuration that is written is skipped value by value, and its heap
\* size is read behind the first three.
LEMMA WrittenConfigIsRead ==
    ASSUME bytes \in Seq(Byte), NEW config \in WireConfigs, NEW mask, mask = ConfigMask(config),
           NEW o, NEW e, Written(o, ConfigBytes(config), e)
    PROVE  /\ ConfigOffset(o, mask, 4) = e
           /\ HasBit(mask, 16) => LittleEndianAt(ConfigOffset(o, mask, 3), U32_BYTES)
                                     = config.requested_heap_size
<1> DEFINE w == ValueBytes(config.priority_fee, U64_BYTES)
           x == ValueBytes(config.compute_unit_limit, U32_BYTES)
           y == ValueBytes(config.loaded_accounts_data_size_limit, U32_BYTES)
           z == ValueBytes(config.requested_heap_size, U32_BYTES)
<1>1. /\ config.priority_fee \in Optional(U64_BYTES)
      /\ config.compute_unit_limit \in Optional(U32_BYTES)
      /\ config.loaded_accounts_data_size_limit \in Optional(U32_BYTES)
      /\ config.requested_heap_size \in Optional(U32_BYTES)
  BY DEF WireConfigs
<1>2. U32_BYTES \in Nat /\ U64_BYTES \in Nat
  BY FormatAssumption
<1>3. w \in Seq(Byte) /\ x \in Seq(Byte) /\ y \in Seq(Byte) /\ z \in Seq(Byte)
  BY <1>1, <1>2, ValueIsBytes
<1>4. ConfigBytes(config) = w \o x \o y \o z
  BY DEF ConfigBytes, ValueBytes
<1> HIDE DEF w, x, y, z
<1>5. /\ w \in Seq(Nat) /\ x \in Seq(Nat) /\ y \in Seq(Nat) /\ z \in Seq(Nat)
      /\ w \o x \in Seq(Nat) /\ w \o x \o y \in Seq(Nat)
  <2>1. w \in Seq(Nat) /\ x \in Seq(Nat) /\ y \in Seq(Nat) /\ z \in Seq(Nat)
    BY <1>3, BytesAreNumbers
  <2>2. w \o x \in Seq(Nat)
    BY <2>1, BytesAreNumbers
  <2> QED BY <2>1, <2>2, BytesAreNumbers
<1>6. PICK m3 : Written(o, w \o x \o y, m3) /\ Written(m3, z, e)
  BY <1>4, <1>5, WrittenInTwo
<1>7. PICK m2 : Written(o, w \o x, m2) /\ Written(m2, y, m3)
  BY <1>5, <1>6, WrittenInTwo
<1>8. PICK m1 : Written(o, w, m1) /\ Written(m1, x, m2)
  BY <1>5, <1>7, WrittenInTwo
<1>9. ReadBytesAt(o, SizeIf(HasPriorityFee(mask), U64_BYTES)) = m1
  <2>1. HasPriorityFee(mask) <=> config.priority_fee # NoValue
    BY MaskTellsValues
  <2> QED BY <1>1, <1>2, <1>8, <2>1, WrittenValueIsRead DEF w
<1>10. ReadBytesAt(m1, SizeIf(HasBit(mask, 4), U32_BYTES)) = m2
  <2>1. HasBit(mask, 4) <=> config.compute_unit_limit # NoValue
    BY MaskTellsValues
  <2> QED BY <1>1, <1>2, <1>8, <2>1, WrittenValueIsRead DEF x
<1>11. ReadBytesAt(m2, SizeIf(HasBit(mask, 8), U32_BYTES)) = m3
  <2>1. HasBit(mask, 8) <=> config.loaded_accounts_data_size_limit # NoValue
    BY MaskTellsValues
  <2> QED BY <1>1, <1>2, <1>7, <2>1, WrittenValueIsRead DEF y
<1>12. /\ ReadBytesAt(m3, SizeIf(HasBit(mask, 16), U32_BYTES)) = e
       /\ HasBit(mask, 16) => LittleEndianAt(m3, U32_BYTES) = config.requested_heap_size
  <2>1. HasBit(mask, 16) <=> config.requested_heap_size # NoValue
    BY MaskTellsValues
  <2> QED BY <1>1, <1>2, <1>6, <2>1, WrittenValueIsRead DEF z
<1>13. ConfigOffset(o, mask, 3) = m3 /\ ConfigOffset(o, mask, 4) = e
  BY <1>9, <1>10, <1>11, <1>12 DEF ConfigOffset
<1> QED BY <1>12, <1>13

\* A configuration is written in bytes.
LEMMA ConfigIsBytes ==
    ASSUME NEW config \in WireConfigs
    PROVE  ConfigBytes(config) \in Seq(Byte)
<1> DEFINE w == ValueBytes(config.priority_fee, U64_BYTES)
           x == ValueBytes(config.compute_unit_limit, U32_BYTES)
           y == ValueBytes(config.loaded_accounts_data_size_limit, U32_BYTES)
           z == ValueBytes(config.requested_heap_size, U32_BYTES)
<1>1. /\ config.priority_fee \in Optional(U64_BYTES)
      /\ config.compute_unit_limit \in Optional(U32_BYTES)
      /\ config.loaded_accounts_data_size_limit \in Optional(U32_BYTES)
      /\ config.requested_heap_size \in Optional(U32_BYTES)
  BY DEF WireConfigs
<1>2. w \in Seq(Byte) /\ x \in Seq(Byte) /\ y \in Seq(Byte) /\ z \in Seq(Byte)
  BY <1>1, FormatAssumption, ValueIsBytes
<1>3. ConfigBytes(config) = w \o x \o y \o z
  BY DEF ConfigBytes, ValueBytes
<1> HIDE DEF w, x, y, z
<1> QED BY <1>2, <1>3

\* Arrays are written in bytes.
LEMMA ArraysAreBytes ==
    ASSUME NEW width \in Nat, NEW s \in Seq(Array(width))
    PROVE  FlattenSeq(s) \in Seq(Byte)
<1> DEFINE n == Len(s)
<1>1. n \in Nat /\ s = [i \in 1..n |-> s[i]] /\ \A i \in 1..n : s[i] \in Array(width)
  OBVIOUS
<1>2. \A i \in 1..n : s[i] \in Seq(Byte)
  BY <1>1, ArrayIsBytes
<1> HIDE DEF n
<1>3. s \in Seq(Seq(Byte))
  BY <1>1, <1>2, WritingsAreBytes
<1> QED BY <1>3, FlattenIsBytes

\* The parts of a transaction on the wire.
WireParts(tx) ==
    /\ tx.message_version \in WireVersions
    /\ tx.signatures \in Seq(Array(SIGNATURE_BYTES))
    /\ tx.num_required_signatures \in Byte
    /\ tx.num_readonly_signed_static_accounts \in Byte
    /\ tx.num_readonly_unsigned_static_accounts \in Byte
    /\ tx.static_account_keys \in Seq(Array(PUBKEY_BYTES))
    /\ tx.recent_blockhash \in Array(BLOCKHASH_BYTES)
    /\ tx.instructions \in Seq(Instructions) /\ Len(tx.instructions) < HIGH * HIGH
    /\ tx.lookups \in Seq(Lookups) /\ tx.config \in WireConfigs
    /\ tx.message_version # "V0" => tx.lookups = <<>>
    /\ tx.message_version # "V1" => tx.config = NoConfig

\* A transaction on the wire has them.
LEMMA WireTransactionHasParts ==
    ASSUME NEW tx \in WireTransactions
    PROVE  WireParts(tx)
<1> DEFINE C == CompactSeq(Instructions)
           L == Seq(Lookups)
<1>1. /\ tx.instructions \in C /\ tx.lookups \in L /\ tx.config \in WireConfigs
      /\ tx.message_version # "V0" => tx.lookups = <<>>
      /\ tx.message_version # "V1" => tx.config = NoConfig
  BY DEF WireTransactions, Instructions, Lookups, WireConfigs
<1>2. tx.instructions \in Seq(Instructions) /\ Len(tx.instructions) < HIGH * HIGH
  BY <1>1 DEF CompactSeq
<1>3. /\ tx.message_version \in WireVersions
      /\ tx.signatures \in Seq(Array(SIGNATURE_BYTES))
      /\ tx.num_required_signatures \in Byte
      /\ tx.num_readonly_signed_static_accounts \in Byte
      /\ tx.num_readonly_unsigned_static_accounts \in Byte
      /\ tx.static_account_keys \in Seq(Array(PUBKEY_BYTES))
      /\ tx.recent_blockhash \in Array(BLOCKHASH_BYTES)
  BY DEF WireTransactions
<1> QED BY <1>1, <1>2, <1>3 DEF WireParts

-----------------------------------------------------------------------------
(* A sane transaction is accepted as it was written.                       *)

\* What try_new finds is what was written.
FoundIn(v, tx) ==
    /\ v.end = Len(bytes) /\ ~v.malformed
    /\ v.message_version = tx.message_version
    /\ v.num_signatures = Len(tx.signatures)
    /\ v.num_required_signatures = tx.num_required_signatures
    /\ v.num_readonly_signed_static_accounts = tx.num_readonly_signed_static_accounts
    /\ v.num_readonly_unsigned_static_accounts = tx.num_readonly_unsigned_static_accounts
    /\ v.num_static_account_keys = Len(tx.static_account_keys)
    /\ v.num_instructions = Len(tx.instructions)
    /\ \A i \in 1..Len(tx.instructions) :
          InstructionOf(LoopOverInstructions(v)[i]) = tx.instructions[i]
    /\ v.num_address_table_lookups = Len(tx.lookups)
    /\ \A i \in 1..Len(tx.lookups) : LookupOf(LoopOverLookups(v)[i]) = tx.lookups[i]
    /\ HasBit(v.transaction_config_mask, 16) =>
          /\ tx.config.requested_heap_size # NoValue
          /\ LittleEndianAt(ConfigOffset(v.transaction_config_values_offset,
                                         v.transaction_config_mask, 3), U32_BYTES)
                = tx.config.requested_heap_size

\* The signers of a sane transaction are few enough for a byte, and there is
\* an account.
LEMMA SaneCounts ==
    ASSUME NEW tx, WireParts(tx), Sane(tx)
    PROVE  /\ tx.num_required_signatures \in 1..MAX_SIGNATURES
           /\ tx.num_required_signatures < HIGH
           /\ Len(tx.signatures) = tx.num_required_signatures
           /\ Len(tx.static_account_keys) \in Nat /\ Len(tx.static_account_keys) >= 1
           /\ tx.num_required_signatures <= Len(tx.static_account_keys)
           /\ \A i \in DOMAIN tx.instructions : Len(tx.instructions[i].accounts) < MAX_ACCOUNTS
           /\ \A i \in DOMAIN tx.lookups :
                 tx.lookups[i].writable_indexes \o tx.lookups[i].readonly_indexes # <<>>
<1>1. /\ tx.num_required_signatures \in 1..MAX_SIGNATURES
      /\ Len(tx.signatures) = tx.num_required_signatures
      /\ tx.num_required_signatures + tx.num_readonly_unsigned_static_accounts
            <= Len(tx.static_account_keys)
  BY DEF Sane, SaneSigners
<1>2. tx.num_readonly_unsigned_static_accounts \in Nat /\ Len(tx.static_account_keys) \in Nat
  <2>1. tx.num_readonly_unsigned_static_accounts \in Byte
        /\ tx.static_account_keys \in Seq(Array(PUBKEY_BYTES))
    BY DEF WireParts
  <2> DEFINE S == Array(PUBKEY_BYTES)
  <2>2. tx.static_account_keys \in Seq(S)
    BY <2>1
  <2> HIDE DEF S
  <2> QED BY <2>1, <2>2 DEF Byte
<1>3. MAX_SIGNATURES \in 1..(HIGH - 1) /\ HIGH \in Nat
  BY WireAssumption
<1>4. \A i \in DOMAIN tx.instructions : Len(tx.instructions[i].accounts) < MAX_ACCOUNTS
  BY DEF Sane, SaneInstructions
<1>5. \A i \in DOMAIN tx.lookups :
         tx.lookups[i].writable_indexes \o tx.lookups[i].readonly_indexes # <<>>
  BY DEF Sane, SaneAccounts
<1> QED BY <1>1, <1>2, <1>3, <1>4, <1>5

\* The header of a message is written in three bytes.
LEMMA HeaderIsBytes ==
    ASSUME NEW tx, WireParts(tx)
    PROVE  HeaderBytes(tx) \in Seq(Byte)
<1> DEFINE a == tx.num_required_signatures
           b == tx.num_readonly_signed_static_accounts
           c == tx.num_readonly_unsigned_static_accounts
<1>1. a \in Byte /\ b \in Byte /\ c \in Byte /\ HeaderBytes(tx) = <<a, b, c>>
  BY DEF WireParts, HeaderBytes
<1> HIDE DEF a, b, c
<1> QED BY <1>1

\* try_new finds a sane V1 transaction as it was written.
LEMMA MessageFirstIsFound ==
    ASSUME bytes \in Seq(Byte), NEW tx, WireParts(tx), Sane(tx), tx.message_version = "V1",
           bytes = MessageFirstBytes(tx),
           NEW v, NEW m, NEW counts, MessageFirstLayout(v, m, counts),
           v.num_address_table_lookups = 0
    PROVE  FoundIn(v, tx) /\ bytes # <<>> /\ bytes[1] = V1_PREFIX
<1> DEFINE ixs == tx.instructions
           n == Len(tx.instructions)
           k == Len(tx.static_account_keys)
           s == Len(tx.signatures)
           mask == ConfigMask(tx.config)
           b1 == <<V1_PREFIX>>
           b2 == HeaderBytes(tx)
           b3 == LittleEndianBytes(mask, U32_BYTES)
           b4 == tx.recent_blockhash
           b5 == <<n, k>>
           b6 == FlattenSeq(tx.static_account_keys)
           b7 == ConfigBytes(tx.config)
           b8 == Concat(V1HeaderBytes, ixs)
           b9 == Concat(V1PayloadBytes, ixs)
           b10 == FlattenSeq(tx.signatures)
<1>1. bytes = b1 \o b2 \o b3 \o b4 \o b5 \o b6 \o b7 \o b8 \o b9 \o b10
  BY DEF MessageFirstBytes
<1>2. /\ tx.signatures \in Seq(Array(SIGNATURE_BYTES))
      /\ tx.static_account_keys \in Seq(Array(PUBKEY_BYTES))
      /\ tx.recent_blockhash \in Array(BLOCKHASH_BYTES)
      /\ ixs \in Seq(Instructions) /\ tx.config \in WireConfigs /\ tx.lookups = <<>>
  BY DEF WireParts
<1>3. /\ tx.num_required_signatures \in Nat /\ s = tx.num_required_signatures
      /\ \A i \in DOMAIN ixs : Len(ixs[i].accounts) < MAX_ACCOUNTS
  BY SaneCounts, HighIsNumber
<1>4. n \in Nat /\ k \in Nat
  <2>1. k \in Nat
    BY SaneCounts
  <2>2. n \in Nat
    BY <1>2
  <2> QED BY <2>1, <2>2
<1>5. /\ PUBKEY_BYTES \in Nat /\ BLOCKHASH_BYTES \in Nat /\ U32_BYTES \in Nat
      /\ SIGNATURE_BYTES \in Nat
  BY FormatAssumption, WireAssumption
<1>6. mask \in 0..31 /\ mask \in Nat /\ ~ConfigMaskMalformed(mask)
      /\ (HasBit(mask, 16) => tx.config.requested_heap_size # NoValue)
  <2>1. ConfigMask(tx.config) \in 0..31
    BY MaskTellsValues
  <2> QED BY <2>1, MaskTellsValues
<1> HIDE DEF ixs, n, k, s, mask
<1>7. b1 \in Seq(Nat) /\ b5 \in Seq(Nat)
  <2>1. V1_PREFIX \in Nat
    BY HighIsNumber DEF V1_PREFIX
  <2> QED BY <1>4, <2>1
<1>8. b2 \in Seq(Byte)
  BY HeaderIsBytes
<1>9. b3 \in Seq(Byte) /\ b4 \in Seq(Byte) /\ Len(b4) = BLOCKHASH_BYTES
  BY <1>2, <1>5, <1>6, LittleEndianIsBytes, ArrayIsBytes
<1>10. b6 \in Seq(Byte) /\ b10 \in Seq(Byte) /\ b7 \in Seq(Byte)
  BY <1>2, <1>5, ArraysAreBytes, ConfigIsBytes
<1>11. b8 \in Seq(Byte) /\ b9 \in Seq(Byte)
  <2> DEFINE h == [i \in DOMAIN ixs |-> V1HeaderBytes(ixs[i])]
             p == [i \in DOMAIN ixs |-> V1PayloadBytes(ixs[i])]
  <2>1. h \in Seq(Seq(Byte)) /\ p \in Seq(Seq(Byte))
    BY <1>2, <1>3, V1InstructionsAreBytes
  <2>2. b8 = FlattenSeq(h) /\ b9 = FlattenSeq(p)
    BY DEF Concat
  <2> HIDE DEF h, p, b8, b9
  <2> QED BY <2>1, <2>2, FlattenIsBytes
<1> HIDE DEF b1, b2, b3, b4, b5, b6, b7, b8, b9, b10
<1>12. /\ b2 \in Seq(Nat) /\ b3 \in Seq(Nat) /\ b4 \in Seq(Nat) /\ b6 \in Seq(Nat)
       /\ b7 \in Seq(Nat) /\ b8 \in Seq(Nat) /\ b9 \in Seq(Nat) /\ b10 \in Seq(Nat)
  BY <1>8, <1>9, <1>10, <1>11, BytesAreNumbers
<1>13. PICK m1, m2, m3, m4, m5, m6, m7, m8, m9 :
          /\ Written(0, b1, m1) /\ Written(m1, b2, m2) /\ Written(m2, b3, m3)
          /\ Written(m3, b4, m4) /\ Written(m4, b5, m5) /\ Written(m5, b6, m6)
          /\ Written(m6, b7, m7) /\ Written(m7, b8, m8) /\ Written(m8, b9, m9)
          /\ Written(m9, b10, Len(bytes))
  <2>1. InputIs(b1, b2, b3, b4, b5, b6, b7, b8, b9, b10)
    BY <1>1, <1>7, <1>12 DEF InputIs
  <2> QED BY <2>1, WrittenInTen
<1>14. m1 = 1 /\ ByteAt(0) = V1_PREFIX /\ bytes # <<>> /\ bytes[1] = V1_PREFIX
  <2> DEFINE zero == 0
  <2>1. Written(zero, <<V1_PREFIX>>, m1) /\ zero = 0
    BY <1>13 DEF b1
  <2> HIDE DEF zero
  <2>2. /\ ByteAt(zero) = V1_PREFIX /\ ReadBytesAt(zero, 1) = m1 /\ m1 = zero + 1
        /\ m1 # Bad
    BY <2>1, WrittenByte
  <2>3. m1 <= Len(bytes)
    BY <2>1 DEF Written
  <2>4. m1 = 1 /\ ByteAt(0) = V1_PREFIX /\ ReadBytesAt(0, 1) # Bad
    BY <2>1, <2>2
  <2>5. bytes # <<>>
    BY <2>3, <2>4
  <2> QED BY <2>4, <2>5 DEF ByteAt
<1>15. /\ ByteAt(1) = tx.num_required_signatures
       /\ ByteAt(2) = tx.num_readonly_signed_static_accounts
       /\ ByteAt(3) = tx.num_readonly_unsigned_static_accounts
       /\ m2 = 4 /\ 4 <= Len(bytes)
  <2> DEFINE x == tx.num_required_signatures
             y == tx.num_readonly_signed_static_accounts
             z == tx.num_readonly_unsigned_static_accounts
  <2>1. b2 = <<x, y, z>>
    BY DEF HeaderBytes, b2
  <2> HIDE DEF x, y, z
  <2>2. Written(m1, <<x, y, z>>, m2)
    BY <1>13, <2>1
  <2>3. /\ ByteAt(m1) = x /\ ByteAt(ReadBytesAt(m1, 1)) = y /\ ByteAt(ReadBytesAt(m1, 2)) = z
        /\ m2 = m1 + 3 /\ m2 <= Len(bytes)
        /\ ReadBytesAt(m1, 1) = m1 + 1 /\ ReadBytesAt(m1, 2) = m1 + 2
    BY <2>2, WrittenHeaderIsRead
  <2> QED BY <1>14, <2>3 DEF x, y, z
<1>16. m = m2
  <2>1. m = ReadBytesAt(0, 4) /\ 0 # Bad /\ 0 + 4 = 4
    BY DEF MessageFirstLayout, Bad
  <2> QED BY <1>15, <2>1 DEF ReadBytesAt
<1>17. v.transaction_config_mask = mask /\ v.recent_blockhash_offset = m3
  <2>1. FitsIn(mask, U32_BYTES)
    BY <1>6, MaskFits
  <2>2. Written(m2, LittleEndianBytes(mask, U32_BYTES), m3)
    BY <1>13 DEF b3
  <2>3. LittleEndianAt(m2, U32_BYTES) = mask /\ ReadBytesAt(m2, U32_BYTES) = m3
    BY <1>5, <1>6, <2>1, <2>2, WrittenNumberIsRead
  <2> QED BY <1>16, <2>3 DEF MessageFirstLayout
<1>18. counts = m4
  <2>1. ReadBytesAt(m3, Len(b4)) = m4
    BY <1>13, WrittenIsRead
  <2> QED BY <1>9, <1>17, <2>1 DEF MessageFirstLayout
<1>19. /\ v.num_instructions = n /\ v.num_static_account_keys = k
       /\ v.static_account_keys_offset = m5
  <2>1. Written(m4, <<n, k>>, m5)
    BY <1>13 DEF b5
  <2>2. ByteAt(m4) = n /\ ByteAt(ReadBytesAt(m4, 1)) = k /\ ReadBytesAt(m4, 2) = m5
    BY <2>1, WrittenPairIsRead
  <2> QED BY <1>18, <2>2 DEF MessageFirstLayout
<1>20. v.transaction_config_values_offset = m6
  <2>1. Written(m5, FlattenSeq(tx.static_account_keys), m6)
    BY <1>13 DEF b6
  <2>2. ReadBytesAt(m5, k * PUBKEY_BYTES) = m6
    BY <1>2, <1>5, <2>1, WrittenArraysEnd DEF k
  <2> QED BY <1>19, <2>2 DEF MessageFirstLayout
<1>21. /\ v.instructions_offset = m7
       /\ HasBit(mask, 16) =>
             LittleEndianAt(ConfigOffset(m6, mask, 3), U32_BYTES) = tx.config.requested_heap_size
  <2>1. Written(m6, ConfigBytes(tx.config), m7)
    BY <1>13 DEF b7
  <2>2. /\ ConfigOffset(m6, mask, 4) = m7
        /\ HasBit(mask, 16) =>
              LittleEndianAt(ConfigOffset(m6, mask, 3), U32_BYTES) = tx.config.requested_heap_size
    BY <1>2, <2>1, WrittenConfigIsRead DEF mask
  <2> QED BY <1>17, <1>20, <2>2 DEF MessageFirstLayout
<1>22. /\ Loop("V1", m7, m8)[n].payload_offset = m9
       /\ \A i \in 1..n : InstructionOf(Loop("V1", m7, m8)[i]) = ixs[i]
       /\ m8 = m7 + 4 * n
  <2>1. Written(m7, Concat(V1HeaderBytes, ixs), m8) /\ Written(m8, Concat(V1PayloadBytes, ixs), m9)
    BY <1>13 DEF b8, b9
  <2>2. Len(ixs) = n
    BY DEF ixs, n
  <2>3. /\ Loop("V1", m7, m8)[Len(ixs)].payload_offset = m9
        /\ \A i \in 1..Len(ixs) : InstructionOf(Loop("V1", m7, m8)[i]) = ixs[i]
        /\ m8 = m7 + 4 * Len(ixs)
    BY <1>2, <1>3, <2>1, WrittenV1InstructionsAreRead
  <2> QED BY <2>2, <2>3
<1>23. v.instruction_payloads_offset = m8
  <2>1. m7 \in Nat /\ m7 # Bad /\ m8 \in Nat /\ m8 <= Len(bytes)
    <3>1. Written(m7, b8, m8)
      BY <1>13
    <3> QED BY <3>1, WrittenIsRead DEF Written
  <2>2. ReadBytesAt(m7, 4 * n) = m8
    BY <1>22, <2>1 DEF ReadBytesAt
  <2> QED BY <1>19, <1>21, <2>2 DEF MessageFirstLayout
<1>24. LoopOverInstructions(v) = Loop("V1", m7, m8) /\ v.signatures_offset = m9
  <2>1. LoopOverInstructions(v) = Loop("V1", m7, m8)
    BY <1>21, <1>23 DEF LoopOverInstructions, MessageFirstLayout
  <2> QED BY <1>19, <1>22, <2>1 DEF MessageFirstLayout
<1>25. v.num_signatures = s /\ v.end = Len(bytes)
  <2>1. v.num_signatures = s
    BY <1>3, <1>15 DEF MessageFirstLayout
  <2>2. Written(m9, FlattenSeq(tx.signatures), Len(bytes))
    BY <1>13 DEF b10
  <2>3. ReadBytesAt(m9, s * SIGNATURE_BYTES) = Len(bytes)
    BY <1>2, <1>5, <2>2, WrittenArraysEnd DEF s
  <2> QED BY <1>24, <2>1, <2>3 DEF MessageFirstLayout
<1>26. /\ v.message_version = "V1" /\ ~v.malformed
       /\ v.num_required_signatures = tx.num_required_signatures
       /\ v.num_readonly_signed_static_accounts = tx.num_readonly_signed_static_accounts
       /\ v.num_readonly_unsigned_static_accounts = tx.num_readonly_unsigned_static_accounts
  BY <1>6, <1>15, <1>17 DEF MessageFirstLayout
<1>27. /\ Len(tx.lookups) = 0
       /\ \A i \in 1..Len(tx.lookups) : LookupOf(LoopOverLookups(v)[i]) = tx.lookups[i]
  BY <1>2
<1>28. \A i \in 1..Len(tx.instructions) :
          InstructionOf(LoopOverInstructions(v)[i]) = tx.instructions[i]
  BY <1>22, <1>24 DEF n, ixs
<1>29. HasBit(v.transaction_config_mask, 16) =>
          /\ tx.config.requested_heap_size # NoValue
          /\ LittleEndianAt(ConfigOffset(v.transaction_config_values_offset,
                                         v.transaction_config_mask, 3), U32_BYTES)
                = tx.config.requested_heap_size
  BY <1>6, <1>17, <1>20, <1>21
<1>30. FoundIn(v, tx)
  <2>1. v.num_instructions = Len(tx.instructions) /\ v.num_signatures = Len(tx.signatures)
        /\ v.num_static_account_keys = Len(tx.static_account_keys)
    BY <1>19, <1>25 DEF n, s, k
  <2> QED BY <1>25, <1>26, <1>27, <1>28, <1>29, <2>1 DEF FoundIn
<1> QED BY <1>14, <1>30

\* try_new finds a sane transaction of the older formats as it was written.
LEMMA SignatureFirstIsFound ==
    ASSUME bytes \in Seq(Byte), NEW tx, WireParts(tx), Sane(tx), tx.message_version # "V1",
           bytes = SignatureFirstBytes(tx),
           NEW v, NEW prefix, NEW h, NEW counts, NEW behind,
           SignatureFirstLayout(v, prefix, h, counts), LookupsLayout(v, prefix, behind)
    PROVE  FoundIn(v, tx) /\ bytes # <<>> /\ bytes[1] < HIGH
<1> DEFINE version == tx.message_version
           ixs == tx.instructions
           items == tx.lookups
           n == Len(tx.instructions)
           k == Len(tx.static_account_keys)
           l == Len(tx.lookups)
           s == Len(tx.signatures)
           tail == <<l>> \o Concat(LookupBytes, items)
           b1 == <<s>>
           b2 == FlattenSeq(tx.signatures)
           b3 == IF version = "V0" THEN <<HIGH>> ELSE <<>>
           b4 == HeaderBytes(tx)
           b5 == <<k>>
           b6 == FlattenSeq(tx.static_account_keys)
           b7 == tx.recent_blockhash
           b8 == Compact(n)
           b9 == Concat(InstructionBytes, ixs)
           b10 == IF version = "V0" THEN tail ELSE <<>>
<1>1. bytes = b1 \o b2 \o b3 \o b4 \o b5 \o b6 \o b7 \o b8 \o b9 \o b10
  BY DEF SignatureFirstBytes
<1>2. /\ tx.signatures \in Seq(Array(SIGNATURE_BYTES))
      /\ tx.static_account_keys \in Seq(Array(PUBKEY_BYTES))
      /\ tx.recent_blockhash \in Array(BLOCKHASH_BYTES)
      /\ ixs \in Seq(Instructions) /\ n < HIGH * HIGH
      /\ items \in Seq(Lookups) /\ (version # "V0" => items = <<>>)
      /\ tx.config = NoConfig /\ version \in {"Legacy", "V0"}
  BY DEF WireParts, WireVersions
<1>3. /\ tx.num_required_signatures \in Nat /\ s = tx.num_required_signatures
      /\ s \in 1..MAX_SIGNATURES /\ s < HIGH /\ s \in Nat
      /\ \A i \in DOMAIN items : items[i].writable_indexes \o items[i].readonly_indexes # <<>>
  <2>1. \A i \in DOMAIN items : items[i].writable_indexes \o items[i].readonly_indexes # <<>>
    BY SaneCounts
  <2>2. /\ tx.num_required_signatures \in 1..MAX_SIGNATURES /\ s = tx.num_required_signatures
        /\ tx.num_required_signatures < HIGH
    BY SaneCounts
  <2> QED BY <2>1, <2>2, WireAssumption
<1>4. n \in Nat /\ k \in Nat /\ l \in Nat /\ k >= 1
  <2>1. k \in Nat /\ k >= 1
    BY SaneCounts
  <2>2. n \in Nat
    BY <1>2
  <2>3. l \in Nat
    BY <1>2
  <2> QED BY <2>1, <2>2, <2>3
<1>5. PUBKEY_BYTES \in Nat /\ BLOCKHASH_BYTES \in Nat /\ SIGNATURE_BYTES \in Nat
  BY FormatAssumption, WireAssumption
<1> HIDE DEF version, ixs, items, n, k, l, s
<1>6. b1 \in Seq(Nat) /\ b3 \in Seq(Nat) /\ b5 \in Seq(Nat)
  <2>1. <<HIGH>> \in Seq(Nat) /\ <<>> \in Seq(Nat)
    BY HighIsNumber
  <2>2. b1 \in Seq(Nat) /\ b5 \in Seq(Nat)
    BY <1>3, <1>4
  <2> QED BY <2>1, <2>2
<1>7. b4 \in Seq(Byte)
  BY HeaderIsBytes
<1>8. b7 \in Seq(Byte) /\ Len(b7) = BLOCKHASH_BYTES
  BY <1>2, <1>5, ArrayIsBytes
<1>9. b2 \in Seq(Byte) /\ b6 \in Seq(Byte)
  BY <1>2, <1>5, ArraysAreBytes
<1>10. b8 \in Seq(Byte)
  BY <1>2, <1>4, CompactIsBytes
<1>11. b9 \in Seq(Byte)
  <2> DEFINE t == [i \in DOMAIN ixs |-> InstructionBytes(ixs[i])]
  <2>1. t \in Seq(Seq(Byte))
    BY <1>2, InstructionsAreBytes
  <2>2. b9 = FlattenSeq(t)
    BY DEF Concat
  <2> HIDE DEF t, b9
  <2> QED BY <2>1, <2>2, FlattenIsBytes
<1>12. <<l>> \in Seq(Nat) /\ Concat(LookupBytes, items) \in Seq(Nat) /\ b10 \in Seq(Nat)
  <2> DEFINE t == [i \in DOMAIN items |-> LookupBytes(items[i])]
             c == Concat(LookupBytes, items)
  <2>1. t \in Seq(Seq(Byte))
    BY <1>2, LookupsAreBytes
  <2>2. c = FlattenSeq(t)
    BY DEF Concat
  <2> HIDE DEF t, c
  <2>3. c \in Seq(Nat)
    BY <2>1, <2>2, FlattenIsBytes, BytesAreNumbers
  <2>4. <<l>> \in Seq(Nat)
    BY <1>4
  <2>5. tail \in Seq(Nat)
    <3> DEFINE d == <<l>>
    <3>1. d \in Seq(Nat) /\ tail = d \o c
      BY <2>4 DEF c
    <3> HIDE DEF d, tail
    <3> QED BY <2>3, <3>1, BytesAreNumbers
  <2> HIDE DEF tail
  <2>6. b10 \in Seq(Nat)
    BY <2>5
  <2> QED BY <2>3, <2>4, <2>6 DEF c
<1> HIDE DEF b1, b2, b3, b4, b5, b6, b7, b8, b9, b10, tail
<1>13. PICK m1, m2, m3, m4, m5, m6, m7, m8, m9 :
          /\ Written(0, b1, m1) /\ Written(m1, b2, m2) /\ Written(m2, b3, m3)
          /\ Written(m3, b4, m4) /\ Written(m4, b5, m5) /\ Written(m5, b6, m6)
          /\ Written(m6, b7, m7) /\ Written(m7, b8, m8) /\ Written(m8, b9, m9)
          /\ Written(m9, b10, Len(bytes))
  <2>1. /\ b2 \in Seq(Nat) /\ b4 \in Seq(Nat) /\ b6 \in Seq(Nat)
        /\ b7 \in Seq(Nat) /\ b8 \in Seq(Nat) /\ b9 \in Seq(Nat)
    BY <1>7, <1>8, <1>9, <1>10, <1>11, BytesAreNumbers
  <2>2. InputIs(b1, b2, b3, b4, b5, b6, b7, b8, b9, b10)
    BY <1>1, <1>6, <1>12, <2>1 DEF InputIs
  <2> QED BY <2>2, WrittenInTen
<1>14. m1 = 1 /\ ByteAt(0) = s /\ bytes # <<>> /\ bytes[1] < HIGH
  <2> DEFINE zero == 0
  <2>1. Written(zero, <<s>>, m1) /\ zero = 0
    BY <1>13 DEF b1
  <2> HIDE DEF zero
  <2>2. ByteAt(zero) = s /\ ReadBytesAt(zero, 1) = m1 /\ m1 = zero + 1 /\ m1 # Bad
    BY <2>1, WrittenByte
  <2>3. m1 <= Len(bytes)
    BY <2>1 DEF Written
  <2>4. m1 = 1 /\ ByteAt(0) = s /\ ReadBytesAt(0, 1) # Bad
    BY <2>1, <2>2
  <2>5. bytes # <<>>
    BY <2>3, <2>4
  <2>6. bytes[1] = s
    BY <2>4 DEF ByteAt
  <2> QED BY <1>3, <2>4, <2>5, <2>6
<1>15. v.num_signatures = s /\ v.signatures_offset = 1 /\ prefix = m2
  <2>1. Written(m1, FlattenSeq(tx.signatures), m2)
    BY <1>13 DEF b2
  <2>2. ReadBytesAt(m1, s * SIGNATURE_BYTES) = m2
    BY <1>2, <1>5, <2>1, WrittenArraysEnd DEF s
  <2> QED BY <1>14, <2>2 DEF SignatureFirstLayout
<1>16. /\ ByteAt(m3) = tx.num_required_signatures
       /\ ByteAt(ReadBytesAt(m3, 1)) = tx.num_readonly_signed_static_accounts
       /\ ByteAt(ReadBytesAt(m3, 2)) = tx.num_readonly_unsigned_static_accounts
       /\ ReadBytesAt(m3, 3) = m4 /\ m3 \in Nat /\ m4 = m3 + 3
  <2> DEFINE x == tx.num_required_signatures
             y == tx.num_readonly_signed_static_accounts
             z == tx.num_readonly_unsigned_static_accounts
  <2>1. b4 = <<x, y, z>>
    BY DEF HeaderBytes, b4
  <2> HIDE DEF x, y, z
  <2>2. Written(m3, <<x, y, z>>, m4)
    BY <1>13, <2>1
  <2>3. /\ ByteAt(m3) = x /\ ByteAt(ReadBytesAt(m3, 1)) = y /\ ByteAt(ReadBytesAt(m3, 2)) = z
        /\ ReadBytesAt(m3, 3) = m4 /\ m3 \in Nat /\ m4 = m3 + 3
    BY <2>2, WrittenHeaderIsRead
  <2> QED BY <2>3 DEF x, y, z
<1>17. v.message_version = version /\ h = m3 /\ ~(ByteAt(m2) > HIGH)
  <2>1. CASE version = "V0"
    <3>1. Written(m2, <<HIGH>>, m3)
      BY <1>13, <2>1 DEF b3
    <3>2. ByteAt(m2) = HIGH /\ ReadBytesAt(m2, 1) = m3
      BY <3>1, WrittenByte
    <3>3. ~(ByteAt(m2) < HIGH) /\ ~(ByteAt(m2) > HIGH)
      BY <3>2, HighIsNumber
    <3> QED BY <1>15, <2>1, <3>2, <3>3 DEF SignatureFirstLayout
  <2>2. CASE version = "Legacy"
    <3>1. Written(m2, <<>>, m3)
      BY <1>13, <2>2 DEF b3
    <3>2. m3 = m2
      BY <3>1 DEF Written
    <3>3. ByteAt(m2) = s
      BY <1>3, <1>16, <3>2
    <3>4. ByteAt(m2) < HIGH /\ ~(ByteAt(m2) > HIGH)
      BY <1>3, <3>3, HighIsNumber
    <3> QED BY <1>15, <2>2, <3>2, <3>4 DEF SignatureFirstLayout
  <2> QED BY <1>2, <2>1, <2>2
<1>18. v.num_static_account_keys = k /\ v.static_account_keys_offset = m5
  <2>1. Written(m4, <<k>>, m5)
    BY <1>13 DEF b5
  <2>2. ByteAt(m4) = k /\ ReadBytesAt(m4, 1) = m5 /\ m5 = m4 + 1
    BY <2>1, WrittenByte
  <2>3. ReadBytesAt(m3, 4) = m5
    <3>1. m5 <= Len(bytes) /\ m3 # Bad /\ m5 = m3 + 4
      BY <1>16, <2>1, <2>2 DEF Written, Bad
    <3> QED BY <3>1 DEF ReadBytesAt
  <2> QED BY <1>16, <1>17, <2>2, <2>3 DEF SignatureFirstLayout
<1>19. v.recent_blockhash_offset = m6
  <2>1. Written(m5, FlattenSeq(tx.static_account_keys), m6)
    BY <1>13 DEF b6
  <2>2. ReadBytesAt(m5, k * PUBKEY_BYTES) = m6
    BY <1>2, <1>5, <2>1, WrittenArraysEnd DEF k
  <2> QED BY <1>18, <2>2 DEF SignatureFirstLayout
<1>20. counts = m7
  <2>1. ReadBytesAt(m6, Len(b7)) = m7
    BY <1>13, WrittenIsRead
  <2> QED BY <1>8, <1>19, <2>1 DEF SignatureFirstLayout
<1>21. v.num_instructions = n /\ v.instructions_offset = m8
  <2>1. Written(m7, Compact(n), m8)
    BY <1>13 DEF b8
  <2>2. ReadCompactAt(m7) = [value |-> n, offset |-> m8]
    BY <1>2, <1>4, <2>1, WrittenCompactIsRead
  <2> QED BY <1>20, <2>2 DEF SignatureFirstLayout
<1>22. LoopOverInstructions(v) = Loop(version, m8, 0)
  BY <1>17, <1>21 DEF LoopOverInstructions, SignatureFirstLayout
<1>23. /\ Loop(version, m8, 0)[n].header_offset = m9
       /\ \A i \in 1..n : InstructionOf(Loop(version, m8, 0)[i]) = ixs[i]
       /\ m8 + 3 * n <= m9
  <2>1. Written(m8, Concat(InstructionBytes, ixs), m9)
    BY <1>13 DEF b9
  <2>2. Len(ixs) = n
    BY DEF ixs, n
  <2>3. /\ Loop(version, m8, 0)[Len(ixs)].header_offset = m9
        /\ \A i \in 1..Len(ixs) : InstructionOf(Loop(version, m8, 0)[i]) = ixs[i]
        /\ m8 + 3 * Len(ixs) <= m9
    BY <1>2, <2>1, WrittenInstructionsAreRead
  <2> QED BY <2>2, <2>3
<1>24. behind = m9 /\ ~MinimumBytesMissing(v.instructions_offset, 3 * v.num_instructions)
  <2>1. behind = m9
    BY <1>21, <1>22, <1>23 DEF LookupsLayout
  <2>2. m8 \in Nat /\ m9 \in Nat /\ m9 <= Len(bytes)
    BY <1>13 DEF Written
  <2>3. ReadBytesAt(m8, 3 * n) # Bad
    BY <1>4, <1>23, <2>2 DEF ReadBytesAt, Bad
  <2> QED BY <1>21, <2>1, <2>3 DEF MinimumBytesMissing
<1>25. /\ v.num_address_table_lookups = l /\ v.end = Len(bytes)
       /\ \A i \in 1..l : LookupOf(LoopOverLookups(v)[i]) = items[i]
       /\ ~MinimumBytesMissing(v.address_table_lookups_offset,
                               (PUBKEY_BYTES + 3) * v.num_address_table_lookups)
  <2> DEFINE first == v.address_table_lookups_offset
             least == PUBKEY_BYTES + 3
             size == least * l
  <2>1. CASE version = "V0"
    <3>1. Written(m9, <<l>> \o Concat(LookupBytes, items), Len(bytes))
      BY <1>13, <2>1 DEF b10, tail
    <3>2. PICK m10 : Written(m9, <<l>>, m10) /\ Written(m10, Concat(LookupBytes, items), Len(bytes))
      <4> DEFINE c == <<l>>
                 d == Concat(LookupBytes, items)
      <4>1. c \in Seq(Nat) /\ d \in Seq(Nat) /\ Written(m9, c \o d, Len(bytes))
        BY <1>12, <3>1
      <4> HIDE DEF c, d
      <4>2. \E m10 : Written(m9, c, m10) /\ Written(m10, d, Len(bytes))
        BY <4>1, WrittenInTwo
      <4> QED BY <4>2 DEF c, d
    <3>3. ByteAt(m9) = l /\ ReadBytesAt(m9, 1) = m10
      BY <3>2, WrittenByte
    <3>4. v.num_address_table_lookups = l /\ first = m10
      BY <1>17, <1>24, <2>1, <3>3 DEF LookupsLayout
    <3>5. LoopOverLookups(v) = Loop("Lookup", m10, 0)
      BY <3>4 DEF LoopOverLookups
    <3>6. /\ Loop("Lookup", m10, 0)[l].header_offset = Len(bytes)
          /\ \A i \in 1..l : LookupOf(Loop("Lookup", m10, 0)[i]) = items[i]
          /\ m10 + size <= Len(bytes)
      <4>1. Len(items) = l
        BY DEF items, l
      <4>2. /\ Loop("Lookup", m10, 0)[Len(items)].header_offset = Len(bytes)
            /\ \A i \in 1..Len(items) : LookupOf(Loop("Lookup", m10, 0)[i]) = items[i]
            /\ m10 + (PUBKEY_BYTES + 3) * Len(items) <= Len(bytes)
        BY <1>2, <1>3, <3>2, WrittenLookupsAreRead
      <4> QED BY <4>1, <4>2
    <3>7. v.end = Len(bytes)
      BY <1>17, <2>1, <3>4, <3>5, <3>6 DEF LookupsLayout
    <3>8. ReadBytesAt(m10, size) # Bad
      <4>1. size \in Nat
        BY <1>4, <1>5, ProductIsNumber
      <4>2. m10 \in Nat /\ m10 + size <= Len(bytes)
        BY <3>2, <3>6 DEF Written
      <4> HIDE DEF size
      <4> QED BY <4>1, <4>2 DEF ReadBytesAt, Bad
    <3> QED BY <3>4, <3>5, <3>6, <3>7, <3>8 DEF MinimumBytesMissing
  <2>2. CASE version = "Legacy"
    <3>1. Written(m9, <<>>, Len(bytes))
      BY <1>13, <2>2 DEF b10
    <3>2. Len(bytes) = m9
      BY <3>1 DEF Written
    <3>3. v.num_address_table_lookups = 0 /\ first = 0 /\ v.end = Len(bytes)
      BY <1>17, <1>24, <2>2, <3>2 DEF LookupsLayout
    <3>4. l = 0 /\ \A i \in 1..l : FALSE
      BY <1>2, <2>2 DEF l, items
    <3>5. ReadBytesAt(0, least * 0) # Bad
      <4>1. least * 0 = 0 /\ 0 + 0 <= Len(bytes)
        BY <1>5
      <4> QED BY <4>1 DEF ReadBytesAt, Bad
    <3> QED BY <3>3, <3>4, <3>5 DEF MinimumBytesMissing
  <2> QED BY <1>2, <2>1, <2>2
<1>26. ~v.malformed
  <2>1. k <= MAX_STATIC_ACCOUNTS_PER_PACKET /\ l <= MAX_ADDRESS_TABLE_LOOKUPS_PER_PACKET
    BY DEF Sane, SaneAccounts, k, l
  <2>2. k \in 1..MAX_STATIC_ACCOUNTS_PER_PACKET /\ ~(l > MAX_ADDRESS_TABLE_LOOKUPS_PER_PACKET)
    BY <1>4, <2>1, FormatAssumption
  <2> QED BY <1>3, <1>15, <1>17, <1>18, <1>24, <1>25, <2>2 DEF LookupsLayout
<1>27. ~HasBit(v.transaction_config_mask, 16)
  BY DEF LookupsLayout, HasBit
<1>28. /\ v.num_required_signatures = tx.num_required_signatures
       /\ v.num_readonly_signed_static_accounts = tx.num_readonly_signed_static_accounts
       /\ v.num_readonly_unsigned_static_accounts = tx.num_readonly_unsigned_static_accounts
  BY <1>16, <1>17 DEF SignatureFirstLayout
<1>29. FoundIn(v, tx)
  <2>1. /\ v.num_instructions = Len(tx.instructions) /\ v.num_signatures = Len(tx.signatures)
        /\ v.num_static_account_keys = Len(tx.static_account_keys)
        /\ v.message_version = tx.message_version
        /\ v.num_address_table_lookups = Len(tx.lookups)
    BY <1>15, <1>17, <1>18, <1>21, <1>25 DEF n, s, k, l, version
  <2>2. \A i \in 1..Len(tx.instructions) :
           InstructionOf(LoopOverInstructions(v)[i]) = tx.instructions[i]
    BY <1>22, <1>23 DEF n, ixs
  <2>3. \A i \in 1..Len(tx.lookups) : LookupOf(LoopOverLookups(v)[i]) = tx.lookups[i]
    BY <1>25 DEF l, items
  <2> QED BY <1>25, <1>26, <1>27, <1>28, <2>1, <2>2, <2>3 DEF FoundIn
<1> QED BY <1>14, <1>29

\* What is found has the items that were written, field by field.
LEMMA FoundHasItems ==
    ASSUME NEW tx, WireParts(tx), NEW v, Traversable(v), FoundIn(v, tx)
    PROVE  /\ Len(tx.instructions) \in Nat /\ DOMAIN v.instructions = 1..Len(tx.instructions)
           /\ \A i \in 1..Len(tx.instructions) :
                 /\ v.instructions[i].program_id_index = tx.instructions[i].program_id_index
                 /\ v.instructions[i].accounts = tx.instructions[i].accounts
           /\ Len(tx.lookups) \in Nat /\ DOMAIN v.lookups = 1..Len(tx.lookups)
           /\ \A i \in 1..Len(tx.lookups) :
                 /\ v.lookups[i].writable_indexes = tx.lookups[i].writable_indexes
                 /\ v.lookups[i].readonly_indexes = tx.lookups[i].readonly_indexes
<1> DEFINE n == Len(tx.instructions)
           l == Len(tx.lookups)
           turn == LoopOverInstructions(v)
           lookup == LoopOverLookups(v)
<1>1. n \in Nat /\ l \in Nat
  BY DEF WireParts
<1>2. v.instructions = Items(turn, n) /\ v.lookups = Items(lookup, l)
  BY DEF Traversable, FoundIn
<1>3. /\ \A i \in 1..n : InstructionOf(turn[i]) = tx.instructions[i]
      /\ \A i \in 1..l : LookupOf(lookup[i]) = tx.lookups[i]
  BY DEF FoundIn
<1> HIDE DEF n, l, turn, lookup
<1>4. /\ DOMAIN v.instructions = 1..n /\ \A i \in 1..n : v.instructions[i] = turn[i]
      /\ DOMAIN v.lookups = 1..l /\ \A i \in 1..l : v.lookups[i] = lookup[i]
  BY <1>2 DEF Items
<1>5. ASSUME NEW i \in 1..n
      PROVE  /\ v.instructions[i].program_id_index = tx.instructions[i].program_id_index
             /\ v.instructions[i].accounts = tx.instructions[i].accounts
  <2> DEFINE item == turn[i]
             ix == tx.instructions[i]
  <2>1. ix = InstructionOf(item) /\ v.instructions[i] = item
    BY <1>3, <1>4
  <2> HIDE DEF item, ix
  <2>2. ix.program_id_index = item.program_id_index /\ ix.accounts = item.accounts
    BY <2>1 DEF InstructionOf
  <2> QED BY <2>1, <2>2 DEF ix
<1>6. ASSUME NEW i \in 1..l
      PROVE  /\ v.lookups[i].writable_indexes = tx.lookups[i].writable_indexes
             /\ v.lookups[i].readonly_indexes = tx.lookups[i].readonly_indexes
  <2> DEFINE item == lookup[i]
             written == tx.lookups[i]
  <2>1. written = LookupOf(item) /\ v.lookups[i] = item
    BY <1>3, <1>4
  <2> HIDE DEF item, written
  <2>2. /\ written.writable_indexes = item.writable_indexes
        /\ written.readonly_indexes = item.readonly_indexes
    BY <2>1 DEF LookupOf
  <2> QED BY <2>1, <2>2 DEF written
<1> QED BY <1>1, <1>4, <1>5, <1>6 DEF n, l

\* What is found has as many accounts as was written.
LEMMA FoundHasAccounts ==
    ASSUME NEW tx, WireParts(tx), NEW v, Traversable(v), FoundIn(v, tx)
    PROVE  TotalAccountsOf(v) = TotalAccounts(tx) /\ TotalAccounts(tx) \in Nat
<1> DEFINE l == Len(tx.lookups)
           k == Len(tx.static_account_keys)
           Loaded(items) ==
               [i \in DOMAIN items |->
                   Len(items[i].writable_indexes) + Len(items[i].readonly_indexes)]
<1>1. k \in Nat /\ v.num_static_account_keys = k
  <2> DEFINE S == Array(PUBKEY_BYTES)
  <2>1. tx.static_account_keys \in Seq(S)
    BY DEF WireParts
  <2> HIDE DEF S
  <2> QED BY <2>1 DEF FoundIn
<1>2. tx.lookups \in Seq(Lookups) /\ l \in Nat /\ DOMAIN tx.lookups = 1..l
  BY DEF WireParts
<1>3. /\ DOMAIN v.lookups = 1..l
      /\ \A i \in 1..l : /\ v.lookups[i].writable_indexes = tx.lookups[i].writable_indexes
                         /\ v.lookups[i].readonly_indexes = tx.lookups[i].readonly_indexes
  BY FoundHasItems
<1> HIDE DEF l, k
<1>4. Loaded(v.lookups) = Loaded(tx.lookups)
  BY <1>2, <1>3
<1>5. Loaded(tx.lookups) \in Seq(Nat)
  <2>1. ASSUME NEW i \in 1..l PROVE Loaded(tx.lookups)[i] \in Nat
    <3> DEFINE writable == tx.lookups[i].writable_indexes
               readonly == tx.lookups[i].readonly_indexes
    <3>1. tx.lookups[i] \in Lookups
      BY <1>2
    <3>2. writable \in Seq(Byte) /\ readonly \in Seq(Byte)
      BY <3>1 DEF Lookups, CompactSeq
    <3>3. Loaded(tx.lookups)[i] = Len(writable) + Len(readonly)
      BY <1>2
    <3> HIDE DEF writable, readonly, Loaded
    <3>4. Len(writable) \in Nat /\ Len(readonly) \in Nat
      BY <3>2
    <3> QED BY <3>3, <3>4
  <2>2. Loaded(tx.lookups) \in [1..l -> Nat]
    BY <1>2, <2>1
  <2> HIDE DEF Loaded
  <2> QED BY <1>2, <2>2
<1>6. TotalAccountsOf(v) = Together(v.num_static_account_keys, Loaded(v.lookups))
  BY DEF TotalAccountsOf
<1>7. TotalAccounts(tx) = Together(k, Loaded(tx.lookups))
  BY DEF TotalAccounts, k
<1> HIDE DEF Loaded
<1> QED BY <1>1, <1>4, <1>5, <1>6, <1>7, TogetherIsNumber

\* What is found of a sane transaction passes the rules.
LEMMA FoundIsOk ==
    ASSUME NEW tx, WireParts(tx), Sane(tx), NEW v, Traversable(v), BytesInView(v) \subseteq Byte,
           FoundIn(v, tx)
    PROVE  Verdict(v) = "Ok"
<1> DEFINE required == v.num_required_signatures
           signed == v.num_readonly_signed_static_accounts
           unsigned == v.num_readonly_unsigned_static_accounts
           keys == v.num_static_account_keys
<1>1. required \in Byte /\ signed \in Byte /\ unsigned \in Byte /\ keys \in Byte
  BY DEF BytesInView
<1>2. /\ required = tx.num_required_signatures
      /\ signed = tx.num_readonly_signed_static_accounts
      /\ unsigned = tx.num_readonly_unsigned_static_accounts
      /\ keys = Len(tx.static_account_keys)
      /\ v.num_signatures = Len(tx.signatures)
      /\ v.message_version = tx.message_version
      /\ v.num_instructions = Len(tx.instructions)
      /\ ~v.malformed /\ v.end = Len(bytes)
  BY DEF FoundIn
<1>3. /\ required \in 1..MAX_SIGNATURES /\ v.num_signatures = required /\ signed < required
      /\ required + unsigned <= keys
  BY <1>2 DEF Sane, SaneSigners
<1>4. /\ keys <= IF tx.message_version = "V1" THEN MAX_V1_STATIC_ACCOUNTS
                 ELSE MAX_STATIC_ACCOUNTS_PER_PACKET
      /\ \A i \in DOMAIN tx.lookups :
            tx.lookups[i].writable_indexes \o tx.lookups[i].readonly_indexes # <<>>
      /\ TotalAccounts(tx) <= MAX_ACCOUNTS
  BY <1>2 DEF Sane, SaneAccounts
<1>5. /\ Len(tx.instructions) <= MAX_INSTRUCTIONS
      /\ \A i \in DOMAIN tx.instructions :
            /\ tx.instructions[i].program_id_index \in 1..(keys - 1)
            /\ Len(tx.instructions[i].accounts) < MAX_ACCOUNTS
            /\ \A j \in DOMAIN tx.instructions[i].accounts :
                  tx.instructions[i].accounts[j] < TotalAccounts(tx)
  BY <1>2 DEF Sane, SaneInstructions
<1>6. TotalAccountsOf(v) = TotalAccounts(tx) /\ TotalAccounts(tx) \in Nat
  BY FoundHasAccounts
<1>7. HIGH \in Nat /\ MAX_SIGNATURES \in Nat /\ MAX_ACCOUNTS \in Nat
  BY WireAssumption, HighIsNumber DEF MAX_ACCOUNTS
<1> HIDE DEF required, signed, unsigned, keys
<1>8. required \in Nat /\ signed \in Nat /\ unsigned \in Nat /\ keys \in Nat
  BY <1>1, <1>7 DEF Byte
<1>9. ~InvalidHeader(v)
  <2>1. WrappingSub(keys, required) = keys - required
    <3>1. required <= keys
      BY <1>3, <1>8
    <3> QED BY <1>1, <3>1, NoWrapping
  <2>2. ~(required = 0) /\ ~(signed >= required) /\ ~(unsigned > WrappingSub(keys, required))
    BY <1>3, <1>8, <2>1
  <2> QED BY <2>2 DEF InvalidHeader, required, signed, unsigned, keys
<1>10. ~InvalidSignatures(v)
  <2>1. ~(required > MAX_SIGNATURES) /\ ~(keys < required)
    BY <1>3, <1>7, <1>8
  <2> QED BY <1>3, <2>1 DEF InvalidSignatures, required, keys
<1>11. ~InvalidAccounts(v)
  <2>1. v.message_version = "V1" => keys \in 1..MAX_V1_STATIC_ACCOUNTS
    <3>1. MAX_V1_STATIC_ACCOUNTS \in Nat /\ keys >= 1
      BY <1>3, <1>7, <1>8, FormatAssumption
    <3> QED BY <1>2, <1>4, <1>8, <3>1
  <2>2. ~(TotalAccountsOf(v) > MAX_ACCOUNTS)
    BY <1>4, <1>6, <1>7
  <2>3. ASSUME NEW lookup \in ToSet(v.lookups),
               lookup.writable_indexes = <<>>, lookup.readonly_indexes = <<>>
        PROVE  FALSE
    <3>1. PICK i \in DOMAIN v.lookups : lookup = v.lookups[i]
      BY <2>3 DEF ToSet
    <3>2. i \in 1..Len(tx.lookups)
      BY <3>1, FoundHasItems
    <3>3. tx.lookups[i].writable_indexes = <<>> /\ tx.lookups[i].readonly_indexes = <<>>
      BY <2>3, <3>1, <3>2, FoundHasItems
    <3>4. i \in DOMAIN tx.lookups
      BY <3>2 DEF WireParts
    <3> DEFINE a == tx.lookups[i].writable_indexes
               b == tx.lookups[i].readonly_indexes
    <3>5. a \o b # <<>>
      BY <1>4, <3>4
    <3>6. a = <<>> /\ b = <<>>
      BY <3>3
    <3> HIDE DEF a, b
    <3> QED BY <3>5, <3>6
  <2> QED BY <2>1, <2>2, <2>3 DEF InvalidAccounts, keys
<1>12. ~InvalidInstructions(v)
  <2>1. ~(v.num_instructions > MAX_INSTRUCTIONS)
    BY <1>2, <1>5, FoundHasItems, FormatAssumption
  <2>2. ASSUME NEW item \in ToSet(v.instructions)
        PROVE  /\ ~(item.program_id_index = 0)
               /\ ~(item.program_id_index >= keys)
               /\ ~(Len(item.accounts) >= MAX_ACCOUNTS)
               /\ \A index \in ToSet(item.accounts) : ~(index >= TotalAccountsOf(v))
    <3>1. PICK i \in DOMAIN v.instructions : item = v.instructions[i]
      BY DEF ToSet
    <3>2. i \in 1..Len(tx.instructions)
      BY <3>1, FoundHasItems
    <3> DEFINE ix == tx.instructions[i]
    <3>3. item.program_id_index = ix.program_id_index /\ item.accounts = ix.accounts
      BY <3>1, <3>2, FoundHasItems
    <3>4. i \in DOMAIN tx.instructions /\ ix \in Instructions
      BY <3>2 DEF WireParts
    <3>5. /\ ix.program_id_index \in 1..(keys - 1) /\ Len(ix.accounts) < MAX_ACCOUNTS
          /\ \A j \in DOMAIN ix.accounts : ix.accounts[j] < TotalAccounts(tx)
      BY <1>5, <3>4
    <3>6. ix.accounts \in Seq(Byte)
      BY <3>4 DEF Instructions, CompactSeq
    <3> HIDE DEF ix
    <3> DEFINE accounts == ix.accounts
    <3>7. Len(accounts) \in Nat /\ \A j \in DOMAIN accounts : accounts[j] \in Nat
      <4>1. accounts \in Seq(Nat)
        BY <3>6, BytesAreNumbers
      <4> HIDE DEF accounts
      <4> QED BY <4>1
    <3>8. ~(ix.program_id_index = 0) /\ ~(ix.program_id_index >= keys)
      BY <1>8, <3>5
    <3>9. ~(Len(accounts) >= MAX_ACCOUNTS)
      BY <1>7, <3>5, <3>7
    <3>10. ASSUME NEW index \in ToSet(accounts) PROVE ~(index >= TotalAccountsOf(v))
      <4>1. PICK j \in DOMAIN accounts : index = accounts[j]
        BY <3>10 DEF ToSet
      <4>2. index \in Nat /\ index < TotalAccounts(tx)
        BY <3>5, <3>7, <4>1
      <4> QED BY <1>6, <4>2
    <3> QED BY <3>3, <3>8, <3>9, <3>10
  <2> QED BY <2>1, <2>2 DEF InvalidInstructions, keys
<1>13. ~InvalidHeapSize(v)
  <2> SUFFICES ASSUME HasBit(v.transaction_config_mask, 16)
               PROVE  LET heap_size == LittleEndianAt(
                              ConfigOffset(v.transaction_config_values_offset,
                                           v.transaction_config_mask, 3), U32_BYTES)
                      IN  ~(\/ heap_size \notin MIN_V1_HEAP_SIZE..MAX_V1_HEAP_SIZE
                            \/ heap_size % HEAP_UNIT # 0)
    BY DEF InvalidHeapSize
  <2> DEFINE heap_size == LittleEndianAt(ConfigOffset(v.transaction_config_values_offset,
                                                     v.transaction_config_mask, 3), U32_BYTES)
  <2>1. /\ tx.config.requested_heap_size # NoValue
        /\ heap_size = tx.config.requested_heap_size
    BY DEF FoundIn
  <2>2. PICK n \in 1..MAX_V1_HEAP_SIZE :
           /\ tx.config.requested_heap_size = n * HEAP_UNIT
           /\ n * HEAP_UNIT \in MIN_V1_HEAP_SIZE..MAX_V1_HEAP_SIZE
    BY <2>1 DEF Sane, SaneHeap
  <2>3. (n * HEAP_UNIT) % HEAP_UNIT = 0
    <3>1. HEAP_UNIT \in Nat \ {0} /\ n \in Nat
      BY FormatAssumption
    <3>2. 0 \in 0..(HEAP_UNIT - 1)
      BY <3>1
    <3> DEFINE u == HEAP_UNIT
               r == 0
    <3>3. u \in Nat \ {0} /\ r \in 0..(u - 1) /\ n \in Nat /\ r = 0
      BY <3>1, <3>2
    <3> HIDE DEF u, r
    <3>4. (r + u * n) % u = r
      BY <3>3, QuotientIsUnique
    <3>5. r + u * n = n * u
      <4>1. u * n \in Nat /\ u * n = n * u
        BY <3>3, ProductIsNumber
      <4> QED BY <3>3, <4>1
    <3> QED BY <3>3, <3>4, <3>5 DEF u
  <2> HIDE DEF heap_size
  <2>4. heap_size \in MIN_V1_HEAP_SIZE..MAX_V1_HEAP_SIZE /\ heap_size % HEAP_UNIT = 0
    BY <2>1, <2>2, <2>3
  <2> QED BY <2>4 DEF heap_size
<1> QED BY <1>2, <1>9, <1>10, <1>11, <1>12, <1>13 DEF Verdict

\* try_new accepts a sane transaction as it was written.
LEMMA SaneIsFoundOk ==
    ASSUME bytes \in Seq(Byte), NEW tx \in WireTransactions, Sane(tx), bytes = Serialize(tx)
    PROVE  /\ bytes # <<>>
           /\ tx.message_version = "V1" =>
                 bytes[1] = V1_PREFIX /\ Verdict(ViewMessageFirst) = "Ok"
           /\ tx.message_version # "V1" =>
                 bytes[1] < HIGH /\ Verdict(ViewSignatureFirst) = "Ok"
<1>1. WireParts(tx)
  BY WireTransactionHasParts
<1>2. ASSUME tx.message_version = "V1"
      PROVE  bytes # <<>> /\ bytes[1] = V1_PREFIX /\ Verdict(ViewMessageFirst) = "Ok"
  <2>1. PICK m, counts : MessageFirstLayout(ViewMessageFirst, m, counts)
    BY MessageFirstIsLaidOut
  <2> DEFINE v == ViewMessageFirst
  <2>2. v.num_address_table_lookups = 0
    BY DEF ViewMessageFirst
  <2>3. bytes = MessageFirstBytes(tx) /\ MessageFirstLayout(v, m, counts)
    BY <1>2, <2>1 DEF Serialize
  <2>4. v.end = Len(bytes) => Traversable(v) /\ BytesInView(v) \subseteq Byte
    BY MessageFirstIsTraversable
  <2> HIDE DEF v
  <2>5. FoundIn(v, tx) /\ bytes # <<>> /\ bytes[1] = V1_PREFIX
    BY <1>1, <1>2, <2>2, <2>3, MessageFirstIsFound
  <2>6. v.end = Len(bytes)
    BY <2>5 DEF FoundIn
  <2>7. Verdict(v) = "Ok"
    BY <1>1, <2>4, <2>5, <2>6, FoundIsOk
  <2> QED BY <2>5, <2>7 DEF v
<1>3. ASSUME tx.message_version # "V1"
      PROVE  bytes # <<>> /\ bytes[1] < HIGH /\ Verdict(ViewSignatureFirst) = "Ok"
  <2>1. PICK prefix, h, counts, behind :
           /\ SignatureFirstLayout(ViewSignatureFirst, prefix, h, counts)
           /\ LookupsLayout(ViewSignatureFirst, prefix, behind)
    BY SignatureFirstIsLaidOut
  <2> DEFINE v == ViewSignatureFirst
  <2>2. /\ bytes = SignatureFirstBytes(tx) /\ SignatureFirstLayout(v, prefix, h, counts)
        /\ LookupsLayout(v, prefix, behind)
    BY <1>3, <2>1 DEF Serialize
  <2>3. v.end = Len(bytes) => Traversable(v) /\ BytesInView(v) \subseteq Byte
    BY SignatureFirstIsTraversable
  <2> HIDE DEF v
  <2>4. FoundIn(v, tx) /\ bytes # <<>> /\ bytes[1] < HIGH
    BY <1>1, <1>3, <2>2, SignatureFirstIsFound
  <2>5. v.end = Len(bytes)
    BY <2>4 DEF FoundIn
  <2>6. Verdict(v) = "Ok"
    BY <1>1, <2>3, <2>4, <2>5, FoundIsOk
  <2> QED BY <2>4, <2>6 DEF v
<1> QED BY <1>2, <1>3

\* The input and the transaction that it was made of stay what they were, and
\* the latter is not refused if it is sane.
SourceInv == source \in WireTransactions /\ bytes \in Seq(Byte) /\ SaneIsAccepted

\* try_new does not refuse what is sane.
LEMMA TryNewKeepsSourceInv ==
    ASSUME SourceInv, TryNew
    PROVE  SourceInv'
<1>1. /\ bytes' = bytes /\ source' = source /\ source \in WireTransactions
      /\ bytes \in Seq(Byte) /\ verdict = "Unread"
  BY DEF TryNew, SourceInv
<1>2. ASSUME Sane(source), bytes = Serialize(source),
             validate_raw_size(source.message_version, Len(bytes))
      PROVE  verdict' = "Ok"
  <2> DEFINE tx == source
  <2>1. tx \in WireTransactions /\ Sane(tx) /\ bytes = Serialize(tx)
    BY <1>1, <1>2
  <2> HIDE DEF tx
  <2>2. /\ bytes # <<>>
        /\ tx.message_version = "V1" =>
              bytes[1] = V1_PREFIX /\ Verdict(ViewMessageFirst) = "Ok"
        /\ tx.message_version # "V1" =>
              bytes[1] < HIGH /\ Verdict(ViewSignatureFirst) = "Ok"
    BY <1>1, <2>1, SaneIsFoundOk
  <2>3. CASE tx.message_version = "V1"
    <3>1. Judge(ViewMessageFirst)
      BY <1>2, <2>2, <2>3 DEF TryNew, tx
    <3> QED BY <2>2, <2>3, <3>1 DEF Judge
  <2>4. CASE tx.message_version # "V1"
    <3>1. tx.message_version \in {"Legacy", "V0"}
      <4>1. tx.message_version \in WireVersions
        BY <2>1 DEF WireTransactions
      <4> QED BY <2>4, <4>1 DEF WireVersions
    <3>2. validate_raw_size("Legacy", Len(bytes))
      BY <1>2, <3>1 DEF validate_raw_size, raw_limit, tx
    <3>3. bytes[1] # V1_PREFIX /\ ~(bytes[1] >= HIGH)
      <4>1. bytes[1] \in Byte
        <5>1. 1 \in 1..Len(bytes)
          BY <1>1, <2>2
        <5> QED BY <1>1, <5>1
      <4>2. bytes[1] \in Nat /\ bytes[1] < HIGH
        BY <2>2, <2>4, <4>1, HighIsNumber DEF Byte
      <4> QED BY <4>2, HighIsNumber DEF V1_PREFIX
    <3>4. Judge(ViewSignatureFirst)
      BY <2>2, <3>2, <3>3 DEF TryNew
    <3> QED BY <2>2, <2>4, <3>4 DEF Judge
  <2> QED BY <2>3, <2>4
<1>3. SaneIsAccepted'
  <2> SUFFICES ASSUME Sane(source)', (bytes = Serialize(source))',
                      validate_raw_size(source.message_version, Len(bytes))'
               PROVE  verdict' = "Ok"
    BY DEF SaneIsAccepted
  <2>1. Sane(source) /\ bytes = Serialize(source)
        /\ validate_raw_size(source.message_version, Len(bytes))
    BY <1>1
  <2> QED BY <1>2, <2>1
<1> QED BY <1>1, <1>3 DEF SourceInv

\* A sane transaction of legal size is accepted as it was written: no rule of
\* try_new, and none of its sums in bytes, refuses what the format allows.
THEOREM SaneTransactionsAreAccepted == ViewSpec => []SaneIsAccepted
<1>1. ViewInit => SourceInv
  <2> SUFFICES ASSUME ViewInit PROVE SourceInv
    OBVIOUS
  <2>1. PICK input \in Inputs : source = input.source /\ bytes = input.bytes
    BY DEF ViewInit
  <2>2. source \in WireTransactions /\ bytes \in Seq(Byte)
    BY <2>1, InputAssumption
  <2> QED BY <2>2 DEF ViewInit, SourceInv, SaneIsAccepted
<1>2. SourceInv /\ [ViewNext]_view_vars => SourceInv'
  <2> SUFFICES ASSUME SourceInv, [ViewNext]_view_vars PROVE SourceInv'
    OBVIOUS
  <2>1. CASE TryNew
    BY <2>1, TryNewKeepsSourceInv
  <2>2. CASE UNCHANGED <<bytes, source, verdict>>
    <3>1. Sane(source)' <=> Sane(source)
      BY <2>2
    <3>2. Serialize(source)' = Serialize(source)
      BY <2>2
    <3> QED BY <2>2, <3>1, <3>2 DEF SourceInv, SaneIsAccepted
  <2>3. InstructionsIter \/ NextInstruction \/ AddressTableLookupIter \/ NextLookup
           => UNCHANGED <<bytes, source, verdict>>
    BY DEF InstructionsIter, NextInstruction, AddressTableLookupIter, NextLookup
  <2>4. UNCHANGED view_vars => UNCHANGED <<bytes, source, verdict>>
    BY DEF view_vars
  <2> QED BY <2>1, <2>2, <2>3, <2>4 DEF ViewNext
<1>3. SourceInv => SaneIsAccepted
  BY DEF SourceInv
<1> QED BY <1>1, <1>2, <1>3, PTL DEF ViewSpec
=============================================================================

--------------------------- MODULE TransactionView ---------------------------
(***************************************************************************)
(* The transaction parser (protocol crate, transaction.rs):                *)
(* SanitizedTransactionView::try_new, which keeps offsets and counts only, *)
(* and the iterators and accessors that read the same bytes again later.   *)
(*                                                                         *)
(* Offsets count from zero, as in the code.  A read returns the offset     *)
(* behind what it has read, or Bad; a read from Bad is Bad.  All errors of *)
(* reading are reported as Parse, whatever they are.                       *)
(*                                                                         *)
(* The names of the specification begin with View, for ProtocolProofs      *)
(* speaks of this module and of FrameCodec.                                *)
(***************************************************************************)
EXTENDS TransactionFormat

CONSTANT Inputs   \* [source, bytes]: inputs, each with the transaction it was made of

ASSUME InputAssumption ==
    \A input \in Inputs : input.source \in WireTransactions /\ input.bytes \in Seq(Byte)

\* The sums of lookup counts in try_new are checked additions in 16 bits.  A
\* transaction has not the bytes to make them overflow.
ASSUME SumAssumption == LEGACY_V0_RAW_LIMIT + HIGH * HIGH <= 4 * HIGH * HIGH

VARIABLES
    bytes,              \* the input
    source,             \* history: the transaction that it was made of
    verdict,            \* "Unread", "Ok", or the TransactionViewError
    view,               \* the SanitizedTransactionView, if verdict is "Ok"
    instructions,       \* the iterator over instructions
    lookups,            \* the iterator over address table lookups
    read_instructions,  \* history: the items of the first
    read_lookups        \* history: the items of the second

iterators == <<instructions, lookups, read_instructions, read_lookups>>
view_vars == <<bytes, source, verdict, view, iterators>>

-----------------------------------------------------------------------------
(* Reading.                                                                *)

Bad == -1

ReadBytesAt(offset, n) ==
    IF offset # Bad /\ offset + n <= Len(bytes) THEN offset + n ELSE Bad

\* What has been read; irrelevant where the read was bad.
BytesAt(offset, n) ==
    IF ReadBytesAt(offset, n) = Bad THEN <<>> ELSE SubSeq(bytes, offset + 1, offset + n)

ByteAt(offset) == IF ReadBytesAt(offset, 1) = Bad THEN 0 ELSE bytes[offset + 1]

LittleEndianAt(offset, width) ==
    LET region == BytesAt(offset, width)
        n == Len(region)
        value[i \in Nat] ==   \* of the last i bytes
            IF i \in 1..n THEN region[n - i + 1] + 2 * HIGH * value[i - 1] ELSE 0
    IN  value[n]

ArraySlice(offset, n, width) == [i \in 1..n |-> BytesAt(offset + (i - 1) * width, width)]

\* Mutant of ReadCompactAt: an encoding longer than necessary is read.
ReadCompactOverlongAt(offset) ==
    LET first == ByteAt(offset)
        second == ByteAt(ReadBytesAt(offset, 1))
    IN  IF first < HIGH THEN [value |-> first, offset |-> ReadBytesAt(offset, 1)]
        ELSE IF second >= HIGH THEN [value |-> 0, offset |-> Bad]
        ELSE [value |-> first - HIGH + second * HIGH, offset |-> ReadBytesAt(offset, 2)]

\* A compact-u16 of one or two bytes; the second must be there and not zero.
ReadCompactAt(offset) ==
    LET first == ByteAt(offset)
        second == ByteAt(ReadBytesAt(offset, 1))
    IN  IF first < HIGH THEN [value |-> first, offset |-> ReadBytesAt(offset, 1)]
        ELSE IF second = 0 \/ second >= HIGH THEN [value |-> 0, offset |-> Bad]
        ELSE [value |-> first - HIGH + second * HIGH, offset |-> ReadBytesAt(offset, 2)]

-----------------------------------------------------------------------------
(* Instructions and lookups, as both try_new and the iterators read them.  *)

LegacyInstructionAt(header_offset) ==
    LET num_accounts == ReadCompactAt(ReadBytesAt(header_offset, 1))
        data_len == ReadCompactAt(ReadBytesAt(num_accounts.offset, num_accounts.value))
    IN  [program_id_index |-> ByteAt(header_offset),
         accounts |-> BytesAt(num_accounts.offset, num_accounts.value),
         data |-> BytesAt(data_len.offset, data_len.value),
         header_offset |-> ReadBytesAt(data_len.offset, data_len.value),
         payload_offset |-> 0]

V1InstructionAt(header_offset, payload_offset) ==
    LET num_accounts == ByteAt(ReadBytesAt(header_offset, 1))
        data_len == LittleEndianAt(ReadBytesAt(header_offset, 2), 2)
        data_offset == ReadBytesAt(payload_offset, num_accounts)
    IN  [program_id_index |-> ByteAt(header_offset),
         accounts |-> BytesAt(payload_offset, num_accounts),
         data |-> BytesAt(data_offset, data_len),
         header_offset |-> ReadBytesAt(header_offset, 4),
         payload_offset |-> ReadBytesAt(data_offset, data_len)]

LookupAt(offset) ==
    LET writable == ReadCompactAt(ReadBytesAt(offset, PUBKEY_BYTES))
        readonly == ReadCompactAt(ReadBytesAt(writable.offset, writable.value))
    IN  [account_key |-> BytesAt(offset, PUBKEY_BYTES),
         writable_indexes |-> BytesAt(writable.offset, writable.value),
         readonly_indexes |-> BytesAt(readonly.offset, readonly.value),
         header_offset |-> ReadBytesAt(readonly.offset, readonly.value),
         payload_offset |-> 0]

\* An instruction of some version, or a lookup.
ItemAt(kind, header_offset, payload_offset) ==
    IF kind = "Lookup" THEN LookupAt(header_offset)
    ELSE IF kind = "V1" THEN V1InstructionAt(header_offset, payload_offset)
    ELSE LegacyInstructionAt(header_offset)

\* The loop over items of one kind: what the n-th turn reads, and where it
\* leaves the cursor.
Loop(kind, header_offset, payload_offset) ==
    LET turn[n \in Nat] ==
            IF n = 0 THEN [header_offset |-> header_offset, payload_offset |-> payload_offset]
            ELSE LET before == turn[n - 1]
                 IN  ItemAt(kind, before.header_offset, before.payload_offset)
    IN  turn

Items(loop, n) == [i \in 1..n |-> loop[i]]

-----------------------------------------------------------------------------
(* The configuration of a V1 transaction: a mask, and the values it names. *)

HasPriorityFee(mask) == mask % 4 = 3
HasBit(mask, bit) == (mask \div bit) % 2 = 1

ConfigMaskMalformed(mask) == mask >= 32 \/ mask % 4 \in {1, 2}

SizeIf(present, size) == IF present THEN size ELSE 0

\* Where try_new_v1 stands after skipping n of the values.
ConfigOffset(offset, mask, n) ==
    LET fee  == ReadBytesAt(offset, SizeIf(HasPriorityFee(mask), U64_BYTES))
        cu   == ReadBytesAt(fee, SizeIf(HasBit(mask, 4), U32_BYTES))
        data == ReadBytesAt(cu, SizeIf(HasBit(mask, 8), U32_BYTES))
        heap == ReadBytesAt(data, SizeIf(HasBit(mask, 16), U32_BYTES))
    IN  <<fee, cu, data, heap>>[n]

OffsetAfterPriorityFee(v) ==
    v.transaction_config_values_offset
        + SizeIf(HasPriorityFee(v.transaction_config_mask), U64_BYTES)
OffsetAfterComputeUnitLimit(v) ==
    OffsetAfterPriorityFee(v) + SizeIf(HasBit(v.transaction_config_mask, 4), U32_BYTES)
OffsetAfterLoadedAccountsDataSize(v) ==
    OffsetAfterComputeUnitLimit(v) + SizeIf(HasBit(v.transaction_config_mask, 8), U32_BYTES)

\* The accessors of SanitizedTransactionConfigView; all NoValue but for V1,
\* whose mask alone can be other than zero.
transaction_config(v) ==
    LET mask == v.transaction_config_mask
        Value(present, offset, width) ==
            IF present THEN LittleEndianAt(offset, width) ELSE NoValue
    IN  [priority_fee |->
            Value(HasPriorityFee(mask), v.transaction_config_values_offset, U64_BYTES),
         compute_unit_limit |->
            Value(HasBit(mask, 4), OffsetAfterPriorityFee(v), U32_BYTES),
         loaded_accounts_data_size_limit |->
            Value(HasBit(mask, 8), OffsetAfterComputeUnitLimit(v), U32_BYTES),
         requested_heap_size |->
            Value(HasBit(mask, 16), OffsetAfterLoadedAccountsDataSize(v), U32_BYTES)]

-----------------------------------------------------------------------------
(* What try_new makes of its input before it judges it: the view, the      *)
(* items it has seen, where the cursor ends, and whether a count read on   *)
(* the way was one that ends it with Parse.                                *)

MinimumBytesMissing(offset, n) == ReadBytesAt(offset, n) = Bad

ViewSignatureFirst ==
    LET num_signatures == ByteAt(0)
        prefix_offset  == ReadBytesAt(1, num_signatures * SIGNATURE_BYTES)
        prefix         == ByteAt(prefix_offset)
        version        == IF prefix < HIGH THEN "Legacy" ELSE "V0"
        header         == IF version = "V0" THEN ReadBytesAt(prefix_offset, 1) ELSE prefix_offset
        num_keys       == ByteAt(ReadBytesAt(header, 3))
        keys           == ReadBytesAt(header, 4)
        blockhash      == ReadBytesAt(keys, num_keys * PUBKEY_BYTES)
        count          == ReadCompactAt(ReadBytesAt(blockhash, BLOCKHASH_BYTES))
        instruction    == Loop(version, count.offset, 0)
        behind         == instruction[count.value].header_offset
        num_lookups    == IF version = "V0" THEN ByteAt(behind) ELSE 0
        first_lookup   == IF version = "V0" THEN ReadBytesAt(behind, 1) ELSE 0
        lookup         == Loop("Lookup", first_lookup, 0)
    IN  [message_version |-> version,
         num_signatures |-> num_signatures,
         signatures_offset |-> 1,
         num_required_signatures |-> ByteAt(header),
         num_readonly_signed_static_accounts |-> ByteAt(ReadBytesAt(header, 1)),
         num_readonly_unsigned_static_accounts |-> ByteAt(ReadBytesAt(header, 2)),
         num_static_account_keys |-> num_keys,
         static_account_keys_offset |-> keys,
         recent_blockhash_offset |-> blockhash,
         num_instructions |-> count.value,
         instructions_offset |-> count.offset,
         instruction_payloads_offset |-> 0,
         num_address_table_lookups |-> num_lookups,
         address_table_lookups_offset |-> first_lookup,
         transaction_config_mask |-> 0,
         transaction_config_values_offset |-> 0,
         instructions |-> Items(instruction, count.value),
         lookups |-> Items(lookup, num_lookups),
         end |-> IF version = "V0" THEN lookup[num_lookups].header_offset ELSE behind,
         malformed |->
            \/ num_signatures \notin 1..MAX_SIGNATURES
            \/ prefix > HIGH
            \/ num_keys \notin 1..MAX_STATIC_ACCOUNTS_PER_PACKET
            \/ MinimumBytesMissing(count.offset, 3 * count.value)
            \/ num_lookups > MAX_ADDRESS_TABLE_LOOKUPS_PER_PACKET
            \/ MinimumBytesMissing(first_lookup, (PUBKEY_BYTES + 3) * num_lookups)]

ViewMessageFirst ==
    LET mask_offset    == ReadBytesAt(0, 4)
        mask           == LittleEndianAt(mask_offset, U32_BYTES)
        blockhash      == ReadBytesAt(mask_offset, U32_BYTES)
        counts         == ReadBytesAt(blockhash, BLOCKHASH_BYTES)
        num_instrs     == ByteAt(counts)
        num_keys       == ByteAt(ReadBytesAt(counts, 1))
        keys           == ReadBytesAt(counts, 2)
        config         == ReadBytesAt(keys, num_keys * PUBKEY_BYTES)
        headers        == ConfigOffset(config, mask, 4)
        payloads       == ReadBytesAt(headers, 4 * num_instrs)
        instruction    == Loop("V1", headers, payloads)
        signatures     == instruction[num_instrs].payload_offset
        num_signatures == ByteAt(1)
    IN  [message_version |-> "V1",
         num_signatures |-> num_signatures,
         signatures_offset |-> signatures,
         num_required_signatures |-> num_signatures,
         num_readonly_signed_static_accounts |-> ByteAt(2),
         num_readonly_unsigned_static_accounts |-> ByteAt(3),
         num_static_account_keys |-> num_keys,
         static_account_keys_offset |-> keys,
         recent_blockhash_offset |-> blockhash,
         num_instructions |-> num_instrs,
         instructions_offset |-> headers,
         instruction_payloads_offset |-> payloads,
         num_address_table_lookups |-> 0,
         address_table_lookups_offset |-> 0,
         transaction_config_mask |-> mask,
         transaction_config_values_offset |-> config,
         instructions |-> Items(instruction, num_instrs),
         lookups |-> <<>>,
         end |-> ReadBytesAt(signatures, num_signatures * SIGNATURE_BYTES),
         malformed |-> ConfigMaskMalformed(mask)]

-----------------------------------------------------------------------------
(* The sanitize rules.                                                     *)

WrappingSub(a, b) == (a - b) % (2 * HIGH)

InvalidHeader(v) ==
    \/ v.num_required_signatures = 0
    \/ v.num_readonly_signed_static_accounts >= v.num_required_signatures
    \/ v.num_readonly_unsigned_static_accounts >
          WrappingSub(v.num_static_account_keys, v.num_required_signatures)

\* Mutant of InvalidSignatures: the header check is trusted to catch this.
InvalidSignatureCountOnly(v) ==
    \/ v.num_signatures # v.num_required_signatures
    \/ v.num_required_signatures > MAX_SIGNATURES

\* One rule per kind: what one kind checks here the other has checked before.
InvalidSignatures(v) ==
    \/ v.num_signatures # v.num_required_signatures
    \/ v.num_required_signatures > MAX_SIGNATURES
    \/ v.num_static_account_keys < v.num_signatures

TotalAccountsOf(v) ==
    Together(v.num_static_account_keys,
             [i \in DOMAIN v.lookups |->
                 Len(v.lookups[i].writable_indexes) + Len(v.lookups[i].readonly_indexes)])

\* Mutant of InvalidAccounts: as many accounts as a byte can name are refused.
InvalidAccountsTooEarly(v) ==
    \/ v.message_version = "V1"
          /\ v.num_static_account_keys \notin 1..MAX_V1_STATIC_ACCOUNTS
    \/ TotalAccountsOf(v) >= MAX_ACCOUNTS
    \/ \E lookup \in ToSet(v.lookups) :
          lookup.writable_indexes = <<>> /\ lookup.readonly_indexes = <<>>

InvalidAccounts(v) ==
    \/ v.message_version = "V1"
          /\ v.num_static_account_keys \notin 1..MAX_V1_STATIC_ACCOUNTS
    \/ TotalAccountsOf(v) > MAX_ACCOUNTS
    \/ \E lookup \in ToSet(v.lookups) :
          lookup.writable_indexes = <<>> /\ lookup.readonly_indexes = <<>>

InvalidInstructions(v) ==
    \/ v.num_instructions > MAX_INSTRUCTIONS
    \/ \E item \in ToSet(v.instructions) :
          \/ item.program_id_index = 0
          \/ item.program_id_index >= v.num_static_account_keys
          \/ Len(item.accounts) >= MAX_ACCOUNTS
          \/ \E index \in ToSet(item.accounts) : index >= TotalAccountsOf(v)

InvalidHeapSize(v) ==
    /\ HasBit(v.transaction_config_mask, 16)
    /\ LET heap_size == LittleEndianAt(
               ConfigOffset(v.transaction_config_values_offset, v.transaction_config_mask, 3),
               U32_BYTES)
       IN  heap_size \notin MIN_V1_HEAP_SIZE..MAX_V1_HEAP_SIZE \/ heap_size % HEAP_UNIT # 0

Verdict(v) ==
    IF v.malformed \/ v.end # Len(bytes) THEN "Parse"
    ELSE IF \/ InvalidHeader(v) \/ InvalidSignatures(v) \/ InvalidAccounts(v)
            \/ InvalidInstructions(v) \/ InvalidHeapSize(v)
    THEN "Sanitize"
    ELSE "Ok"

-----------------------------------------------------------------------------

NoIterator == [state |-> "none", remaining |-> 0, header_offset |-> 0, payload_offset |-> 0]

ViewInit ==
    /\ \E input \in Inputs : source = input.source /\ bytes = input.bytes
    /\ verdict = "Unread"
    /\ view = NoIterator
    /\ instructions = NoIterator /\ lookups = NoIterator
    /\ read_instructions = <<>> /\ read_lookups = <<>>

\* try_new returns with an error before it reads, or with what it has read.
Refuse(error) == verdict' = error /\ view' = view

Judge(v) ==
    /\ verdict' = Verdict(v)
    /\ view' = IF Verdict(v) = "Ok" THEN v ELSE view

TryNew ==
    /\ verdict = "Unread"
    /\ IF bytes = <<>> THEN Refuse("Parse")
       ELSE IF bytes[1] = V1_PREFIX
       THEN IF validate_raw_size("V1", Len(bytes))
            THEN Judge(ViewMessageFirst) ELSE Refuse("Sanitize")
       ELSE IF bytes[1] >= HIGH THEN Refuse("UnsupportedVersion")
       ELSE IF validate_raw_size("Legacy", Len(bytes))
       THEN Judge(ViewSignatureFirst) ELSE Refuse("Sanitize")
    /\ UNCHANGED <<bytes, source, iterators>>

InstructionsIter ==
    /\ verdict = "Ok"
    /\ instructions.state = "none"
    /\ instructions' =
          [state |-> "open", remaining |-> view.num_instructions,
           header_offset |-> view.instructions_offset,
           payload_offset |-> view.instruction_payloads_offset]
    /\ UNCHANGED <<bytes, source, verdict, view, lookups, read_instructions, read_lookups>>

\* Mutant of IsExhausted: an iterator goes on as long as it can read.
IsExhaustedByBytes(iterator, next_offsets) == Bad \in next_offsets

\* next() returns None.
IsExhausted(iterator, next_offsets) == iterator.remaining = 0 \/ Bad \in next_offsets

NextInstruction ==
    LET item == ItemAt(view.message_version, instructions.header_offset,
                       instructions.payload_offset)
    IN  /\ instructions.state = "open"
        /\ IF IsExhausted(instructions, {item.header_offset, item.payload_offset})
           THEN /\ instructions' = [instructions EXCEPT !.state = "ended"]
                /\ UNCHANGED read_instructions
           ELSE /\ instructions' =
                      [state |-> "open", remaining |-> instructions.remaining - 1,
                       header_offset |-> item.header_offset,
                       payload_offset |-> item.payload_offset]
                /\ read_instructions' = Append(read_instructions,
                      [program_id_index |-> item.program_id_index,
                       accounts |-> item.accounts, data |-> item.data])
        /\ UNCHANGED <<bytes, source, verdict, view, lookups, read_lookups>>

AddressTableLookupIter ==
    /\ verdict = "Ok"
    /\ lookups.state = "none"
    /\ lookups' =
          [state |-> "open", remaining |-> view.num_address_table_lookups,
           header_offset |-> view.address_table_lookups_offset, payload_offset |-> 0]
    /\ UNCHANGED <<bytes, source, verdict, view, instructions, read_instructions, read_lookups>>

NextLookup ==
    LET item == ItemAt("Lookup", lookups.header_offset, lookups.payload_offset)
    IN  /\ lookups.state = "open"
        /\ IF IsExhausted(lookups, {item.header_offset, item.payload_offset})
           THEN /\ lookups' = [lookups EXCEPT !.state = "ended"]
                /\ UNCHANGED read_lookups
           ELSE /\ lookups' = [lookups EXCEPT !.remaining = @ - 1,
                                              !.header_offset = item.header_offset]
                /\ read_lookups' = Append(read_lookups,
                      [account_key |-> item.account_key,
                       writable_indexes |-> item.writable_indexes,
                       readonly_indexes |-> item.readonly_indexes])
        /\ UNCHANGED <<bytes, source, verdict, view, instructions, read_instructions>>

ViewNext ==
    \/ TryNew
    \/ InstructionsIter
    \/ NextInstruction
    \/ AddressTableLookupIter
    \/ NextLookup

ViewSpec == ViewInit /\ [][ViewNext]_view_vars

-----------------------------------------------------------------------------

ViewTypeOK ==
    /\ bytes \in Seq(Byte)
    /\ verdict \in {"Unread", "Ok", "Parse", "Sanitize", "UnsupportedVersion"}
    /\ \A iterator \in {instructions, lookups} :
          /\ iterator.state \in {"none", "open", "ended"}
          /\ iterator.remaining \in Nat
          /\ iterator.header_offset \in 0..Len(bytes)
          /\ iterator.payload_offset \in 0..Len(bytes)

\* What a view hands out of its input: the header, signatures, keys, blockhash
\* and configuration through its accessors, instructions and lookups through
\* its iterators read to their ends.  The accessors of counts add nothing: the
\* number of each kind of item is the length of what is handed out.
Reading ==
    [message_version |-> view.message_version,
     signatures |-> ArraySlice(view.signatures_offset, view.num_signatures, SIGNATURE_BYTES),
     num_required_signatures |-> view.num_required_signatures,
     num_readonly_signed_static_accounts |-> view.num_readonly_signed_static_accounts,
     num_readonly_unsigned_static_accounts |-> view.num_readonly_unsigned_static_accounts,
     static_account_keys |-> ArraySlice(view.static_account_keys_offset,
                                        view.num_static_account_keys, PUBKEY_BYTES),
     recent_blockhash |-> BytesAt(view.recent_blockhash_offset, BLOCKHASH_BYTES),
     instructions |-> read_instructions,
     lookups |-> read_lookups,
     config |-> transaction_config(view)]

ReadToTheEnd == instructions.state = "ended" /\ lookups.state = "ended"

\* What an accepted input hands out, written again, is the input to the last
\* byte: the offsets kept by try_new are the ones the iterators and accessors
\* need, no iterator ends early, no byte belongs to two parts or to none, and
\* no two inputs mean the same transaction.
ReadingIsFaithful == ReadToTheEnd => Serialize(Reading) = bytes

\* An accepted transaction is sane by the numbers of its parts, although the
\* code counts in wrapping and saturating bytes.
AcceptedIsSane == ReadToTheEnd => Sane(Reading)

\* A sane transaction of legal size is accepted as it was written.
SaneIsAccepted ==
    /\ verdict # "Unread"
    /\ Sane(source) /\ bytes = Serialize(source)
    /\ validate_raw_size(source.message_version, Len(bytes))
    => verdict = "Ok"

\* What classify() says of raw bytes at admission is what the parser finds,
\* and the parser accepts nothing beyond the limit of its version.
ClassifyAgrees ==
    verdict = "Ok" =>
        /\ classify(bytes) = view.message_version
        /\ validate_raw_size(view.message_version, Len(bytes))
=============================================================================

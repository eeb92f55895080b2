-------------------------- MODULE TransactionFormat --------------------------
(***************************************************************************)
(* The reference for TransactionView: what a transaction is, which are     *)
(* sane, and how one is written.  It is stated in terms of the parts of a  *)
(* transaction and of their numbers, without offsets, wrapping or          *)
(* saturation.  The format itself is external: transaction.rs pins it to   *)
(* agave-transaction-view 4.2.1.                                           *)
(***************************************************************************)
EXTENDS WireLimits, SequencesExt

CONSTANTS
    PUBKEY_BYTES,
    BLOCKHASH_BYTES,
    U32_BYTES, U64_BYTES,
    MAX_STATIC_ACCOUNTS_PER_PACKET,
    MAX_V1_STATIC_ACCOUNTS,
    MAX_ADDRESS_TABLE_LOOKUPS_PER_PACKET,
    MAX_INSTRUCTIONS,
    MIN_V1_HEAP_SIZE, MAX_V1_HEAP_SIZE, HEAP_UNIT,
    NoValue         \* an absent configuration value

ASSUME FormatAssumption ==
    /\ {PUBKEY_BYTES, BLOCKHASH_BYTES, U32_BYTES, U64_BYTES} \subseteq Nat \ {0}
    /\ {MAX_STATIC_ACCOUNTS_PER_PACKET, MAX_V1_STATIC_ACCOUNTS,
        MAX_ADDRESS_TABLE_LOOKUPS_PER_PACKET, MAX_INSTRUCTIONS} \subseteq Nat
    /\ {MIN_V1_HEAP_SIZE, MAX_V1_HEAP_SIZE, HEAP_UNIT} \subseteq Nat \ {0}
    /\ U32_BYTES > 2   \* five bits of a mask fit
    /\ NoValue \notin Nat

\* A byte holds an account index, so this many accounts can be told apart.
MAX_ACCOUNTS == 2 * HIGH

Compact(n) == IF n < HIGH THEN <<n>> ELSE <<HIGH + (n % HIGH), n \div HIGH>>

\* What is left of a number without its lowest bytes, as many as the index.
Shifted(n) ==
    LET rest[i \in Nat] == IF i = 0 THEN n ELSE rest[i - 1] \div (2 * HIGH)
    IN  rest

FitsIn(n, width) == Shifted(n)[width] = 0

LittleEndianBytes(n, width) == [i \in 1..width |-> Shifted(n)[i - 1] % (2 * HIGH)]

Vector(s) == Compact(Len(s)) \o s

Concat(Write(_), s) == FlattenSeq([i \in DOMAIN s |-> Write(s[i])])

-----------------------------------------------------------------------------

\* Sequences whose length is written compactly in two bytes.  Three would be
\* for lengths that exceed every transaction.
CompactSeq(S) == {s \in Seq(S) : Len(s) < HIGH * HIGH}

Array(width) == [1..width -> Byte]
Optional(width) == {NoValue} \cup {n \in Nat : FitsIn(n, width)}

NoConfig == [priority_fee |-> NoValue, compute_unit_limit |-> NoValue,
             loaded_accounts_data_size_limit |-> NoValue, requested_heap_size |-> NoValue]

\* Lookups are of V0 and configurations of V1.
WireTransactions ==
    {tx \in [message_version : WireVersions,
             signatures : Seq(Array(SIGNATURE_BYTES)),
             num_required_signatures : Byte,
             num_readonly_signed_static_accounts : Byte,
             num_readonly_unsigned_static_accounts : Byte,
             static_account_keys : Seq(Array(PUBKEY_BYTES)),
             recent_blockhash : Array(BLOCKHASH_BYTES),
             instructions : CompactSeq([program_id_index : Byte, accounts : CompactSeq(Byte),
                                        data : CompactSeq(Byte)]),
             lookups : Seq([account_key : Array(PUBKEY_BYTES),
                            writable_indexes : CompactSeq(Byte),
                            readonly_indexes : CompactSeq(Byte)]),
             config : [priority_fee : Optional(U64_BYTES),
                       compute_unit_limit : Optional(U32_BYTES),
                       loaded_accounts_data_size_limit : Optional(U32_BYTES),
                       requested_heap_size : Optional(U32_BYTES)]] :
        /\ tx.message_version # "V0" => tx.lookups = <<>>
        /\ tx.message_version # "V1" => tx.config = NoConfig}

HeaderBytes(tx) ==
    <<tx.num_required_signatures, tx.num_readonly_signed_static_accounts,
      tx.num_readonly_unsigned_static_accounts>>

InstructionBytes(ix) == <<ix.program_id_index>> \o Vector(ix.accounts) \o Vector(ix.data)
LookupBytes(lookup) ==
    lookup.account_key \o Vector(lookup.writable_indexes) \o Vector(lookup.readonly_indexes)

\* Legacy and V0: signatures first.
SignatureFirstBytes(tx) ==
    <<Len(tx.signatures)>> \o FlattenSeq(tx.signatures)
    \o (IF tx.message_version = "V0" THEN <<HIGH>> ELSE <<>>)
    \o HeaderBytes(tx)
    \o <<Len(tx.static_account_keys)>> \o FlattenSeq(tx.static_account_keys)
    \o tx.recent_blockhash
    \o Compact(Len(tx.instructions)) \o Concat(InstructionBytes, tx.instructions)
    \o (IF tx.message_version = "V0"
        THEN <<Len(tx.lookups)>> \o Concat(LookupBytes, tx.lookups) ELSE <<>>)

\* The fields of a configuration in the order of the bits of its mask; two
\* bits stand for the first.
ConfigMask(config) ==
      (IF config.priority_fee = NoValue THEN 0 ELSE 3)
    + (IF config.compute_unit_limit = NoValue THEN 0 ELSE 4)
    + (IF config.loaded_accounts_data_size_limit = NoValue THEN 0 ELSE 8)
    + (IF config.requested_heap_size = NoValue THEN 0 ELSE 16)

ConfigBytes(config) ==
    LET Value(v, width) == IF v = NoValue THEN <<>> ELSE LittleEndianBytes(v, width)
    IN  Value(config.priority_fee, U64_BYTES)
        \o Value(config.compute_unit_limit, U32_BYTES)
        \o Value(config.loaded_accounts_data_size_limit, U32_BYTES)
        \o Value(config.requested_heap_size, U32_BYTES)

V1HeaderBytes(ix) ==
    <<ix.program_id_index, Len(ix.accounts)>> \o LittleEndianBytes(Len(ix.data), 2)
V1PayloadBytes(ix) == ix.accounts \o ix.data

\* V1: the message first, instruction headers apart from their payloads.
MessageFirstBytes(tx) ==
    <<V1_PREFIX>> \o HeaderBytes(tx)
    \o LittleEndianBytes(ConfigMask(tx.config), U32_BYTES)
    \o tx.recent_blockhash
    \o <<Len(tx.instructions), Len(tx.static_account_keys)>>
    \o FlattenSeq(tx.static_account_keys)
    \o ConfigBytes(tx.config)
    \o Concat(V1HeaderBytes, tx.instructions) \o Concat(V1PayloadBytes, tx.instructions)
    \o FlattenSeq(tx.signatures)

Serialize(tx) ==
    IF tx.message_version = "V1" THEN MessageFirstBytes(tx) ELSE SignatureFirstBytes(tx)

-----------------------------------------------------------------------------

\* A number of accounts and those that lookups add to it.
Together(n, loaded) ==
    LET total[i \in Nat] ==   \* with the first i of them
            IF i \in DOMAIN loaded THEN loaded[i] + total[i - 1] ELSE n
    IN  total[Len(loaded)]

TotalAccounts(tx) ==
    Together(Len(tx.static_account_keys),
             [i \in DOMAIN tx.lookups |->
                 Len(tx.lookups[i].writable_indexes) + Len(tx.lookups[i].readonly_indexes)])

SaneSigners(tx) ==
    /\ tx.num_required_signatures \in 1..MAX_SIGNATURES
    /\ Len(tx.signatures) = tx.num_required_signatures
    /\ tx.num_readonly_signed_static_accounts < tx.num_required_signatures
    /\ tx.num_required_signatures + tx.num_readonly_unsigned_static_accounts
          <= Len(tx.static_account_keys)

SaneAccounts(tx) ==
    /\ Len(tx.static_account_keys) <=
          IF tx.message_version = "V1" THEN MAX_V1_STATIC_ACCOUNTS
          ELSE MAX_STATIC_ACCOUNTS_PER_PACKET
    /\ Len(tx.lookups) <= MAX_ADDRESS_TABLE_LOOKUPS_PER_PACKET
    /\ \A i \in DOMAIN tx.lookups :
          tx.lookups[i].writable_indexes \o tx.lookups[i].readonly_indexes # <<>>
    /\ TotalAccounts(tx) <= MAX_ACCOUNTS

SaneInstructions(tx) ==
    /\ Len(tx.instructions) <= MAX_INSTRUCTIONS
    /\ \A i \in DOMAIN tx.instructions :
          LET ix == tx.instructions[i]
          IN  /\ ix.program_id_index \in 1..(Len(tx.static_account_keys) - 1)
              /\ Len(ix.accounts) < MAX_ACCOUNTS
              /\ \A j \in DOMAIN ix.accounts : ix.accounts[j] < TotalAccounts(tx)

SaneHeap(tx) ==
    tx.config.requested_heap_size # NoValue =>
        \E n \in 1..MAX_V1_HEAP_SIZE :
            tx.config.requested_heap_size = n * HEAP_UNIT
            /\ n * HEAP_UNIT \in MIN_V1_HEAP_SIZE..MAX_V1_HEAP_SIZE

Sane(tx) == SaneSigners(tx) /\ SaneAccounts(tx) /\ SaneInstructions(tx) /\ SaneHeap(tx)
=============================================================================

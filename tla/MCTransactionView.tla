-------------------------- MODULE MCTransactionView --------------------------
(* Transactions around a good one of each version, one group of parts at a *)
(* time taking all its small values; the bytes of one sample per version   *)
(* are also cut off, extended, and changed one at a time.                  *)
EXTENDS TransactionView

Blobs(n, width, byte) == [i \in 1..n |-> [j \in 1..width |-> byte]]

Instruction(program, accounts, data) ==
    [program_id_index |-> program, accounts |-> accounts, data |-> data]

Lookup(writable, readonly) ==
    [account_key |-> [j \in 1..PUBKEY_BYTES |-> 6],
     writable_indexes |-> [j \in 1..writable |-> 2], readonly_indexes |-> [j \in 1..readonly |-> 4]]

Good(version) ==
    [message_version |-> version,
     signatures |-> Blobs(1, SIGNATURE_BYTES, 7),
     num_required_signatures |-> 1,
     num_readonly_signed_static_accounts |-> 0,
     num_readonly_unsigned_static_accounts |-> 1,
     static_account_keys |-> Blobs(2, PUBKEY_BYTES, 5),
     recent_blockhash |-> Blobs(1, BLOCKHASH_BYTES, 3)[1],
     instructions |-> <<Instruction(1, <<0, 1>>, <<6>>)>>,
     lookups |-> IF version = "V0" THEN <<Lookup(1, 1)>> ELSE <<>>,
     config |-> NoConfig]

GoodConfig == [priority_fee |-> 9, compute_unit_limit |-> 70,
               loaded_accounts_data_size_limit |-> 3, requested_heap_size |-> 4]

Headers ==
    {[Good(version) EXCEPT !.num_required_signatures = required,
                           !.signatures = Blobs(IF version = "V1" THEN required ELSE n,
                                                SIGNATURE_BYTES, 7),
                           !.num_readonly_signed_static_accounts = signed,
                           !.num_readonly_unsigned_static_accounts = unsigned,
                           !.static_account_keys = Blobs(keys, PUBKEY_BYTES, 5),
                           !.instructions = SubSeq(@, 1, length)] :
        version \in WireVersions, length \in 0..1, n \in 1..3, required, signed \in 0..3,
        unsigned \in {0, 1, 2, 2 * HIGH - 1}, keys \in 0..3}

Instructions ==
    {[Good(version) EXCEPT !.instructions =
            <<Instruction(program, [i \in 1..n |-> index], [i \in 1..length |-> 6])>>] :
        version \in WireVersions, program \in 0..2, n \in {0, 1, MAX_ACCOUNTS - 1},
        index \in 0..4, length \in {0, HIGH}}
    \cup {[Good(version) EXCEPT !.instructions = [i \in 1..n |-> Instruction(1, <<0>>, <<i>>)]] :
        version \in WireVersions, n \in 0..HIGH}

Lookups ==
    {[Good("V0") EXCEPT !.lookups = SubSeq(<<Lookup(w1, r1), Lookup(w2, r2), Lookup(1, 0)>>, 1, n),
                        !.static_account_keys = Blobs(keys, PUBKEY_BYTES, 5)] :
        n \in 0..3, w1 \in {0, 1, HIGH, HIGH + 1}, r1, w2, r2 \in 0..2, keys \in 2..3}

Configs ==
    {[Good("V1") EXCEPT !.config = [priority_fee |-> fee, compute_unit_limit |-> limit,
                                    loaded_accounts_data_size_limit |-> size,
                                    requested_heap_size |-> heap]] :
        fee \in {NoValue, 9}, limit \in {NoValue, 70}, size \in {NoValue, 3}, heap \in {NoValue} \cup 1..9}

Damaged ==
    {Good(version) : version \in WireVersions}
    \cup {[Good(version) EXCEPT !.instructions =
                <<Instruction(1, <<1>>, <<>>), Instruction(1, <<>>, [i \in 1..(HIGH + 1) |-> i])>>] :
             version \in WireVersions}
    \cup {[Good("V1") EXCEPT !.config = GoodConfig],
          [Good("V0") EXCEPT !.lookups = <<Lookup(0, 1), Lookup(HIGH, 0)>>]}

Samples == Headers \cup Instructions \cup Lookups \cup Configs \cup Damaged

DamagedBytes(written) ==
    {SubSeq(written, 1, n) : n \in 0..Len(written)}
    \cup {Append(written, b) : b \in Byte}
    \cup {[written EXCEPT ![i] = b] : i \in DOMAIN written, b \in Byte}
    \cup {InsertAt([written EXCEPT ![i] = HIGH + b], i + 1, c) :
             i \in DOMAIN written, b \in 0..1, c \in 0..1}

MCInputs ==
    {[source |-> tx, bytes |-> Serialize(tx)] : tx \in Samples}
    \cup UNION {{[source |-> tx, bytes |-> b] : b \in DamagedBytes(Serialize(tx))} : tx \in Damaged}
=============================================================================

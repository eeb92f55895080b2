---------------------------- MODULE MCFrameCodec ----------------------------
(* Metadata in which one group of fields at a time takes all its small     *)
(* values, and transactions of every version around a word boundary.       *)
EXTENDS FrameCodec

Good ==
    [message_version |-> "V0", earliest_source |-> 5, flags |-> {"NATURAL_READY"},
     producer_epoch |-> 1, canonical_sequence |-> 2, slot |-> 3, prefix_generation |-> 4,
     contributing_source_mask |-> 6,
     first_data_shred_index |-> 1, last_data_shred_index |-> 2,
     data_set_starting_shred_index |-> 0,
     completed_data_set_ending_shred_index_exclusive |-> 0,
     entry_ordinal |-> 7, transaction_ordinal |-> 8,
     first_shred_receive_ns |-> 1, transaction_complete_ns |-> 2,
     lut_resolution_complete_ns |-> 3, publication_start_ns |-> 4]

MCMetadata ==
    {[Good EXCEPT !.message_version = v] : v \in MessageVersions}
    \cup {[Good EXCEPT !.flags = f] :
             f \in SUBSET {"NATURAL_READY", "FEC_RECOVERED", "DATA_SET_END_VALID"}}
    \cup {[Good EXCEPT !.flags = @ \cup {"DATA_SET_START_VALID"} \cup f,
                       !.data_set_starting_shred_index = s,
                       !.completed_data_set_ending_shred_index_exclusive = e] :
             f \in SUBSET {"DATA_SET_END_VALID"}, s \in 0..2, e \in 0..3}
    \cup {[Good EXCEPT !.producer_epoch = a, !.canonical_sequence = b] : a, b \in 0..1}
    \cup {[Good EXCEPT !.transaction_complete_ns = a, !.lut_resolution_complete_ns = b] :
             a, b \in 0..4}

MCTransactions ==
    {[length |-> n, message_version |-> v, writable |-> w, readonly |-> r, sanitized |-> TRUE] :
        n \in {1, 4, 5}, v \in {"V0"}, w \in 0..1, r \in 0..1}
    \cup {[length |-> 3, message_version |-> v, writable |-> 0, readonly |-> 0, sanitized |-> s] :
             v \in MessageVersions, s \in BOOLEAN}
=============================================================================

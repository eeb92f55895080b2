--------------------------- MODULE TransportConfig ---------------------------
(***************************************************************************)
(* How a client comes to be (client crate, lib.rs): TransportConfig, the   *)
(* checks of FastpathClient::connect, and what the cap on decoded messages *)
(* means for the messages of the contract (proto/fastpath.proto).          *)
(*                                                                         *)
(* Sizes are the real ones, in bytes.  Durations only matter by being zero *)
(* or not.  How long a protobuf message is and who compares it with the    *)
(* cap is the business of prost and tonic, and external.                   *)
(***************************************************************************)
EXTENDS Naturals

Configs ==
    [connect_timeout : Nat, subscribe_timeout : Nat, http2_keepalive : Nat,
     keepalive_timeout : Nat, tcp_keepalive : Nat, max_message_bytes : Nat,
     http2_adaptive_window : BOOLEAN,
     initial_stream_window_size : Nat, initial_connection_window_size : Nat]

\* TransportConfig::default, durations in seconds
Default ==
    [connect_timeout |-> 10, subscribe_timeout |-> 10, http2_keepalive |-> 30,
     keepalive_timeout |-> 10, tcp_keepalive |-> 30, max_message_bytes |-> 16 * 1024,
     http2_adaptive_window |-> TRUE,
     initial_stream_window_size |-> 32 * 1024 * 1024,
     initial_connection_window_size |-> 32 * 1024 * 1024]

MAX_WINDOW_SIZE == 2147483647

\* Mutant of InvalidConfig: the cap is compared with the bare frame, without
\* the tag and length of the field that carries it.
InvalidConfigForBareFrame(config) ==
    \/ config.max_message_bytes < 12288 \/ config.max_message_bytes > 512 * 1024
    \/ 0 \in {config.connect_timeout, config.subscribe_timeout, config.http2_keepalive,
              config.keepalive_timeout, config.tcp_keepalive}
    \/ config.initial_stream_window_size \notin 1..MAX_WINDOW_SIZE
    \/ config.initial_connection_window_size \notin 1..MAX_WINDOW_SIZE

InvalidConfig(config) ==
    \/ config.max_message_bytes < 12300 \/ config.max_message_bytes > 512 * 1024
    \/ 0 \in {config.connect_timeout, config.subscribe_timeout, config.http2_keepalive,
              config.keepalive_timeout, config.tcp_keepalive}
    \/ config.initial_stream_window_size \notin 1..MAX_WINDOW_SIZE
    \/ config.initial_connection_window_size \notin 1..MAX_WINDOW_SIZE

\* What can be wrong with an endpoint, or with the way to it.
Endpoints == {"NotHttps", "Malformed", "Unreachable", "Reachable"}

\* connect() in the order of its early returns.
ConnectError(endpoint, config) ==
    IF endpoint = "NotHttps" THEN "InvalidEndpoint"
    ELSE IF InvalidConfig(config) THEN "InvalidConfig"
    ELSE IF endpoint = "Malformed" THEN "InvalidEndpoint"
    ELSE IF endpoint = "Unreachable" THEN "Transport"
    ELSE "Ok"

-----------------------------------------------------------------------------
(* External: the length of a message, for fields numbered below 16 and     *)
(* messages below 2^21 bytes.                                              *)

VarintLength(n) == IF n < 128 THEN 1 ELSE IF n < 16384 THEN 2 ELSE 3

\* A field of n bytes: its tag, its length and itself.
FieldLength(n) == 1 + VarintLength(n) + n

\* canonical_v1, in ResolvedTransactionFrame and in TransactionFrame alike
CanonicalMessageLength(frame) == FieldLength(frame)

\* The longest unresolved message: three u64 of at most ten bytes with their
\* tags, the transaction and the reason.
UnresolvedMessageLength(transaction, reason) ==
    FieldLength(33 + FieldLength(transaction) + FieldLength(reason))

\* The longest request of so many rules with so many keys of 32 bytes each:
\* a vote, and a field for every key.
RequestLength(rules, keys) == rules * FieldLength(2 + keys * FieldLength(32))

\* max_encoding_message_size, set by from_channel()
MAX_REQUEST_BYTES == 512 * 1024

\* max_decoding_message_size, set by from_channel(): a longer message ends
\* the stream with this status before it is decoded.
Refused(config, length) == length > config.max_message_bytes
RefusedStatus == "OutOfRange"
=============================================================================

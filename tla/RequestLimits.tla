---------------------------- MODULE RequestLimits ----------------------------
(***************************************************************************)
(* How long the text of a transaction and a request of several may be      *)
(* (protocol crate, wire.rs).  The limits of the texts are a table of      *)
(* numbers in the code; what they should be follows from the encodings,    *)
(* and ProtocolProofs compares the two.                                    *)
(***************************************************************************)
EXTENDS WireLimits

CONSTANT MAX_USIZE   \* usize::MAX

TransactionFormats == {"Raw", "Base64", "Base58"}

raw_size_bucket(actual) ==
    IF actual <= LEGACY_V0_RAW_LIMIT THEN "LegacyLimit"
    ELSE IF actual <= V1_RAW_LIMIT THEN "V1Extended"
    ELSE "Oversize"

encoded_limit(version, format) ==
    CASE format = "Raw"    -> IF version = "V1" THEN V1_RAW_LIMIT ELSE LEGACY_V0_RAW_LIMIT
      [] format = "Base64" -> IF version = "V1" THEN 5464 ELSE 1644
      [] format = "Base58" -> IF version = "V1" THEN 5594 ELSE 1683

\* External: the longest text of n bytes.  Base64 makes four characters of
\* three bytes, the last group filled up.  Base58 writes a number in base 58,
\* and 58^13657 is the first power that 256^10000 does not exceed.
TextLength(format, n) ==
    CASE format = "Raw"    -> n
      [] format = "Base64" -> 4 * ((n + 2) \div 3)
      [] format = "Base58" -> (13657 * n + 9999) \div 10000

\* The limit, or a RequestLimitError.
request_limit(version, format, bundle_count, fixed_overhead) ==
    LET payload_bytes == encoded_limit(version, format) * bundle_count
    IN  IF bundle_count = 0 THEN "EmptyBundle"
        ELSE IF payload_bytes > MAX_USIZE THEN "Overflow"
        ELSE IF payload_bytes + fixed_overhead > MAX_USIZE THEN "Overflow"
        ELSE payload_bytes + fixed_overhead
=============================================================================

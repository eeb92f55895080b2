----------------------- MODULE MCSubscribeTransactions -----------------------
(* SubscribeTransactions with one account, transactions that touch it with *)
(* a static or a loaded key or not at all, the longest messages of both    *)
(* kinds, and settings on both sides of what connect() checks.             *)
EXTENDS SubscribeTransactions

MCTraffic ==
    {[vote |-> FALSE, static |-> Keys, loaded |-> {}, resolved |-> TRUE,
      reason |-> "none", length |-> 300],
     [vote |-> FALSE, static |-> {}, loaded |-> {}, resolved |-> TRUE,
      reason |-> "none", length |-> CanonicalMessageLength(12288)],
     [vote |-> FALSE, static |-> Keys, loaded |-> {}, resolved |-> FALSE,
      reason |-> "missing", length |-> UnresolvedMessageLength(4096, MaxReasonBytes)],
     [vote |-> FALSE, static |-> {}, loaded |-> Keys, resolved |-> FALSE,
      reason |-> "none", length |-> 300]}

MCSettings ==
    {[Default EXCEPT !.max_message_bytes = 12300],
     [Default EXCEPT !.max_message_bytes = 12290]}
=============================================================================

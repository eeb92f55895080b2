--------------------------- MODULE ResettingFeed ---------------------------
(***************************************************************************)
(* What the reconnecting stream promises its consumer: a log of events in  *)
(* which every attachment opens with a StreamReset, numbered from one      *)
(* without gaps, and in which the transactions between two resets form one *)
(* ordered feed.  A consumer that reconciles at each reset therefore       *)
(* misses nothing silently.  An error is the last event there ever is.     *)
(***************************************************************************)
EXTENDS Naturals, Sequences

CONSTANTS
    Transactions,   \* records with the fields epoch and sequence
    Errors          \* the errors that can end the log

VARIABLES
    mode,         \* "MatchAll" or "Filtered", fixed by the filter
    attachment,   \* the number of the current attachment, 0 before the first
    log,          \* the events handed over so far, in order
    closed        \* an error has ended the log

vars == <<mode, attachment, log, closed>>

StreamReset(n) == [kind |-> "StreamReset", attachment |-> n]
Transaction(tx) == [kind |-> "Transaction", tx |-> tx]
Failure(error) == [kind |-> "Error", error |-> error]

Init ==
    /\ mode \in {"MatchAll", "Filtered"}
    /\ attachment = 0
    /\ log = <<>>
    /\ closed = FALSE

\* tx may be the next event after last.
MayFollow(last, tx) ==
    \/ last.kind = "StreamReset"
    \/ /\ last.kind = "Transaction"
       /\ tx.epoch = last.tx.epoch
       /\ \/ mode = "MatchAll" /\ tx.sequence = last.tx.sequence + 1
          \/ mode = "Filtered" /\ tx.sequence > last.tx.sequence

Reset ==
    /\ ~closed
    /\ attachment' = attachment + 1
    /\ log' = Append(log, StreamReset(attachment'))
    /\ UNCHANGED <<mode, closed>>

Deliver(tx) ==
    /\ ~closed
    /\ log # <<>>
    /\ MayFollow(log[Len(log)], tx)
    /\ log' = Append(log, Transaction(tx))
    /\ UNCHANGED <<mode, attachment, closed>>

Fail(error) ==
    /\ ~closed
    /\ closed' = TRUE
    /\ log' = Append(log, Failure(error))
    /\ UNCHANGED <<mode, attachment>>

Next ==
    \/ Reset
    \/ \E tx \in Transactions : Deliver(tx)
    \/ \E error \in Errors : Fail(error)

Spec == Init /\ [][Next]_vars
=============================================================================

---------------------------- MODULE OrderedFeed ----------------------------
(***************************************************************************)
(* What one attachment promises its consumer, with no validator, frame or  *)
(* future in sight: a feed of transactions of one producer epoch, gapless  *)
(* under match-all and strictly increasing under a filter, that may close  *)
(* at any time and never grows again once it has closed.                   *)
(***************************************************************************)
EXTENDS Naturals, Sequences

CONSTANT Transactions   \* records with the fields epoch and sequence

VARIABLES
    mode,     \* "MatchAll" or "Filtered", fixed when the feed is opened
    feed,     \* the transactions handed over so far, in order
    closed    \* the feed has ended, for whatever reason

vars == <<mode, feed, closed>>

Init ==
    /\ mode \in {"MatchAll", "Filtered"}
    /\ feed = <<>>
    /\ closed = FALSE

\* tx may directly follow last.
Follows(last, tx) ==
    /\ tx.epoch = last.epoch
    /\ \/ mode = "MatchAll" /\ tx.sequence = last.sequence + 1
       \/ mode = "Filtered" /\ tx.sequence > last.sequence

Deliver(tx) ==
    /\ ~closed
    /\ feed # <<>> => Follows(feed[Len(feed)], tx)
    /\ feed' = Append(feed, tx)
    /\ UNCHANGED <<mode, closed>>

Close ==
    /\ ~closed
    /\ closed' = TRUE
    /\ UNCHANGED <<mode, feed>>

Next == Close \/ \E tx \in Transactions : Deliver(tx)

Spec == Init /\ [][Next]_vars
=============================================================================

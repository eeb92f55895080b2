---------------------------- MODULE LiveSession ----------------------------
(***************************************************************************)
(* A whole session: a producer, its server, the connection and the         *)
(* reconnecting client.  ReconnectingStream alone lets the server send     *)
(* anything; here the server is a correct one, so that what reaches the    *)
(* consumer can be compared with what was published.                       *)
(*                                                                         *)
(* Producer and server are external to the repository.  They are modelled  *)
(* from what the client relies on (README.md, "Semantics"): sequences are  *)
(* contiguous within an epoch, a subscription starts live, a restart of    *)
(* the producer begins a new epoch and ends every subscription, and the    *)
(* filter decides which transactions are left out.  The connection is      *)
(* ordered, as HTTP/2 streams are, and may break off at any point.         *)
(***************************************************************************)
EXTENDS CanonicalStreamValidator, SequencesExt

CONSTANTS
    Codes, initial_delay, maximum_delay, maximum_attempts, MaxU32,
    MaxAttachments, MaxOutage,
    Keys, Malformed, Unset, MaxRules, MaxKeys, MaxList,
    Traffic,        \* the transactions that occur, as the filter sees them
    Filters,        \* the filters a session may be opened with
    MaxPublished    \* bound: transactions published

\* The settings of the client, as ReconnectingStream assumes them.
ASSUME ClientAssumption ==
    /\ initial_delay \in Nat \ {0}
    /\ maximum_delay \in Nat /\ maximum_delay >= initial_delay
    /\ maximum_attempts \in Nat \ {0}
    /\ MaxU32 \in Nat \ {0}
    /\ MaxAttachments \in Nat
    /\ MaxOutage \in Nat /\ MaxOutage > maximum_attempts

VARIABLES
    \* The client, as in ReconnectingStream.
    validator, failed, awaiting, returned, delivered,
    attached, mode, attachment, terminal, retry, attempt, events,
    outage, dropped, backoff,
    filters,         \* the rules of ReconnectingStream.filter
    \* The producer and its server.
    producer_epoch,  \* the epoch of the running producer
    published,       \* every transaction published, over all epochs
    open,            \* the server holds a subscription of this client
    live_from,       \* the length of published when it was opened
    \* The connection.
    wire,            \* transactions on their way to the client
    ending           \* how the subscription ended, seen after wire

client == <<validator, failed, awaiting, returned, delivered, attached, mode,
            attachment, terminal, retry, attempt, events, outage, dropped, backoff>>
subscription == <<open, live_from, wire, ending>>
producer == <<producer_epoch, published>>
vars == <<client, filters, producer, subscription>>

Client == INSTANCE ReconnectingStream
Filter == INSTANCE ResolvedFilter WITH status <- "requested"

\* A producer that stops makes its server answer Unavailable; a status is
\* never one of the client's own verdicts; the filters are what rule() lets
\* through (ResolvedFilter); numbering never comes to the end of u64.
ASSUME SessionAssumption ==
    /\ 1 \in Epochs
    /\ "Unavailable" \in Codes /\ Codes \cap StreamErrors = {}
    /\ Keys # {} /\ Malformed \notin Keys /\ Unset \notin BOOLEAN
    /\ MaxRules \in Nat \ {0} /\ MaxKeys \in Nat
    /\ Filters \subseteq Seq(Filter!Rules)
    /\ Traffic \subseteq Filter!ObservedTransactions
    /\ MaxPublished \in 0..MaxU64

Published == [epoch : Epochs, sequence : 1..MaxU64, tx : Traffic]

IdOf(item) == [epoch |-> item.epoch, sequence |-> item.sequence]

\* The canonical frame the server makes of a published transaction.
FrameOf(item) ==
    [parses |-> TRUE, trailing |-> FALSE, flags |-> RequiredFlags,
     producer_epoch |-> item.epoch, canonical_sequence |-> item.sequence]

TypeOK ==
    /\ Client!TypeOK
    /\ filters \in Filters
    /\ producer_epoch \in Epochs
    /\ published \in Seq(Published)
    /\ open \in BOOLEAN
    /\ live_from \in 0..MaxPublished
    /\ wire \in Seq(Published)
    /\ ending \in Client!Attachment!Ends

Init ==
    /\ filters \in Filters
    /\ Client!Init
    /\ mode = Filter!ModeOf(filters)
    /\ producer_epoch = 1
    /\ published = <<>>
    /\ open = FALSE /\ live_from = 0
    /\ wire = <<>> /\ ending = "EndOfStream"

-----------------------------------------------------------------------------
(* The producer and the server.                                            *)

NextSequence ==
    1 + Cardinality({i \in 1..Len(published) : published[i].epoch = producer_epoch})

Publish(tx) ==
    /\ Len(published) < MaxPublished
    /\ LET item == [epoch |-> producer_epoch, sequence |-> NextSequence, tx |-> tx]
       IN  /\ published' = Append(published, item)
           /\ wire' = IF open /\ Filter!Matches(filters, tx)
                      THEN Append(wire, item) ELSE wire
    /\ UNCHANGED <<client, filters, producer_epoch, open, live_from, ending>>

\* The server registers the subscription; its answer is still to arrive.
ServerAccepts ==
    /\ retry = "subscribe" /\ ~open
    /\ open' = TRUE
    /\ live_from' = Len(published)
    /\ wire' = <<>>
    /\ UNCHANGED <<client, filters, producer, ending>>

\* The subscription ends, or the connection breaks and loses the tail of
\* what is under way.
SubscriptionEnds(end, kept) ==
    /\ open /\ attached
    /\ open' = FALSE
    /\ ending' = end
    /\ wire' = SubSeq(wire, 1, kept)
    /\ UNCHANGED <<client, filters, producer, live_from>>

ProducerRestarts ==
    /\ producer_epoch + 1 \in Epochs
    /\ producer_epoch' = producer_epoch + 1
    /\ open' = FALSE
    /\ ending' = IF open THEN "Unavailable" ELSE ending
    /\ UNCHANGED <<client, filters, published, live_from, wire>>

-----------------------------------------------------------------------------
(* The client, joined with the connection.                                 *)

\* The client lets go of its attachment, or of a request not yet answered.
Abandon ==
    /\ open' = FALSE
    /\ wire' = <<>>
    /\ UNCHANGED <<filters, producer, live_from, ending>>

CallNext ==
    /\ \/ Client!NextAfterTerminal
       \/ Client!CallNextAttached
       \/ Client!CallNextDetached
    /\ UNCHANGED <<filters, producer, subscription>>

ReceiveHead ==
    /\ wire # <<>>
    /\ \/ Client!ReceiveTransaction(FrameOf(Head(wire)))
       \/ Client!ReceiveInvalidFrame(FrameOf(Head(wire)))
    /\ wire' = Tail(wire)
    /\ UNCHANGED <<filters, producer, open, live_from, ending>>

ReceiveEnding ==
    /\ ~open /\ wire = <<>>
    /\ Client!ReceiveEnd(ending)
    /\ UNCHANGED <<filters, producer, subscription>>

SleepElapses ==
    /\ Client!SleepElapses
    /\ UNCHANGED <<filters, producer, subscription>>

SubscribeSucceeds ==
    /\ open
    /\ Client!SubscribeSucceeds
    /\ UNCHANGED <<filters, producer, subscription>>

\* Also when the server has accepted, but its answer comes too late.
SubscribeFails ==
    /\ \E error \in Client!SubscribeFailures : Client!SubscribeFails(error)
    /\ Abandon

\* Mutant: a message taken off the connection is lost with the future.
DropNextLosingMessage ==
    /\ Client!DropNext
    /\ wire' = IF awaiting /\ wire # <<>> THEN Tail(wire) ELSE wire
    /\ open' = (open /\ awaiting)
    /\ UNCHANGED <<filters, producer, live_from, ending>>

\* Dropping next() while it awaits a message leaves the attachment alone;
\* dropping it while it subscribes cancels the request.
DropNext ==
    /\ Client!DropNext
    /\ IF awaiting THEN UNCHANGED <<filters, producer, subscription>> ELSE Abandon

Next ==
    \/ \E tx \in Traffic : Publish(tx)
    \/ ServerAccepts
    \/ \E end \in Client!Attachment!Ends, kept \in 0..Len(wire) : SubscriptionEnds(end, kept)
    \/ ProducerRestarts
    \/ CallNext
    \/ ReceiveHead
    \/ ReceiveEnding
    \/ SleepElapses
    \/ SubscribeSucceeds
    \/ SubscribeFails
    \/ DropNext

Spec == Init /\ [][Next]_vars

\* The consumer keeps calling next(), and a message that has arrived is
\* returned by the first poll of a call, so calls that are dropped again and
\* again do not keep it back for ever.
FairSpec == Spec /\ WF_vars(CallNext) /\ SF_vars(ReceiveHead)

-----------------------------------------------------------------------------

\* The identities of those transactions of a log that the rules select, from
\* a position on.
Selection(rules, log, from) ==
    LET selected[n \in Nat] ==
            IF n = 0 THEN <<>>
            ELSE IF n \in (from + 1)..Len(log) /\ Filter!Matches(rules, log[n].tx)
            THEN Append(selected[n - 1], IdOf(log[n]))
            ELSE selected[n - 1]
    IN  selected[Len(log)]

\* What this attachment should deliver, in order.
Expected == Selection(filters, published, live_from)

\* A correct producer is never reported as corrupt or discontinuous: mode()
\* and the server agree on the filter, each attachment starts with a fresh
\* validator, and no cancellation leaves one behind the connection.
NoFalseAlarm == returned \notin StreamErrors

\* While attached, the consumer holds a prefix of what was published and
\* selected since the subscription went live, without a gap, whatever was
\* dropped, restarted or lost on the way.
DeliveredIsPrefix == attached => IsPrefix(delivered, Expected)

\* As long as the subscription stands, what is missing is under way.
NothingLostWhileOpen ==
    attached /\ open =>
        Expected = delivered \o [i \in 1..Len(wire) |-> IdOf(wire[i])]

\* What has arrived is handed over, unless the attachment ends first.
ArrivedIsDelivered == attached /\ wire # <<>> ~> ~attached \/ wire = <<>> \/ terminal
=============================================================================

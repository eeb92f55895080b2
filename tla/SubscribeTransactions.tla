------------------------ MODULE SubscribeTransactions ------------------------
(***************************************************************************)
(* The example subscribe-transactions (examples/, main.rs) from end to     *)
(* end: it connects, subscribes to the broader stream, counts observations *)
(* until a deadline and prints a summary.  The stream is                   *)
(* TransactionStream, the filter ResolvedFilter, the client's settings     *)
(* TransportConfig.  TransactionStream alone lets the server send          *)
(* anything; producer and server are correct ones here, so that what is    *)
(* counted can be compared with what was observed by the producer.  The    *)
(* example keeps the default settings and uses connect(); here a program   *)
(* of its shape may choose others, or bring a channel to from_channel().   *)
(*                                                                         *)
(* The program runs on a current_thread runtime: the task that reads the   *)
(* connection and the timer driver run only while main is parked in an     *)
(* await, and tokio's timeout polls next() before it looks at the clock.   *)
(*                                                                         *)
(* Producer, server and connection are external to the repository, and     *)
(* modelled from README.md, "Semantics", and the comments of the proto:    *)
(* one immediate observation per transaction, canonical sequences for the  *)
(* resolved ones, contiguous within an epoch, sparse structural sequences  *)
(* for the rest, and a filter that sees static keys only where the lookup  *)
(* tables are unresolved.                                                  *)
(***************************************************************************)
EXTENDS CanonicalStreamValidator, TransportConfig, SequencesExt, FiniteSets

CONSTANTS
    Codes, MaxReasonBytes,
    Keys, Malformed, Unset, MaxRules, MaxKeys, MaxList,
    Traffic,        \* the observations that occur: see Observations
    Settings,       \* the transport settings an application may choose
    MaxPublished    \* bound: transactions observed by the producer

VARIABLES
    \* The stream, as in TransactionStream.
    canonical, epoch, structural_sequence, failed, awaiting, returned,
    resolved, unresolved,
    \* The program.
    phase,             \* see Phases
    outcome,           \* how it ended: "Completed" or the error main returns
    accounts,          \* its arguments, the accounts to include
    filters,           \* the rules of the filter made of them
    config,            \* its TransportConfig
    checked,           \* the client was made by connect(), not from_channel()
    deadline_passed,   \* the timer driver has seen the deadline pass
    resolved_count, unresolved_count, reasons,   \* the counts it prints
    \* The producer and its server.
    producer_epoch, published,
    open,              \* the server holds the subscription
    live_from,         \* the length of published when it was opened
    \* The connection.
    wire,              \* messages, and at last the end, under way
    ready              \* messages the connection task has taken off the socket

stream == <<canonical, epoch, structural_sequence, failed, awaiting, returned,
            resolved, unresolved>>
counts == <<resolved_count, unresolved_count, reasons>>
setup == <<accounts, filters, config, checked>>
producer == <<producer_epoch, published>>
subscription == <<open, live_from, wire, ready>>
vars == <<stream, phase, outcome, setup, deadline_passed, counts, producer, subscription>>

Stream == INSTANCE TransactionStream
Filter == INSTANCE ResolvedFilter WITH status <- "requested"

Phases == {"start", "connect", "filter", "subscribe", "run", "parked", "done"}

Reasons == {tx.reason : tx \in Traffic}

\* What the producer makes of a transaction: its keys, whether its lookup
\* tables were resolved, the reason if not, and the length of its message.
Observations ==
    [vote : BOOLEAN, static : SUBSET Keys, loaded : SUBSET Keys,
     resolved : BOOLEAN, reason : Reasons, length : Nat]

\* The producer knows no message longer than the longest canonical one, and
\* no status of the server looks like a verdict of the client or like the
\* refusal of a message.
ASSUME ProgramAssumption ==
    /\ 1 \in Epochs
    /\ MaxPublished \in 0..MaxU64
    /\ MaxReasonBytes \in Nat \ {0}
    /\ Keys # {} /\ Malformed \notin Keys /\ Unset \notin BOOLEAN
    /\ MaxRules \in Nat \ {0} /\ MaxKeys \in Nat /\ MaxList \in Nat
    /\ Codes \cap (StreamErrors \cup {"Ok", "None", "InvalidObservation", "StreamEnded",
                                     RefusedStatus}) = {}
    /\ Settings \subseteq Configs
    /\ Traffic \subseteq Observations
    /\ \A tx \in Traffic : tx.length <= CanonicalMessageLength(12288)

\* What the producer has observed, and how the server identifies it.
Items == [epoch : Epochs, sequence : 1..MaxU64, tx : Traffic]

IdOf(item) == [epoch |-> item.epoch, sequence |-> item.sequence]

\* On the wire: an observation with its identity, or the end of the stream.
Message(item) ==
    [kind |-> IF item.tx.resolved THEN "canonical" ELSE "unresolved", item |-> item]
End(end) == [kind |-> "end", end |-> end]

FrameOf(item) ==
    [parses |-> TRUE, trailing |-> FALSE, flags |-> RequiredFlags,
     producer_epoch |-> item.epoch, canonical_sequence |-> item.sequence]
RawOf(item) ==
    [producer_epoch |-> item.epoch, structural_sequence |-> item.sequence,
     reason_len |-> MaxReasonBytes, parses |-> TRUE]

SelectedBy(rules, item) ==
    Filter!Matches(rules,
        [vote |-> item.tx.vote,
         keys |-> item.tx.static \cup (IF item.tx.resolved THEN item.tx.loaded ELSE {})])

Init ==
    /\ accounts \in Filter!KeyLists
    /\ filters = <<>>
    /\ config \in Settings
    /\ checked \in BOOLEAN
    /\ Stream!Init
    /\ canonical.mode = "MatchAll"
    /\ phase = "start" /\ outcome = "None"
    /\ deadline_passed = FALSE
    /\ resolved_count = 0 /\ unresolved_count = 0 /\ reasons = [r \in Reasons |-> 0]
    /\ producer_epoch = 1 /\ published = <<>>
    /\ open = FALSE /\ live_from = 0
    /\ wire = <<>> /\ ready = <<>>

-----------------------------------------------------------------------------
(* The producer, its server and the connection.                            *)

\* Resolved transactions count in the canonical sequence; every transaction
\* takes a structural number, which only the unresolved ones show.
NextSequence(tx) ==
    1 + Cardinality({i \in 1..Len(published) :
                        /\ published[i].epoch = producer_epoch
                        /\ tx.resolved => published[i].tx.resolved})

\* Before the program subscribes, and once the subscription has ended, nobody
\* is there to notice.
Publish(tx) ==
    /\ phase = "subscribe" \/ open
    /\ Len(published) < MaxPublished
    /\ LET item == [epoch |-> producer_epoch, sequence |-> NextSequence(tx), tx |-> tx]
       IN  /\ published' = Append(published, item)
           /\ wire' = IF open /\ SelectedBy(filters, item) THEN Append(wire, Message(item)) ELSE wire
    /\ UNCHANGED <<stream, phase, outcome, setup, deadline_passed, counts,
                   producer_epoch, open, live_from, ready>>

ServerAccepts ==
    /\ phase = "subscribe" /\ ~open
    /\ open' = TRUE
    /\ live_from' = Len(published)
    /\ wire' = <<>>
    /\ UNCHANGED <<stream, phase, outcome, setup, deadline_passed, counts, producer, ready>>

\* The subscription ends, or the connection breaks and loses its tail.
SubscriptionEnds(end, kept) ==
    /\ phase \in {"run", "parked"} /\ open
    /\ open' = FALSE
    /\ wire' = Append(SubSeq(wire, 1, kept), End(end))
    /\ UNCHANGED <<stream, phase, outcome, setup, deadline_passed, counts, producer,
                   live_from, ready>>

\* A restart begins a new epoch and ends the subscription, if there is one.
ProducerRestarts ==
    /\ phase = "subscribe" \/ open
    /\ producer_epoch + 1 \in Epochs
    /\ producer_epoch' = producer_epoch + 1
    /\ open' = FALSE
    /\ \E code \in Codes : wire' = IF open THEN Append(wire, End(code)) ELSE wire
    /\ UNCHANGED <<stream, phase, outcome, setup, deadline_passed, counts, published,
                   live_from, ready>>

\* The connection task, while main is parked.
ConnectionReads ==
    /\ phase = "parked"
    /\ wire # <<>>
    /\ ready' = Append(ready, Head(wire))
    /\ wire' = Tail(wire)
    /\ UNCHANGED <<stream, phase, outcome, setup, deadline_passed, counts, producer,
                   open, live_from>>

\* The timer driver, likewise.
DeadlinePasses ==
    /\ phase = "parked"
    /\ ~deadline_passed
    /\ deadline_passed' = TRUE
    /\ UNCHANGED <<stream, phase, outcome, setup, counts, producer, subscription>>

-----------------------------------------------------------------------------
(* The program.                                                            *)

\* main returns; the stream and the client go with it.
Exit(result) ==
    /\ phase' = "done"
    /\ outcome' = result
    /\ open' = FALSE
    /\ wire' = <<>> /\ ready' = <<>>

\* The arguments and the environment; --help and what is missing end here.
ReadArguments ==
    /\ phase = "start"
    /\ \/ /\ phase' = "connect"
          /\ UNCHANGED <<outcome, open, wire, ready>>
       \/ \E result \in {"Help", "InvalidArguments"} : Exit(result)
    /\ UNCHANGED <<stream, setup, deadline_passed, counts, producer, live_from>>

\* connect(), or an application's own channel and from_channel().
Connect(endpoint) ==
    /\ phase = "connect"
    /\ LET verdict == IF checked THEN ConnectError(endpoint, config) ELSE "Ok"
       IN  IF verdict = "Ok"
           THEN phase' = "filter" /\ UNCHANGED <<outcome, open, wire, ready>>
           ELSE Exit(verdict)
    /\ UNCHANGED <<stream, setup, deadline_passed, counts, producer, live_from>>

\* No account is match_all(), some are one rule that includes any of them.
BuildFilter ==
    /\ phase = "filter"
    /\ IF accounts # <<>> /\ Filter!InvalidRule(accounts, <<>>, <<>>)
       THEN Exit("InvalidFilter") /\ UNCHANGED filters
       ELSE /\ phase' = "subscribe"
            /\ filters' = IF accounts = <<>> THEN <<>>
                          ELSE <<[vote |-> Unset, account_include |-> accounts,
                                  account_exclude |-> <<>>, account_required |-> <<>>]>>
            /\ UNCHANGED <<outcome, open, wire, ready>>
    /\ UNCHANGED <<stream, accounts, config, checked, deadline_passed, counts, producer,
                   live_from>>

\* TransactionStream::new(stream, mode)
SubscribeSucceeds ==
    /\ phase = "subscribe" /\ open
    /\ phase' = "run"
    /\ canonical' = NewValidator(Filter!ModeOf(filters))
    /\ UNCHANGED <<epoch, structural_sequence, failed, awaiting, returned, resolved,
                   unresolved, outcome, setup, deadline_passed, counts, producer,
                   subscription>>

\* A status or the subscribe timeout, perhaps of an accepted request.
SubscribeFails(error) ==
    /\ phase = "subscribe"
    /\ Exit(error)
    /\ UNCHANGED <<stream, setup, deadline_passed, counts, producer, live_from>>

\* The loop calls next().  On a failed stream that is None, "stream ended".
CallNext ==
    /\ phase = "run" /\ ~awaiting
    /\ IF failed
       THEN Stream!NextAfterFailure /\ Exit("StreamEnded")
       ELSE Stream!CallNext /\ UNCHANGED <<phase, outcome, open, wire, ready>>
    /\ UNCHANGED <<setup, deadline_passed, counts, producer, live_from>>

\* Nothing is ready and the deadline has not passed: main yields.
Park ==
    /\ phase = "run" /\ awaiting
    /\ ready = <<>> /\ ~deadline_passed
    /\ phase' = "parked"
    /\ UNCHANGED <<stream, outcome, setup, deadline_passed, counts, producer, subscription>>

Wake ==
    /\ phase = "parked"
    /\ ready # <<>> \/ deadline_passed
    /\ phase' = "run"
    /\ UNCHANGED <<stream, outcome, setup, deadline_passed, counts, producer, subscription>>

\* Mutant of Count: an observation is counted before the ? that may return.
CountBeforeError(kind, reason, result) ==
    /\ resolved_count' = resolved_count + (IF kind # "unresolved" THEN 1 ELSE 0)
    /\ unresolved_count' = unresolved_count + (IF kind = "unresolved" THEN 1 ELSE 0)
    /\ reasons' = IF kind = "unresolved" THEN [reasons EXCEPT ![reason] = @ + 1] ELSE reasons

\* The body of the loop.
Count(kind, reason, result) ==
    IF result # "Ok" THEN UNCHANGED counts
    ELSE IF kind = "canonical"
    THEN resolved_count' = resolved_count + 1 /\ UNCHANGED <<unresolved_count, reasons>>
    ELSE /\ unresolved_count' = unresolved_count + 1
         /\ reasons' = [reasons EXCEPT ![reason] = @ + 1]
         /\ UNCHANGED resolved_count

\* What next() does with a message: the cap comes before the validator.
Receive(message) ==
    IF message.kind = "end" THEN Stream!ReceiveEnd(message.end)
    ELSE IF Refused(config, message.item.tx.length) THEN Stream!ReceiveEnd(RefusedStatus)
    ELSE IF message.kind = "canonical" THEN Stream!ReceiveCanonical(FrameOf(message.item))
    ELSE Stream!ReceiveUnresolved(RawOf(message.item))

\* next() completes; an error leaves main by the ? operator.
ReceiveHead ==
    /\ phase = "run" /\ awaiting
    /\ ready # <<>>
    /\ LET message == Head(ready)
       IN  /\ Receive(message)
           /\ Count(message.kind,
                    IF message.kind = "end" THEN "None" ELSE message.item.tx.reason, returned')
    /\ IF returned' = "Ok"
       THEN ready' = Tail(ready) /\ UNCHANGED <<phase, outcome, open, wire>>
       ELSE Exit(returned')
    /\ UNCHANGED <<setup, deadline_passed, producer, live_from>>

\* Mutant: a timeout is taken for an idle moment and the loop goes on.
TimeoutContinues ==
    /\ phase = "run" /\ awaiting
    /\ ready = <<>> /\ deadline_passed
    /\ Stream!DropNext
    /\ UNCHANGED <<phase, outcome, setup, deadline_passed, counts, producer, subscription>>

\* timeout_at drops the pending next(), the loop breaks, the summary is printed.
TimeoutElapses ==
    /\ phase = "run" /\ awaiting
    /\ ready = <<>> /\ deadline_passed
    /\ Stream!DropNext
    /\ Exit("Completed")
    /\ UNCHANGED <<setup, deadline_passed, counts, producer, live_from>>

Done == phase = "done" /\ UNCHANGED vars

Next ==
    \/ \E tx \in Traffic : Publish(tx)
    \/ ServerAccepts
    \/ \E end \in Stream!Ends, kept \in 0..Len(wire) : SubscriptionEnds(end, kept)
    \/ ProducerRestarts
    \/ ConnectionReads
    \/ DeadlinePasses
    \/ ReadArguments
    \/ \E endpoint \in Endpoints : Connect(endpoint)
    \/ BuildFilter
    \/ SubscribeSucceeds
    \/ \E error \in {"SubscribeTimeout"} \cup Codes : SubscribeFails(error)
    \/ CallNext
    \/ Park
    \/ Wake
    \/ ReceiveHead
    \/ TimeoutElapses
    \/ Done

Spec == Init /\ [][Next]_vars

\* The runtime polls main when it is woken, connect() and the subscription
\* are bounded by their timeouts, and each turn of the timer driver looks at
\* the clock, so messages that wake main again and again do not keep the
\* deadline from passing.
FairSpec ==
    /\ Spec
    /\ WF_vars(ReadArguments \/ BuildFilter)
    /\ WF_vars(\E endpoint \in Endpoints : Connect(endpoint))
    /\ WF_vars(SubscribeSucceeds \/ SubscribeFails("SubscribeTimeout"))
    /\ WF_vars(CallNext \/ Park \/ Wake \/ ReceiveHead \/ TimeoutElapses)
    /\ SF_vars(DeadlinePasses)

-----------------------------------------------------------------------------

Outcomes ==
    {"None", "Help", "InvalidArguments", "InvalidEndpoint", "InvalidConfig", "Transport",
     "InvalidFilter", "SubscribeTimeout", "StreamEnded", "InvalidObservation",
     "Completed", RefusedStatus} \cup StreamErrors \cup Stream!Ends

TypeOK ==
    /\ canonical \in Validators /\ epoch \in Epochs \cup {None}
    /\ structural_sequence \in U64
    /\ failed \in BOOLEAN /\ awaiting \in BOOLEAN
    /\ returned \in {"Ok"} \cup Outcomes
    /\ resolved \in Seq(Transactions) /\ unresolved \in Seq(Transactions)
    /\ phase \in Phases /\ outcome \in Outcomes
    /\ phase = "done" <=> outcome # "None"
    /\ accounts \in Filter!KeyLists /\ filters \in Seq(Filter!Rules)
    /\ config \in Settings /\ checked \in BOOLEAN
    /\ deadline_passed \in BOOLEAN
    /\ {resolved_count, unresolved_count} \subseteq 0..MaxPublished
    /\ reasons \in [Reasons -> 0..MaxPublished]
    /\ producer_epoch \in Epochs
    /\ open \in BOOLEAN /\ live_from \in 0..Len(published)

\* With a correct producer and server the program never ends with a report of
\* corruption or loss, in either domain, and never by "stream ended": next()
\* returns its error before it returns None.
NoFalseAlarm ==
    outcome \notin StreamErrors \cup {"InvalidObservation", "StreamEnded"}

\* No message of the contract is ever refused for its length by a client made
\* with connect(), whatever settings it accepted.  from_channel() checks
\* nothing: there, a cap below the longest message can end the stream.
LegalMessageFits ==
    outcome = RefusedStatus =>
        ~checked /\ config.max_message_bytes < CanonicalMessageLength(12288)

\* Those elements of a sequence that belong to a set, in order.
Those(seq, set) ==
    LET those[n \in Nat] ==
            IF n = 0 THEN <<>>
            ELSE IF n \in 1..Len(seq) /\ seq[n] \in set THEN Append(those[n - 1], seq[n])
            ELSE those[n - 1]
    IN  those[Len(seq)]

\* The observations of one kind that the subscription should bring.
Wanted(rules, is_resolved) ==
    {item \in Items : SelectedBy(rules, item) /\ item.tx.resolved = is_resolved}
Expected(is_resolved) ==
    Those(SubSeq(published, live_from + 1, Len(published)), Wanted(filters, is_resolved))

\* The messages of one kind that are under way.
UnderWay(kind) == Those(ready \o wire, [kind : {kind}, item : Items])

ItemsOf(messages) == [i \in 1..Len(messages) |-> messages[i].item]
Ids(items) == [i \in 1..Len(items) |-> IdOf(items[i])]

\* What the summary counts is, in each domain, a prefix of what the producer
\* observed and the filter selects, each observation once and under its own
\* reason; while the subscription stands, the rest is under way.
EachObservedOnce ==
    /\ IsPrefix(resolved, Ids(Expected(TRUE)))
    /\ IsPrefix(unresolved, Ids(Expected(FALSE)))
    /\ open => /\ resolved \o Ids(ItemsOf(UnderWay("canonical"))) = Ids(Expected(TRUE))
               /\ unresolved \o Ids(ItemsOf(UnderWay("unresolved"))) = Ids(Expected(FALSE))
    /\ resolved_count = Len(resolved)
    /\ unresolved_count = Len(unresolved)
    /\ \A reason \in Reasons :
          reasons[reason] =
              Cardinality({i \in 1..Len(unresolved) : Expected(FALSE)[i].tx.reason = reason})

\* The program ends, however its connection behaves and whether or not a
\* message ever comes: the deadline at the latest ends it.
Terminates == <>(phase = "done")
=============================================================================

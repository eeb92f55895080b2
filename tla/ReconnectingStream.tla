------------------------- MODULE ReconnectingStream -------------------------
(***************************************************************************)
(* The opt-in reconnect wrapper (client crate, reconnect.rs) around the    *)
(* attachments of FastpathStream.                                          *)
(*                                                                         *)
(* One call of next() awaits at up to three kinds of places: the inner     *)
(* stream's next(), the backoff sleep and the subscribe request.  Between  *)
(* two awaits the code runs alone, so each action below goes from one      *)
(* await to the next.  The consumer may drop the pending future at any of  *)
(* them; the loop variable of the retry loop is a local of the future and  *)
(* is lost with it, the fields of the struct stay.                         *)
(***************************************************************************)
EXTENDS CanonicalStreamValidator, Sequences, FiniteSetsExt

CONSTANTS
    Codes,              \* the tonic::Code values that occur
    initial_delay,      \* ReconnectConfig, durations in units of time
    maximum_delay,
    maximum_attempts,
    MaxU32,             \* u32::MAX, where saturating_pow stops; small for TLC
    MaxAttachments,     \* bound: successful subscriptions explored
    MaxOutage           \* bound: failed attempts counted one by one

\* ReconnectConfig: what ReconnectingStream::new accepts.
ASSUME ConfigAssumption ==
    /\ initial_delay \in Nat \ {0}
    /\ maximum_delay \in Nat /\ maximum_delay >= initial_delay
    /\ maximum_attempts \in Nat \ {0}

ASSUME BoundAssumption ==
    /\ MaxU32 \in Nat \ {0}
    /\ MaxAttachments \in Nat
    /\ MaxOutage \in Nat /\ MaxOutage > maximum_attempts

VARIABLES
    \* The attachment in self.stream; meaningless while there is none.
    validator, failed, awaiting, returned, delivered,
    attached,     \* self.stream.is_some()
    mode,         \* self.filter.mode()
    attachment,   \* self.attachment
    terminal,     \* self.terminal
    retry,        \* where the pending future stands in the retry loop
    attempt,      \* the loop variable of that future
    events,       \* history: what next() has returned, but for None
    outage,       \* history: failed attempts since the last reset
    dropped,      \* history: a future was dropped since the last reset
    backoff       \* history: the last delay begun by the current future, or 0

inner == <<validator, failed, awaiting, returned, delivered>>
fields == <<attached, mode, attachment, terminal>>
future == <<retry, attempt, backoff>>
vars == <<inner, fields, future, events, outage, dropped>>

Attachment == INSTANCE FastpathStream

\* The errors of one attachment, and those of a subscribe request.
StreamFailures == StreamErrors \cup {"EndOfStream"} \cup Codes
SubscribeFailures == {"SubscribeTimeout"} \cup Codes
Errors == StreamFailures \cup SubscribeFailures

Log == INSTANCE ResettingFeed WITH log <- events, closed <- terminal

TypeOK ==
    /\ Attachment!TypeOK
    /\ attached \in BOOLEAN
    /\ mode \in Modes
    /\ attachment \in 0..MaxAttachments
    /\ terminal \in BOOLEAN
    /\ retry \in {"none", "sleep", "subscribe"}
    /\ attempt \in 0..(maximum_attempts - 1)
    /\ outage \in 0..MaxOutage
    /\ dropped \in BOOLEAN
    /\ backoff \in 0..maximum_delay

Init ==
    /\ mode \in Modes
    /\ validator = NewValidator(mode)
    /\ failed = FALSE /\ awaiting = FALSE
    /\ returned = "None" /\ delivered = <<>>
    /\ attached = FALSE
    /\ attachment = 0
    /\ terminal = FALSE
    /\ retry = "none" /\ attempt = 0 /\ backoff = 0
    /\ events = <<>> /\ outage = 0 /\ dropped = FALSE

-----------------------------------------------------------------------------

\* A future of the outer next() is pending somewhere.
Pending == awaiting \/ retry # "none"

Retryable(error) ==
    error \in {"EndOfStream", "SubscribeTimeout", "Unavailable", "DeadlineExceeded"}

\* 2u32.saturating_pow(n)
saturating_pow[n \in Nat] ==
    IF n = 0 THEN 1 ELSE Min({2 * saturating_pow[n - 1], MaxU32})

\* Mutants of delay: the cap is missing; the power of two wraps around.
delayUncapped(n) == initial_delay * saturating_pow[n]
delayWrapping(n) ==
    Min({maximum_delay, initial_delay * (2 ^ n % (MaxU32 + 1))})

\* Duration::saturating_mul saturates beyond every maximum_delay, so min()
\* hides it.
delay(n) == Min({maximum_delay, initial_delay * saturating_pow[n]})

\* Mutant of MustSleep: only a repeated attempt of one call is delayed.
MustSleepOnRepetition(n) == n > 0

MustSleep(n) == attachment > 0 \/ n > 0

\* The head of the loop body, entered with attempt = n.
BeginAttempt(n) ==
    /\ attempt' = n
    /\ IF MustSleep(n)
       THEN retry' = "sleep" /\ backoff' = delay(n)
       ELSE retry' = "subscribe" /\ UNCHANGED backoff

\* Mutant of LastAttempt: one attempt too many.
LastAttemptOneLater(n) == n = maximum_attempts

LastAttempt(n) == n + 1 = maximum_attempts

\* The future completes.
Finish == retry' = "none" /\ attempt' = 0 /\ backoff' = 0

\* ... with Some(Err(error)), for good.
FinishWithError(error) ==
    /\ Finish
    /\ terminal' = TRUE
    /\ events' = Append(events, Log!Failure(error))

-----------------------------------------------------------------------------
(* next() is called.  An attachment that has failed never stays in         *)
(* self.stream unless terminal is set, so the inner next() never returns   *)
(* None here.                                                              *)

NextAfterTerminal ==
    /\ ~Pending
    /\ terminal
    /\ UNCHANGED vars

CallNextAttached ==
    /\ ~Pending
    /\ ~terminal
    /\ attached
    /\ Attachment!CallNext
    /\ UNCHANGED <<fields, future, events, outage, dropped>>

\* Mutant: the early return on terminal is missing.
CallNextDetachedUnchecked ==
    /\ ~Pending
    /\ ~attached
    /\ BeginAttempt(0)
    /\ UNCHANGED <<inner, fields, events, outage, dropped>>

CallNextDetached ==
    /\ ~Pending
    /\ ~terminal
    /\ ~attached
    /\ BeginAttempt(0)
    /\ UNCHANGED <<inner, fields, events, outage, dropped>>

-----------------------------------------------------------------------------
(* The inner next() completes with Some(Ok(tx)), an error that is final or *)
(* an error that is retried; the retry loop follows without an await.      *)

ReceiveTransaction(frame) ==
    /\ Attachment!ReceiveFrame(frame)
    /\ returned' = "Ok"
    /\ events' = Append(events, Log!Transaction(TransactionOf(frame)))
    /\ UNCHANGED <<fields, future, outage, dropped>>

\* Mutant: a broken attachment is kept while the retry loop runs.
HandleErrorKeepingStream(error) ==
    /\ IF Retryable(error)
       THEN BeginAttempt(0) /\ UNCHANGED <<terminal, events>>
       ELSE FinishWithError(error)
    /\ UNCHANGED <<attached, mode, attachment, outage, dropped>>

\* What next() does with an error that the attachment returned.
HandleError(error) ==
    /\ IF Retryable(error)
       THEN /\ attached' = FALSE
            /\ BeginAttempt(0)
            /\ UNCHANGED <<terminal, events>>
       ELSE FinishWithError(error) /\ UNCHANGED attached
    /\ UNCHANGED <<mode, attachment, outage, dropped>>

ReceiveInvalidFrame(frame) ==
    /\ Attachment!ReceiveFrame(frame)
    /\ returned' # "Ok"
    /\ HandleError(returned')

ReceiveEnd(end) ==
    /\ Attachment!ReceiveEnd(end)
    /\ HandleError(end)

-----------------------------------------------------------------------------
(* The retry loop.                                                         *)

SleepElapses ==
    /\ retry = "sleep"
    /\ retry' = "subscribe"
    /\ UNCHANGED <<inner, fields, attempt, backoff, events, outage, dropped>>

\* The attachment that subscribe() returns.
OpenAttachment ==
    /\ attached' = TRUE
    /\ validator' = NewValidator(mode)
    /\ failed' = FALSE
    /\ returned' = "None"
    /\ delivered' = <<>>
    /\ UNCHANGED awaiting

SubscribeSucceeds ==
    /\ retry = "subscribe"
    /\ attachment < MaxAttachments
    /\ OpenAttachment
    /\ attachment' = attachment + 1
    /\ events' = Append(events, Log!StreamReset(attachment'))
    /\ Finish
    /\ outage' = 0 /\ dropped' = FALSE
    /\ UNCHANGED <<mode, terminal>>

\* Mutant: the loop variable does not advance.
SubscribeFailsForever(error) ==
    /\ retry = "subscribe"
    /\ outage' = Min({outage + 1, MaxOutage})
    /\ IF ~Retryable(error)
       THEN FinishWithError(error)
       ELSE BeginAttempt(attempt) /\ UNCHANGED <<terminal, events>>
    /\ UNCHANGED <<inner, attached, mode, attachment, dropped>>

SubscribeFails(error) ==
    /\ retry = "subscribe"
    /\ outage' = Min({outage + 1, MaxOutage})
    /\ IF ~Retryable(error) \/ LastAttempt(attempt)
       THEN FinishWithError(error)
       ELSE BeginAttempt(attempt + 1) /\ UNCHANGED <<terminal, events>>
    /\ UNCHANGED <<inner, attached, mode, attachment, dropped>>

\* Mutant: an attachment whose future was dropped is not used again.
DropNextPoisoning ==
    /\ Pending
    /\ awaiting' = FALSE
    /\ failed' = (failed \/ awaiting)
    /\ Finish
    /\ dropped' = TRUE
    /\ UNCHANGED <<validator, returned, delivered, fields, events, outage>>

\* The consumer drops the pending future, wherever it stands.
DropNext ==
    /\ Pending
    /\ awaiting' = FALSE
    /\ Finish
    /\ dropped' = TRUE
    /\ UNCHANGED <<validator, failed, returned, delivered, fields, events, outage>>

Next ==
    \/ NextAfterTerminal
    \/ CallNextAttached
    \/ CallNextDetached
    \/ \E frame \in Frames : ReceiveTransaction(frame) \/ ReceiveInvalidFrame(frame)
    \/ \E end \in Attachment!Ends : ReceiveEnd(end)
    \/ SleepElapses
    \/ SubscribeSucceeds
    \/ \E error \in SubscribeFailures : SubscribeFails(error)
    \/ DropNext

Spec == Init /\ [][Next]_vars

\* A tokio timer fires, and a subscribe request is answered or times out;
\* nothing is assumed of the server or of the consumer.
SubscribeCompletes ==
    SubscribeSucceeds \/ \E error \in SubscribeFailures : SubscribeFails(error)

FairSpec == Spec /\ WF_vars(SleepElapses) /\ WF_vars(SubscribeCompletes)

-----------------------------------------------------------------------------

\* Everything the attachment handed to next() has reached the consumer, and
\* in order: the log ends with this attachment's reset, its transactions and,
\* if it broke off for good, its error.  Dropping and repeating next() at any
\* await never loses a transaction that the validator has already counted.
NothingWithheld ==
    attached =>
        LET handed == [i \in 1..Len(delivered) |-> Log!Transaction(delivered[i])]
            ending == IF failed THEN <<Log!Failure(returned)>> ELSE <<>>
            suffix == <<Log!StreamReset(attachment)>> \o handed \o ending
        IN  /\ Len(events) >= Len(suffix)
            /\ SubSeq(events, Len(events) - Len(suffix) + 1, Len(events)) = suffix

\* One call of next() makes at most maximum_attempts subscribe requests
\* (the unreachable! after the loop is never reached), so an outage during
\* which no future is dropped costs no more than that before it is reported.
\* (Dropping the future discards the loop variable, and the budget with it.)
RetriesWithinBudget == ~dropped => outage <= maximum_attempts

\* No subscribe request but the first ever goes out before the whole delay that
\* is due has elapsed.  While no future is dropped, that is the delay of as
\* many failed requests as the outage has had.  A dropped future takes the loop
\* variable with it: the next call waits again from the initial delay on, and
\* as long as there was no attachment its first request does not wait at all.
SubscribesAfterBackoff ==
    retry = "subscribe" =>
        /\ ~dropped => backoff = delay(outage) \/ (attachment = 0 /\ outage = 0)
        /\ attachment > 0 \/ attempt > 0 => backoff = delay(attempt)

\* Within one call the delays never shrink and never exceed the maximum, up
\* to and beyond the attempt where the power of two saturates.
BackoffGrows ==
    [][retry = "subscribe" /\ retry' = "sleep" =>
          backoff' \in backoff..maximum_delay /\ backoff' >= initial_delay]_vars

\* The wrapper implements the feed of events it promises its consumer.
ImplementsResettingFeed == Log!Spec

\* A next() that has lost its attachment is not stuck: it ends with a new
\* attachment or an error, unless it is dropped first.
RetryCompletes == retry # "none" ~> retry = "none"
=============================================================================

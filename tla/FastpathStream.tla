--------------------------- MODULE FastpathStream ---------------------------
(***************************************************************************)
(* One attachment of the exact-resolved stream (client crate, lib.rs):     *)
(* FastpathStream and its async method next().  next() has one await,      *)
(* stream.message(); all that follows it runs without another, so the      *)
(* arrival of a message and everything done with it are one step.  The     *)
(* consumer may drop a pending next() at that await and call it again.     *)
(*                                                                         *)
(* The server is unconstrained here: any payload, end of stream or status  *)
(* may arrive at any time.  LiveSession puts a producer in its place.      *)
(***************************************************************************)
EXTENDS CanonicalStreamValidator, Sequences

CONSTANT Codes   \* the tonic::Code values with which a stream can break off

VARIABLES
    validator,   \* FastpathStream.validator
    failed,      \* FastpathStream.failed
    awaiting,    \* a future of next() is pending in stream.message().await
    returned,    \* what the last completed next() returned: "Ok", "None", an error
    delivered    \* history: every transaction next() has returned

vars == <<validator, failed, awaiting, returned, delivered>>

Ends == {"EndOfStream"} \cup Codes

TypeOK ==
    /\ validator \in Validators
    /\ failed \in BOOLEAN
    /\ awaiting \in BOOLEAN
    /\ returned \in {"Ok", "None"} \cup StreamErrors \cup Ends
    /\ delivered \in Seq(Transactions)

Init ==
    /\ \E mode \in Modes : validator = NewValidator(mode)
    /\ failed = FALSE
    /\ awaiting = FALSE
    /\ returned = "None"
    /\ delivered = <<>>

-----------------------------------------------------------------------------

\* next() on a failed attachment returns None at once.
NextAfterFailure ==
    /\ ~awaiting
    /\ failed
    /\ returned' = "None"
    /\ UNCHANGED <<validator, failed, awaiting, delivered>>

\* Mutant: the early return on failed is missing.
CallNextUnchecked ==
    /\ ~awaiting
    /\ awaiting' = TRUE
    /\ UNCHANGED <<validator, failed, returned, delivered>>

CallNext ==
    /\ ~awaiting
    /\ ~failed
    /\ awaiting' = TRUE
    /\ UNCHANGED <<validator, failed, returned, delivered>>

\* message() yields Ok(Some(frame)): validate it, return it or the error.
ReceiveFrame(frame) ==
    LET verdict == ValidateError(validator, frame)
    IN  /\ awaiting
        /\ awaiting' = FALSE
        /\ validator' = ValidateResolved(validator, frame)
        /\ failed' = (verdict # "Ok")
        /\ returned' = verdict
        /\ delivered' = IF verdict = "Ok"
                        THEN Append(delivered, TransactionOf(frame))
                        ELSE delivered

\* Mutant: the end of the stream is passed on as the None it came as.
ReceiveEndSilently(end) ==
    /\ awaiting
    /\ awaiting' = FALSE
    /\ failed' = TRUE
    /\ returned' = IF end = "EndOfStream" THEN "None" ELSE end
    /\ UNCHANGED <<validator, delivered>>

\* message() yields Ok(None) or Err(status).
ReceiveEnd(end) ==
    /\ awaiting
    /\ awaiting' = FALSE
    /\ failed' = TRUE
    /\ returned' = end
    /\ UNCHANGED <<validator, delivered>>

\* The consumer drops the pending future; no field has been touched yet.
DropNext ==
    /\ awaiting
    /\ awaiting' = FALSE
    /\ UNCHANGED <<validator, failed, returned, delivered>>

Next ==
    \/ NextAfterFailure
    \/ CallNext
    \/ \E frame \in Frames : ReceiveFrame(frame)
    \/ \E end \in Ends : ReceiveEnd(end)
    \/ DropNext

Spec == Init /\ [][Next]_vars

-----------------------------------------------------------------------------

\* What the validator remembers is what the consumer was last handed, on
\* every path: an error and a dropped future leave both where they were.
ValidatorRecordsFeed ==
    IF delivered = <<>>
    THEN validator.producer_epoch = None /\ validator.last_sequence = None
    ELSE LET last == delivered[Len(delivered)]
         IN  /\ validator.producer_epoch = last.epoch
             /\ validator.last_sequence = last.sequence

\* Any two transactions of an attachment, however far apart, come from the
\* same producer epoch; under match-all their distance in the feed is the
\* distance of their sequence numbers, so nothing was lost or repeated in
\* between, and under a filter order is never reversed (stream.rs observe()).
FeedIsContinuous ==
    \A i, j \in 1..Len(delivered) : i < j =>
        /\ delivered[i].epoch = delivered[j].epoch
        /\ delivered[j].sequence >= delivered[i].sequence + (j - i)
        /\ validator.mode = "MatchAll" =>
              delivered[j].sequence = delivered[i].sequence + (j - i)

\* After its first error an attachment stays failed and hands nothing over,
\* whatever the server still sends and however often the consumer drops and
\* repeats next(): "Errors terminate this attachment permanently" (lib.rs).
ErrorsAreTerminal ==
    [][failed => failed' /\ UNCHANGED <<validator, delivered>>]_vars

\* The attachment implements the ordered feed it promises.
Feed == INSTANCE OrderedFeed
            WITH mode <- validator.mode, feed <- delivered, closed <- failed

ImplementsOrderedFeed == Feed!Spec
=============================================================================

-------------------------- MODULE TransactionStream --------------------------
(***************************************************************************)
(* One attachment of the broader stream (client crate, observations.rs):   *)
(* TransactionStream, its async next() and its ObservationValidator.       *)
(*                                                                         *)
(* A payload is a canonical frame, an unresolved transaction or missing.   *)
(* The two kinds carry independent sequence numbers but one producer       *)
(* epoch: the canonical validator checks the epoch of canonical frames     *)
(* among themselves, the outer validator checks it across both kinds, and  *)
(* only after the state of the inner check has already been advanced.      *)
(***************************************************************************)
EXTENDS CanonicalStreamValidator, Sequences

CONSTANTS
    Codes,           \* the tonic::Code values with which a stream can break off
    MaxReasonBytes   \* 128, the longest reason accepted

ASSUME ReasonAssumption == MaxReasonBytes \in Nat \ {0}

VARIABLES
    canonical,             \* ObservationValidator.canonical
    epoch,                 \* ObservationValidator.epoch
    structural_sequence,   \* ObservationValidator.structural_sequence
    failed,                \* TransactionStream.failed
    awaiting,              \* a future of next() is pending in message().await
    returned,              \* what the last completed next() returned
    resolved,              \* history: the resolved observations returned
    unresolved             \* history: the unresolved observations returned

validator == <<canonical, epoch, structural_sequence>>
vars == <<validator, failed, awaiting, returned, resolved, unresolved>>

\* proto UnresolvedTransaction: every field comes unchecked off the wire.
\* parses is the verdict of SanitizedTransactionView::try_new on transaction.
RawTransactions ==
    [producer_epoch : Epochs \cup {0}, structural_sequence : U64,
     reason_len : {0, MaxReasonBytes, MaxReasonBytes + 1}, parses : BOOLEAN]

Ends == {"EndOfStream"} \cup Codes

TypeOK ==
    /\ canonical \in Validators
    /\ epoch \in Epochs \cup {None}
    /\ structural_sequence \in U64
    /\ failed \in BOOLEAN
    /\ awaiting \in BOOLEAN
    /\ returned \in {"Ok", "None", "InvalidObservation"} \cup StreamErrors \cup Ends
    /\ resolved \in Seq(Transactions)
    /\ unresolved \in Seq(Transactions)

Init ==
    /\ \E mode \in Modes : canonical = NewValidator(mode)
    /\ epoch = None
    /\ structural_sequence = 0
    /\ failed = FALSE
    /\ awaiting = FALSE
    /\ returned = "None"
    /\ resolved = <<>>
    /\ unresolved = <<>>

-----------------------------------------------------------------------------

\* Mutant of EpochDiffers: the two domains are never compared.
EpochNotCompared(producer_epoch) == FALSE

\* self.epoch.is_some_and(|previous| previous != epoch)
EpochDiffers(producer_epoch) == epoch # None /\ epoch # producer_epoch

\* Mutants of InvalidIdentity: the reserved epoch passes; structural
\* sequence numbers may repeat.
InvalidIdentityZeroEpoch(raw) ==
    \/ raw.structural_sequence = 0
    \/ raw.structural_sequence <= structural_sequence
    \/ raw.reason_len = 0
    \/ raw.reason_len > MaxReasonBytes

InvalidIdentityRepeatable(raw) ==
    \/ raw.producer_epoch = 0
    \/ raw.structural_sequence = 0
    \/ raw.structural_sequence < structural_sequence
    \/ raw.reason_len = 0
    \/ raw.reason_len > MaxReasonBytes

InvalidIdentity(raw) ==
    \/ raw.producer_epoch = 0
    \/ raw.structural_sequence = 0
    \/ raw.structural_sequence <= structural_sequence
    \/ raw.reason_len = 0
    \/ raw.reason_len > MaxReasonBytes

UnresolvedError(raw) ==
    IF InvalidIdentity(raw) \/ ~raw.parses THEN "InvalidObservation"
    ELSE IF EpochDiffers(raw.producer_epoch) THEN "ProducerEpochChanged"
    ELSE "Ok"

CanonicalError(frame) ==
    LET inner == ValidateError(canonical, frame)
    IN  IF inner # "Ok" THEN inner
        ELSE IF EpochDiffers(frame.producer_epoch) THEN "ProducerEpochChanged"
        ELSE "Ok"

Raw(raw) == [epoch |-> raw.producer_epoch, sequence |-> raw.structural_sequence]

-----------------------------------------------------------------------------

\* next() on a failed attachment returns None at once.
NextAfterFailure ==
    /\ ~awaiting
    /\ failed
    /\ returned' = "None"
    /\ UNCHANGED <<validator, failed, awaiting, resolved, unresolved>>

\* Mutant: the early return on failed is missing.
CallNextUnchecked ==
    /\ ~awaiting
    /\ awaiting' = TRUE
    /\ UNCHANGED <<validator, failed, returned, resolved, unresolved>>

CallNext ==
    /\ ~awaiting
    /\ ~failed
    /\ awaiting' = TRUE
    /\ UNCHANGED <<validator, failed, returned, resolved, unresolved>>

\* next() completes with the verdict of validate().
Return(verdict) ==
    /\ awaiting
    /\ awaiting' = FALSE
    /\ failed' = (verdict # "Ok")
    /\ returned' = verdict

\* Payload::CanonicalV1: the canonical validator advances before the epoch
\* of the two domains is compared, and stays advanced if they differ.
ReceiveCanonical(frame) ==
    LET verdict == CanonicalError(frame)
    IN  /\ Return(verdict)
        /\ canonical' = ValidateResolved(canonical, frame)
        /\ epoch' = IF verdict = "Ok" THEN frame.producer_epoch ELSE epoch
        /\ resolved' = IF verdict = "Ok"
                       THEN Append(resolved, TransactionOf(frame)) ELSE resolved
        /\ UNCHANGED <<structural_sequence, unresolved>>

\* Payload::Unresolved: likewise for the structural sequence.
ReceiveUnresolved(raw) ==
    LET verdict == UnresolvedError(raw)
    IN  /\ Return(verdict)
        /\ structural_sequence' = IF verdict = "InvalidObservation"
                                  THEN structural_sequence
                                  ELSE raw.structural_sequence
        /\ epoch' = IF verdict = "Ok" THEN raw.producer_epoch ELSE epoch
        /\ unresolved' = IF verdict = "Ok"
                         THEN Append(unresolved, Raw(raw)) ELSE unresolved
        /\ UNCHANGED <<canonical, resolved>>

\* The oneof is empty.
ReceiveMissing ==
    /\ Return("InvalidObservation")
    /\ UNCHANGED <<validator, resolved, unresolved>>

\* message() yields Ok(None) or Err(status).
ReceiveEnd(end) ==
    /\ awaiting
    /\ awaiting' = FALSE
    /\ failed' = TRUE
    /\ returned' = end
    /\ UNCHANGED <<validator, resolved, unresolved>>

\* The consumer drops the pending future (subscribe-transactions does so at
\* its deadline); no field has been touched yet.
DropNext ==
    /\ awaiting
    /\ awaiting' = FALSE
    /\ UNCHANGED <<validator, failed, returned, resolved, unresolved>>

Next ==
    \/ NextAfterFailure
    \/ CallNext
    \/ \E frame \in Frames : ReceiveCanonical(frame)
    \/ \E raw \in RawTransactions : ReceiveUnresolved(raw)
    \/ ReceiveMissing
    \/ \E end \in Ends : ReceiveEnd(end)
    \/ DropNext

Spec == Init /\ [][Next]_vars

-----------------------------------------------------------------------------

\* Whatever the interleaving of the two kinds, everything an attachment hands
\* over comes from one producer epoch, and it is the epoch the outer validator
\* has recorded (the check across domains at the end of validate()).
OneEpoch ==
    /\ \A i \in 1..Len(resolved) : resolved[i].epoch = epoch
    /\ \A j \in 1..Len(unresolved) : unresolved[j].epoch = epoch

\* As long as the attachment lives, the two validators agree: the canonical
\* one has either seen nothing or recorded the shared epoch, and the history
\* each has recorded is the one handed over.  (Once an attachment has failed
\* they may differ for good, since the inner state advances first.)
ValidatorsAgree ==
    ~failed =>
        /\ canonical.producer_epoch \in {None, epoch}
        /\ canonical.last_sequence =
              IF resolved = <<>> THEN None ELSE resolved[Len(resolved)].sequence
        /\ structural_sequence =
              IF unresolved = <<>> THEN 0 ELSE unresolved[Len(unresolved)].sequence

\* A failed attachment stays failed and hands nothing over, of either kind.
ErrorsAreTerminal ==
    [][failed => failed' /\ UNCHANGED <<resolved, unresolved>>]_vars

\* The broader stream is two ordered feeds under one attachment: canonical
\* sequences as in the exact-resolved stream, however many unresolved
\* observations arrive between them, and increasing structural sequences.
ResolvedFeed == INSTANCE OrderedFeed
    WITH mode <- canonical.mode, feed <- resolved, closed <- failed
UnresolvedFeed == INSTANCE OrderedFeed
    WITH mode <- "Filtered", feed <- unresolved, closed <- failed

ImplementsResolvedFeed == ResolvedFeed!Spec
ImplementsUnresolvedFeed == UnresolvedFeed!Spec
=============================================================================

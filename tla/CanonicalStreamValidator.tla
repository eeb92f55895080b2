---------------------- MODULE CanonicalStreamValidator ----------------------
(***************************************************************************)
(* The validator of one canonical stream (protocol crate, stream.rs).      *)
(*                                                                         *)
(* The Rust struct CanonicalStreamValidator is a value embedded in the two *)
(* stream types of the client, so it is modelled as a record and its       *)
(* methods as operators: an operator named ...Error gives the verdict of a *)
(* method ("Ok" or the variant of CanonicalStreamError), and the operator  *)
(* named after the method gives the struct the call leaves behind.         *)
(***************************************************************************)
EXTENDS Naturals

CONSTANTS
    MaxU64,   \* u64::MAX, the largest sequence number; small for TLC
    Epochs,   \* the producer epochs that occur
    None      \* Option::None

ASSUME WidthAssumption == MaxU64 \in Nat \ {0}
ASSUME EpochAssumption == Epochs \subseteq 1..MaxU64
ASSUME NoneAssumption == None \notin Nat

U64 == 0..MaxU64

Modes == {"MatchAll", "Filtered"}

(***************************************************************************)
(* What the validator can tell about a payload.  parses is the verdict of  *)
(* ValidatedFrame::parse; FrameHeaderV1::validate rejects a zero epoch or  *)
(* sequence, so neither occurs in a frame that parses.  trailing says that *)
(* the payload is longer than the frame parsed from it.                    *)
(***************************************************************************)
RequiredFlags == {"TRANSACTION_SANITIZED", "LUT_RESOLVED"}

Frames ==
    [parses : BOOLEAN, trailing : BOOLEAN, flags : SUBSET RequiredFlags,
     producer_epoch : Epochs, canonical_sequence : 1..MaxU64]

\* What a delivered transaction is identified by.
Transactions == [epoch : Epochs, sequence : 1..MaxU64]

TransactionOf(frame) ==
    [epoch |-> frame.producer_epoch, sequence |-> frame.canonical_sequence]

StreamErrors ==
    {"InvalidFrame", "TrailingBytes", "NotResolved", "ProducerEpochChanged",
     "SequenceExhausted", "SequenceRegressed", "SequenceGap"}

Validators ==
    [producer_epoch : Epochs \cup {None}, last_sequence : 1..MaxU64 \cup {None},
     mode : Modes]

\* Mutant of NewValidator: no sequence number yet is taken for number zero.
NewValidatorFromZero(mode) ==
    [producer_epoch |-> None, last_sequence |-> 0, mode |-> mode]

\* CanonicalStreamValidator::new
NewValidator(mode) ==
    [producer_epoch |-> None, last_sequence |-> None, mode |-> mode]

-----------------------------------------------------------------------------
(* The checks of observe(), each the condition of one early return.        *)

\* Mutant of EpochChanged: the epoch is recorded but never compared.
EpochIgnored(v, producer_epoch) == FALSE

EpochChanged(v, producer_epoch) ==
    v.producer_epoch # None /\ v.producer_epoch # producer_epoch

\* previous.checked_add(1) overflows
Exhausted(v) == v.last_sequence = MaxU64

\* Mutant of Regressed: a repeated sequence number passes.
RegressedStrictly(v, sequence) == sequence < v.last_sequence

Regressed(v, sequence) == sequence <= v.last_sequence

\* Mutant of Gap: the continuity check is dropped.
GapIgnored(v, sequence) == FALSE

Gap(v, sequence) == v.mode = "MatchAll" /\ sequence # v.last_sequence + 1

ObserveError(v, producer_epoch, sequence) ==
    IF EpochChanged(v, producer_epoch) THEN "ProducerEpochChanged"
    ELSE IF v.last_sequence = None     THEN "Ok"
    ELSE IF Exhausted(v)               THEN "SequenceExhausted"
    ELSE IF Regressed(v, sequence)     THEN "SequenceRegressed"
    ELSE IF Gap(v, sequence)           THEN "SequenceGap"
    ELSE "Ok"

-----------------------------------------------------------------------------
(* validate_resolved(): frame checks first, then observe().                *)

ValidateError(v, frame) ==
    IF ~frame.parses                            THEN "InvalidFrame"
    ELSE IF frame.trailing                      THEN "TrailingBytes"
    ELSE IF ~(RequiredFlags \subseteq frame.flags) THEN "NotResolved"
    ELSE ObserveError(v, frame.producer_epoch, frame.canonical_sequence)

\* Mutant: the sequence number is recorded before the checks.
ValidateResolvedEagerly(v, frame) ==
    [v EXCEPT !.producer_epoch =
                  IF ValidateError(v, frame) = "Ok" THEN frame.producer_epoch ELSE @,
              !.last_sequence =
                  IF frame.parses THEN frame.canonical_sequence ELSE @]

\* Both fields are assigned only when every check has passed.
ValidateResolved(v, frame) ==
    IF ValidateError(v, frame) = "Ok"
    THEN [v EXCEPT !.producer_epoch = frame.producer_epoch,
                   !.last_sequence = frame.canonical_sequence]
    ELSE v
=============================================================================

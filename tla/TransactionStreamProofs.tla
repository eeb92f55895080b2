----------------------- MODULE TransactionStreamProofs -----------------------
(***************************************************************************)
(* Proofs about TransactionStream: type correctness, one producer epoch    *)
(* across both domains, agreement of the two validators, terminal errors,  *)
(* and the refinement of one ordered feed per domain, for every parameter. *)
(***************************************************************************)
EXTENDS TransactionStream, CanonicalStreamValidatorProofs

\* An unresolved observation that passes validate() has a proper identity.
LEMMA AcceptedRawType ==
    ASSUME NEW raw \in RawTransactions, UnresolvedError(raw) # "InvalidObservation"
    PROVE  Raw(raw) \in Transactions
<1>1. raw.producer_epoch \in Epochs /\ raw.structural_sequence \in 1..MaxU64
  BY WidthAssumption DEF UnresolvedError, InvalidIdentity, RawTransactions, U64
<1> QED BY <1>1 DEF Raw, Transactions

\* Every verdict of validate() on a canonical payload is a CanonicalStreamError.
LEMMA CanonicalErrorType ==
    ASSUME NEW frame \in Frames, canonical \in Validators
    PROVE  CanonicalError(frame) \in {"Ok"} \cup StreamErrors
BY ValidateErrorType DEF CanonicalError, StreamErrors

\* The types of all fields and histories are kept, whatever the server sends.
THEOREM TypeCorrect == Spec => []TypeOK
<1>1. Init => TypeOK
  <2> SUFFICES ASSUME Init PROVE TypeOK
    OBVIOUS
  <2>1. canonical \in Validators
    BY DEF Init, Validators, NewValidator, Modes
  <2>2. structural_sequence \in U64
    BY WidthAssumption DEF Init, U64
  <2>3. resolved \in Seq(Transactions) /\ unresolved \in Seq(Transactions)
    BY DEF Init
  <2> QED BY <2>1, <2>2, <2>3 DEF Init, TypeOK
<1>2. TypeOK /\ [Next]_vars => TypeOK'
  <2> SUFFICES ASSUME TypeOK, [Next]_vars PROVE TypeOK'
    OBVIOUS
  <2>1. CASE NextAfterFailure
    BY <2>1 DEF NextAfterFailure, TypeOK, validator
  <2>2. CASE CallNext
    BY <2>2 DEF CallNext, TypeOK, validator
  <2>3. ASSUME NEW frame \in Frames, ReceiveCanonical(frame) PROVE TypeOK'
    <3>1. canonical' \in Validators
      BY <2>3, ValidateResolvedType DEF ReceiveCanonical, TypeOK
    <3>2. returned' \in {"Ok"} \cup StreamErrors
      BY <2>3, CanonicalErrorType DEF ReceiveCanonical, Return, TypeOK
    <3>3. resolved' \in Seq(Transactions)
      BY <2>3, TransactionOfType DEF ReceiveCanonical, TypeOK
    <3>4. epoch' \in Epochs \cup {None}
      BY <2>3 DEF ReceiveCanonical, TypeOK, Frames
    <3> QED BY <2>3, <3>1, <3>2, <3>3, <3>4 DEF ReceiveCanonical, Return, TypeOK
  <2>4. ASSUME NEW raw \in RawTransactions, ReceiveUnresolved(raw) PROVE TypeOK'
    <3>1. returned' \in {"Ok", "InvalidObservation"} \cup StreamErrors
      BY <2>4 DEF ReceiveUnresolved, Return, UnresolvedError, StreamErrors
    <3>2. structural_sequence' \in U64
      BY <2>4 DEF ReceiveUnresolved, RawTransactions, TypeOK
    <3>3. UnresolvedError(raw) = "Ok" => raw.producer_epoch \in Epochs
      BY DEF UnresolvedError, InvalidIdentity, RawTransactions
    <3>4. epoch' \in Epochs \cup {None}
      BY <2>4, <3>3 DEF ReceiveUnresolved, TypeOK
    <3>5. unresolved' \in Seq(Transactions)
      BY <2>4, AcceptedRawType DEF ReceiveUnresolved, TypeOK
    <3> QED BY <2>4, <3>1, <3>2, <3>4, <3>5 DEF ReceiveUnresolved, Return, TypeOK
  <2>5. CASE ReceiveMissing
    BY <2>5 DEF ReceiveMissing, Return, TypeOK, validator
  <2>6. ASSUME NEW end \in Ends, ReceiveEnd(end) PROVE TypeOK'
    BY <2>6 DEF ReceiveEnd, TypeOK, validator
  <2>7. CASE DropNext
    BY <2>7 DEF DropNext, TypeOK, validator
  <2>8. CASE UNCHANGED vars
    BY <2>8 DEF vars, TypeOK, validator
  <2> QED BY <2>1, <2>2, <2>3, <2>4, <2>5, <2>6, <2>7, <2>8 DEF Next
<1> QED BY <1>1, <1>2, PTL DEF Spec

(***************************************************************************)
(* The inductive invariant.  ValidatorsAgree says where the validators     *)
(* stand, and OneEpoch that the shared epoch is that of everything handed  *)
(* over; neither is inductive without the other, and both need that a      *)
(* failed attachment, whose validators may disagree, awaits nothing.       *)
(***************************************************************************)

Quiet == failed => ~awaiting

IInv == TypeOK /\ Quiet /\ OneEpoch /\ ValidatorsAgree

\* A new attachment has fresh validators and has handed nothing over.
LEMMA InitEstablishesIInv == Init /\ TypeOK => IInv
<1> SUFFICES ASSUME Init, TypeOK PROVE Quiet /\ OneEpoch /\ ValidatorsAgree
  BY DEF IInv
<1>1. resolved = <<>> /\ unresolved = <<>> /\ ~failed /\ ~awaiting
  BY DEF Init
<1>2. /\ canonical.producer_epoch = None /\ canonical.last_sequence = None
      /\ structural_sequence = 0
  BY DEF Init, NewValidator
<1>3. OneEpoch
  BY <1>1 DEF OneEpoch
<1> QED BY <1>1, <1>2, <1>3 DEF Quiet, ValidatorsAgree

\* An accepted observation has the shared epoch, or sets it while nothing has
\* been handed over: the epoch check across the domains at the end of validate().
LEMMA AcceptedEpoch ==
    ASSUME IInv, NEW e \in Epochs, ~EpochDiffers(e)
    PROVE  /\ \A i \in 1..Len(resolved) : resolved[i].epoch = e
           /\ \A j \in 1..Len(unresolved) : unresolved[j].epoch = e
<1>1. CASE epoch = e
  BY <1>1 DEF IInv, OneEpoch
<1>2. CASE epoch = None
  <2>1. \A i \in 1..Len(resolved) : FALSE
    <3> SUFFICES ASSUME NEW i \in 1..Len(resolved) PROVE FALSE
      OBVIOUS
    <3>1. resolved[i] \in Transactions /\ resolved[i].epoch = None
      BY <1>2 DEF IInv, TypeOK, OneEpoch
    <3> QED BY <3>1, TransactionNumbers, NoneAssumption
  <2>2. \A j \in 1..Len(unresolved) : FALSE
    <3> SUFFICES ASSUME NEW j \in 1..Len(unresolved) PROVE FALSE
      OBVIOUS
    <3>1. unresolved[j] \in Transactions /\ unresolved[j].epoch = None
      BY <1>2 DEF IInv, TypeOK, OneEpoch
    <3> QED BY <3>1, TransactionNumbers, NoneAssumption
  <2> QED BY <2>1, <2>2
<1> QED BY <1>1, <1>2 DEF EpochDiffers

\* The entries of a sequence that grows by one.
LEMMA AppendedEntries ==
    ASSUME NEW S, NEW s \in Seq(S), NEW x \in S
    PROVE  /\ Append(s, x) # <<>>
           /\ Len(Append(s, x)) = Len(s) + 1
           /\ Append(s, x)[Len(s) + 1] = x
           /\ \A i \in 1..Len(s) : Append(s, x)[i] = s[i]
           /\ 1..(Len(s) + 1) = 1..Len(s) \cup {Len(s) + 1}
OBVIOUS

\* An accepted canonical frame keeps the invariant: both validators record it.
LEMMA AcceptedCanonicalKeepsIInv ==
    ASSUME IInv, TypeOK', NEW frame \in Frames, ReceiveCanonical(frame),
           CanonicalError(frame) = "Ok"
    PROVE  OneEpoch' /\ ValidatorsAgree'
<1> DEFINE tx == TransactionOf(frame)
<1>1. /\ canonical \in Validators /\ resolved \in Seq(Transactions)
      /\ tx \in Transactions /\ frame.producer_epoch \in Epochs
  BY TransactionOfType DEF IInv, TypeOK, Frames
<1>2. /\ resolved' = Append(resolved, tx) /\ unresolved' = unresolved
      /\ epoch' = frame.producer_epoch /\ tx.epoch = frame.producer_epoch
      /\ structural_sequence' = structural_sequence /\ awaiting /\ ~failed'
      /\ canonical' = ValidateResolved(canonical, frame)
  BY DEF ReceiveCanonical, Return, TransactionOf
<1>3. /\ canonical'.producer_epoch = frame.producer_epoch
      /\ canonical'.last_sequence = tx.sequence
  BY <1>1, <1>2, AcceptedFrameIsRecorded DEF CanonicalError, TransactionOf
<1>4. ~EpochDiffers(frame.producer_epoch)
  BY DEF CanonicalError
<1>5. /\ Len(resolved') = Len(resolved) + 1 /\ resolved' # <<>>
      /\ resolved'[Len(resolved) + 1] = tx
      /\ \A i \in 1..Len(resolved) : resolved'[i] = resolved[i]
      /\ 1..(Len(resolved) + 1) = 1..Len(resolved) \cup {Len(resolved) + 1}
  BY <1>1, <1>2, AppendedEntries
<1>6. OneEpoch'
  BY <1>1, <1>2, <1>4, <1>5, AcceptedEpoch DEF OneEpoch
<1>7. ~failed
  BY <1>2 DEF IInv, Quiet
<1>8. ValidatorsAgree'
  BY <1>2, <1>3, <1>5, <1>7 DEF IInv, ValidatorsAgree
<1> QED BY <1>6, <1>8

\* An accepted unresolved observation keeps the invariant: the canonical
\* validator has seen nothing yet or the same epoch.
LEMMA AcceptedUnresolvedKeepsIInv ==
    ASSUME IInv, TypeOK', NEW raw \in RawTransactions, ReceiveUnresolved(raw),
           UnresolvedError(raw) = "Ok"
    PROVE  OneEpoch' /\ ValidatorsAgree'
<1> DEFINE tx == Raw(raw)
<1>1. /\ unresolved \in Seq(Transactions) /\ tx \in Transactions
      /\ canonical \in Validators
  BY AcceptedRawType DEF IInv, TypeOK
<1>2. raw.producer_epoch \in Epochs
  BY <1>1 DEF Raw, Transactions
<1>3. /\ unresolved' = Append(unresolved, tx) /\ resolved' = resolved
      /\ epoch' = raw.producer_epoch /\ tx.epoch = raw.producer_epoch
      /\ structural_sequence' = tx.sequence /\ awaiting
      /\ canonical' = canonical
  BY DEF ReceiveUnresolved, Return, Raw
<1>4. ~EpochDiffers(raw.producer_epoch)
  BY DEF UnresolvedError
<1>5. /\ Len(unresolved') = Len(unresolved) + 1 /\ unresolved' # <<>>
      /\ unresolved'[Len(unresolved) + 1] = tx
      /\ \A i \in 1..Len(unresolved) : unresolved'[i] = unresolved[i]
      /\ 1..(Len(unresolved) + 1) = 1..Len(unresolved) \cup {Len(unresolved) + 1}
  BY <1>1, <1>3, AppendedEntries
<1>6. OneEpoch'
  BY <1>2, <1>3, <1>4, <1>5, AcceptedEpoch DEF OneEpoch
<1>7. ~failed
  BY <1>3 DEF IInv, Quiet
<1>8. canonical'.producer_epoch \in {None, epoch'}
  BY <1>3, <1>4, <1>7 DEF IInv, ValidatorsAgree, EpochDiffers
<1>9. ValidatorsAgree'
  BY <1>3, <1>5, <1>7, <1>8 DEF IInv, ValidatorsAgree
<1> QED BY <1>6, <1>9

\* Every step keeps the invariant: a rejected observation fails the
\* attachment, and with it ends the obligation of the validators to agree.
LEMMA NextPreservesIInv == IInv /\ TypeOK' /\ [Next]_vars => IInv'
<1> SUFFICES ASSUME IInv, TypeOK', [Next]_vars
             PROVE  Quiet' /\ OneEpoch' /\ ValidatorsAgree'
  BY DEF IInv
<1>1. Quiet'
  BY DEF IInv, TypeOK, Quiet, Next, vars, NextAfterFailure, CallNext, Return,
         ReceiveCanonical, ReceiveUnresolved, ReceiveMissing, ReceiveEnd, DropNext
<1>2. ASSUME UNCHANGED <<validator, failed, resolved, unresolved>>
      PROVE  OneEpoch' /\ ValidatorsAgree'
  BY <1>2 DEF IInv, OneEpoch, ValidatorsAgree, validator
<1>3. ASSUME UNCHANGED <<epoch, resolved, unresolved>>, failed'
      PROVE  OneEpoch' /\ ValidatorsAgree'
  BY <1>3 DEF IInv, OneEpoch, ValidatorsAgree
<1>4. ASSUME NEW frame \in Frames, ReceiveCanonical(frame)
      PROVE  OneEpoch' /\ ValidatorsAgree'
  <2>1. CASE CanonicalError(frame) = "Ok"
    BY <1>4, <2>1, AcceptedCanonicalKeepsIInv
  <2>2. CASE CanonicalError(frame) # "Ok"
    BY <1>3, <1>4, <2>2 DEF ReceiveCanonical, Return
  <2> QED BY <2>1, <2>2
<1>5. ASSUME NEW raw \in RawTransactions, ReceiveUnresolved(raw)
      PROVE  OneEpoch' /\ ValidatorsAgree'
  <2>1. CASE UnresolvedError(raw) = "Ok"
    BY <1>5, <2>1, AcceptedUnresolvedKeepsIInv
  <2>2. CASE UnresolvedError(raw) # "Ok"
    BY <1>3, <1>5, <2>2 DEF ReceiveUnresolved, Return
  <2> QED BY <2>1, <2>2
<1>6. CASE ReceiveMissing
  BY <1>1, <1>3, <1>6 DEF ReceiveMissing, Return, validator
<1>7. ASSUME NEW end \in Ends, ReceiveEnd(end)
      PROVE  OneEpoch' /\ ValidatorsAgree'
  BY <1>3, <1>7 DEF ReceiveEnd, validator
<1>8. CASE NextAfterFailure \/ CallNext \/ DropNext \/ UNCHANGED vars
  BY <1>1, <1>2, <1>8 DEF NextAfterFailure, CallNext, DropNext, vars, validator
<1> QED BY <1>1, <1>4, <1>5, <1>6, <1>7, <1>8 DEF Next

\* The invariant holds of every behaviour of one attachment.
LEMMA IInvHolds == Spec => []IInv
BY TypeCorrect, InitEstablishesIInv, NextPreservesIInv, PTL DEF Spec

\* Both domains share one producer epoch, whatever the interleaving
\* (observations.rs, the last check of validate()).
THEOREM SharedEpoch == Spec => []OneEpoch
<1>1. IInv => OneEpoch
  BY DEF IInv
<1> QED BY <1>1, IInvHolds, PTL

\* While the attachment lives, the inner and the outer validator agree with
\* each other and with what next() has returned.
THEOREM Agreement == Spec => []ValidatorsAgree
<1>1. IInv => ValidatorsAgree
  BY DEF IInv
<1> QED BY <1>1, IInvHolds, PTL

(***************************************************************************)
(* Terminal errors and the refinement of one ordered feed per domain.      *)
(***************************************************************************)

\* Errors end an attachment for good, in both domains at once
\* (observations.rs, next()).
THEOREM ErrorsEndAttachment == Spec => ErrorsAreTerminal
<1>1. IInv /\ [Next]_vars => [failed => failed' /\ UNCHANGED <<resolved, unresolved>>]_vars
  BY DEF IInv, Quiet, Next, vars, NextAfterFailure, CallNext, Return,
         ReceiveCanonical, ReceiveUnresolved, ReceiveMissing, ReceiveEnd, DropNext
<1> QED BY <1>1, IInvHolds, PTL DEF Spec, ErrorsAreTerminal

\* Steps that hand nothing over close both feeds or leave them as they are.
LEMMA SilentStep ==
    ASSUME IInv, UNCHANGED <<resolved, unresolved>>,
           canonical'.mode = canonical.mode, failed' \in BOOLEAN, failed => failed'
    PROVE  /\ ResolvedFeed!Close \/ UNCHANGED ResolvedFeed!vars
           /\ UnresolvedFeed!Close \/ UNCHANGED UnresolvedFeed!vars
BY DEF IInv, TypeOK, ResolvedFeed!Close, ResolvedFeed!vars,
       UnresolvedFeed!Close, UnresolvedFeed!vars

\* An accepted canonical frame is a delivery of the resolved feed.
LEMMA DeliverResolved ==
    ASSUME IInv, NEW frame \in Frames, ReceiveCanonical(frame),
           CanonicalError(frame) = "Ok"
    PROVE  ResolvedFeed!Next /\ UNCHANGED UnresolvedFeed!vars
<1> DEFINE tx == TransactionOf(frame)
           last == resolved[Len(resolved)]
<1>1. /\ canonical \in Validators /\ resolved \in Seq(Transactions)
      /\ tx \in Transactions /\ failed \in BOOLEAN
  BY TransactionOfType DEF IInv, TypeOK
<1>2. /\ ~failed /\ failed = FALSE /\ failed' = FALSE
      /\ resolved' = Append(resolved, tx) /\ unresolved' = unresolved
  BY DEF ReceiveCanonical, Return, IInv, TypeOK, Quiet
<1>3. canonical'.mode = canonical.mode
  BY <1>1, ValidateResolvedType DEF ReceiveCanonical
<1>4. ASSUME resolved # <<>> PROVE ResolvedFeed!Follows(last, tx)
  <2>1. last \in Transactions /\ Len(resolved) \in 1..Len(resolved)
    BY <1>1, <1>4
  <2>2. canonical.last_sequence = last.sequence /\ last.epoch = epoch
    BY <1>2, <1>4, <2>1 DEF IInv, ValidatorsAgree, OneEpoch
  <2>3. last.sequence \in Nat /\ last.epoch \in Nat
    BY <2>1, TransactionNumbers
  <2>4. canonical.last_sequence # None /\ epoch # None
    BY <2>2, <2>3, NoneAssumption
  <2>5. /\ ValidateError(canonical, frame) = "Ok"
        /\ ~EpochDiffers(frame.producer_epoch)
    BY DEF CanonicalError
  <2>6. tx.epoch = last.epoch
    BY <2>2, <2>4, <2>5 DEF EpochDiffers, TransactionOf
  <2>7. /\ tx.sequence > last.sequence
        /\ canonical.mode = "MatchAll" => tx.sequence = last.sequence + 1
    BY <1>1, <2>2, <2>4, <2>5, AcceptedFrameFollows DEF TransactionOf
  <2>8. canonical.mode \in Modes
    BY <1>1 DEF Validators
  <2> QED BY <2>6, <2>7, <2>8 DEF ResolvedFeed!Follows, Modes
<1>5. ResolvedFeed!Deliver(tx)
  BY <1>1, <1>2, <1>3, <1>4 DEF ResolvedFeed!Deliver
<1>6. UNCHANGED UnresolvedFeed!vars
  BY <1>1, <1>2 DEF UnresolvedFeed!vars, ReceiveCanonical, Return
<1> QED BY <1>1, <1>5, <1>6 DEF ResolvedFeed!Next

\* An accepted unresolved observation is a delivery of the unresolved feed.
LEMMA DeliverUnresolved ==
    ASSUME IInv, NEW raw \in RawTransactions, ReceiveUnresolved(raw),
           UnresolvedError(raw) = "Ok"
    PROVE  UnresolvedFeed!Next /\ UNCHANGED ResolvedFeed!vars
<1> DEFINE tx == Raw(raw)
           last == unresolved[Len(unresolved)]
<1>1. unresolved \in Seq(Transactions) /\ tx \in Transactions /\ failed \in BOOLEAN
  BY AcceptedRawType DEF IInv, TypeOK
<1>2. /\ ~failed /\ failed = FALSE /\ failed' = FALSE /\ unresolved' = Append(unresolved, tx)
      /\ UNCHANGED <<canonical, resolved>>
  BY DEF ReceiveUnresolved, Return, IInv, TypeOK, Quiet
<1>3. ASSUME unresolved # <<>> PROVE UnresolvedFeed!Follows(last, tx)
  <2>1. last \in Transactions /\ Len(unresolved) \in 1..Len(unresolved)
    BY <1>1, <1>3
  <2>2. structural_sequence = last.sequence /\ last.epoch = epoch
    BY <1>2, <1>3, <2>1 DEF IInv, ValidatorsAgree, OneEpoch
  <2>3. last.sequence \in Nat /\ last.epoch \in Nat /\ tx.sequence \in Nat
    BY <1>1, <2>1, TransactionNumbers
  <2>4. epoch # None
    BY <2>2, <2>3, NoneAssumption
  <2>5. ~InvalidIdentity(raw) /\ ~EpochDiffers(raw.producer_epoch)
    BY DEF UnresolvedError
  <2>6. tx.epoch = last.epoch
    BY <2>2, <2>4, <2>5 DEF EpochDiffers, Raw
  <2>7. ~(tx.sequence <= last.sequence)
    BY <2>2, <2>5 DEF InvalidIdentity, Raw
  <2>8. tx.sequence > last.sequence
    BY <2>3, <2>7
  <2> QED BY <2>6, <2>8 DEF UnresolvedFeed!Follows
<1>4. UnresolvedFeed!Deliver(tx)
  BY <1>1, <1>2, <1>3 DEF UnresolvedFeed!Deliver
<1>5. UNCHANGED ResolvedFeed!vars
  BY <1>1, <1>2 DEF ResolvedFeed!vars
<1> QED BY <1>1, <1>4, <1>5 DEF UnresolvedFeed!Next

\* Every step is a step of one feed, of both when it closes them, or of none.
LEMMA StepRefines ==
    IInv /\ TypeOK' /\ [Next]_vars =>
        /\ [ResolvedFeed!Next]_(ResolvedFeed!vars)
        /\ [UnresolvedFeed!Next]_(UnresolvedFeed!vars)
<1> SUFFICES ASSUME IInv, TypeOK', [Next]_vars
             PROVE  /\ ResolvedFeed!Next \/ UNCHANGED ResolvedFeed!vars
                    /\ UnresolvedFeed!Next \/ UNCHANGED UnresolvedFeed!vars
  OBVIOUS
<1>1. failed' \in BOOLEAN
  BY DEF TypeOK
<1>2. ASSUME UNCHANGED <<resolved, unresolved>>, canonical'.mode = canonical.mode,
             failed => failed'
      PROVE  /\ ResolvedFeed!Next \/ UNCHANGED ResolvedFeed!vars
             /\ UnresolvedFeed!Next \/ UNCHANGED UnresolvedFeed!vars
  BY <1>1, <1>2, SilentStep DEF ResolvedFeed!Next, UnresolvedFeed!Next
<1>3. ASSUME NEW frame \in Frames, ReceiveCanonical(frame)
      PROVE  /\ ResolvedFeed!Next \/ UNCHANGED ResolvedFeed!vars
             /\ UnresolvedFeed!Next \/ UNCHANGED UnresolvedFeed!vars
  <2>1. CASE CanonicalError(frame) = "Ok"
    BY <1>3, <2>1, DeliverResolved
  <2>2. CASE CanonicalError(frame) # "Ok"
    <3>1. canonical'.mode = canonical.mode
      BY <1>3, ValidateResolvedType DEF ReceiveCanonical, IInv, TypeOK
    <3> QED BY <1>2, <1>3, <2>2, <3>1 DEF ReceiveCanonical, Return
  <2> QED BY <2>1, <2>2
<1>4. ASSUME NEW raw \in RawTransactions, ReceiveUnresolved(raw)
      PROVE  /\ ResolvedFeed!Next \/ UNCHANGED ResolvedFeed!vars
             /\ UnresolvedFeed!Next \/ UNCHANGED UnresolvedFeed!vars
  <2>1. CASE UnresolvedError(raw) = "Ok"
    BY <1>4, <2>1, DeliverUnresolved
  <2>2. CASE UnresolvedError(raw) # "Ok"
    BY <1>2, <1>4, <2>2 DEF ReceiveUnresolved, Return
  <2> QED BY <2>1, <2>2
<1>5. ASSUME ReceiveMissing \/ \E end \in Ends : ReceiveEnd(end)
      PROVE  /\ ResolvedFeed!Next \/ UNCHANGED ResolvedFeed!vars
             /\ UnresolvedFeed!Next \/ UNCHANGED UnresolvedFeed!vars
  BY <1>2, <1>5 DEF ReceiveMissing, ReceiveEnd, Return, validator
<1>6. ASSUME NextAfterFailure \/ CallNext \/ DropNext \/ UNCHANGED vars
      PROVE  /\ ResolvedFeed!Next \/ UNCHANGED ResolvedFeed!vars
             /\ UnresolvedFeed!Next \/ UNCHANGED UnresolvedFeed!vars
  BY <1>2, <1>6 DEF NextAfterFailure, CallNext, DropNext, vars, validator
<1> QED BY <1>3, <1>4, <1>5, <1>6 DEF Next

\* The resolved observations of the broader stream are an ordered feed, as
\* strict as that of the exact-resolved stream (observations.rs).
THEOREM ResolvedRefinement == Spec => ImplementsResolvedFeed
<1>1. Init => ResolvedFeed!Init
  BY DEF Init, ResolvedFeed!Init, NewValidator, Modes
<1>2. IInv /\ TypeOK' /\ [Next]_vars => [ResolvedFeed!Next]_(ResolvedFeed!vars)
  BY StepRefines
<1>3. []IInv /\ []TypeOK /\ Init /\ [][Next]_vars => ResolvedFeed!Spec
  BY <1>1, <1>2, PTL DEF ResolvedFeed!Spec
<1> QED BY <1>3, IInvHolds, TypeCorrect, PTL DEF Spec, ImplementsResolvedFeed

\* The unresolved observations are an increasing feed of the same epoch.
THEOREM UnresolvedRefinement == Spec => ImplementsUnresolvedFeed
<1>1. Init => UnresolvedFeed!Init
  BY DEF Init, UnresolvedFeed!Init
<1>2. IInv /\ TypeOK' /\ [Next]_vars => [UnresolvedFeed!Next]_(UnresolvedFeed!vars)
  BY StepRefines
<1>3. []IInv /\ []TypeOK /\ Init /\ [][Next]_vars => UnresolvedFeed!Spec
  BY <1>1, <1>2, PTL DEF UnresolvedFeed!Spec
<1> QED BY <1>3, IInvHolds, TypeCorrect, PTL DEF Spec, ImplementsUnresolvedFeed
==============================================================================

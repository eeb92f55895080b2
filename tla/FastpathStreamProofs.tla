------------------------ MODULE FastpathStreamProofs ------------------------
(***************************************************************************)
(* Proofs about FastpathStream: type correctness, continuity of the feed,  *)
(* terminal errors, and the refinement of OrderedFeed, for every width of  *)
(* the sequence numbers, every set of epochs and every set of codes; and   *)
(* about SubscribeResolved, whose stream it is.  Only the theorem about    *)
(* that program rests on its CodesAssumption.                              *)
(***************************************************************************)
EXTENDS SubscribeResolved, CanonicalStreamValidatorProofs

(***************************************************************************)
(* Type correctness.                                                       *)
(***************************************************************************)

\* The types of all fields and histories are kept by every step of the
\* attachment, whatever the server sends (lib.rs, FastpathStream).
THEOREM TypeCorrect == Spec => []TypeOK
<1>1. Init => TypeOK
  <2> SUFFICES ASSUME Init PROVE TypeOK
    OBVIOUS
  <2>1. validator \in Validators
    BY DEF Init, Validators, NewValidator, Modes
  <2>2. delivered \in Seq(Transactions)
    BY DEF Init
  <2> QED BY <2>1, <2>2 DEF Init, TypeOK
<1>2. TypeOK /\ [Next]_vars => TypeOK'
  <2> SUFFICES ASSUME TypeOK, [Next]_vars PROVE TypeOK'
    OBVIOUS
  <2>1. CASE NextAfterFailure
    BY <2>1 DEF NextAfterFailure, TypeOK
  <2>2. CASE CallNext
    BY <2>2 DEF CallNext, TypeOK
  <2>3. ASSUME NEW frame \in Frames, ReceiveFrame(frame) PROVE TypeOK'
    <3>1. validator' \in Validators
      BY <2>3, ValidateResolvedType DEF ReceiveFrame, TypeOK
    <3>2. returned' \in {"Ok", "None"} \cup StreamErrors \cup Ends
      BY <2>3, ValidateErrorType DEF ReceiveFrame, TypeOK
    <3>3. delivered' \in Seq(Transactions)
      BY <2>3, TransactionOfType DEF ReceiveFrame, TypeOK
    <3> QED BY <2>3, <3>1, <3>2, <3>3 DEF ReceiveFrame, TypeOK
  <2>4. ASSUME NEW end \in Ends, ReceiveEnd(end) PROVE TypeOK'
    BY <2>4 DEF ReceiveEnd, TypeOK
  <2>5. CASE DropNext
    BY <2>5 DEF DropNext, TypeOK
  <2>6. CASE UNCHANGED vars
    BY <2>6 DEF vars, TypeOK
  <2> QED BY <2>1, <2>2, <2>3, <2>4, <2>5, <2>6 DEF Next
<1> QED BY <1>1, <1>2, PTL DEF Spec

(***************************************************************************)
(* Continuity.  FeedIsContinuous relates every pair of transactions but    *)
(* not the validator to any of them; it becomes inductive together with    *)
(* ValidatorRecordsFeed, which says where the validator stands.            *)
(***************************************************************************)

IInv == TypeOK /\ ValidatorRecordsFeed /\ FeedIsContinuous

\* A new attachment has a fresh validator and an empty feed.
LEMMA InitEstablishesIInv == Init /\ TypeOK => IInv
BY DEF Init, IInv, ValidatorRecordsFeed, FeedIsContinuous, NewValidator

\* An accepted frame extends a continuous feed to a continuous feed.
LEMMA AcceptedFrameKeepsContinuity ==
    ASSUME IInv, TypeOK', NEW frame \in Frames, ReceiveFrame(frame),
           ValidateError(validator, frame) = "Ok"
    PROVE  ValidatorRecordsFeed' /\ FeedIsContinuous'
<1> DEFINE tx == TransactionOf(frame)
           n == Len(delivered)
<1>1. /\ validator \in Validators /\ delivered \in Seq(Transactions)
      /\ n \in Nat /\ tx \in Transactions
  BY TransactionOfType DEF IInv, TypeOK
<1>2. /\ delivered' = Append(delivered, tx)
      /\ validator' = ValidateResolved(validator, frame)
  BY DEF ReceiveFrame
<1>3. /\ Len(delivered') = n + 1
      /\ delivered'[n + 1] = tx
      /\ \A i \in 1..n : delivered'[i] = delivered[i]
      /\ delivered' # <<>>
  BY <1>1, <1>2
<1>4. /\ validator'.producer_epoch = tx.epoch
      /\ validator'.last_sequence = tx.sequence
      /\ validator'.mode = validator.mode
  BY <1>1, <1>2, AcceptedFrameIsRecorded, ValidateResolvedType DEF TransactionOf
<1>5. ValidatorRecordsFeed'
  BY <1>3, <1>4 DEF ValidatorRecordsFeed
<1>6. \A i \in 1..n : delivered[i].epoch \in Epochs /\ delivered[i].sequence \in Nat
  <2> SUFFICES ASSUME NEW i \in 1..n
               PROVE  delivered[i].epoch \in Epochs /\ delivered[i].sequence \in Nat
    OBVIOUS
  <2>1. delivered[i] \in Transactions
    BY <1>1
  <2> QED BY <2>1, WidthAssumption DEF Transactions
<1>7. tx.sequence \in Nat
  BY <1>1, WidthAssumption DEF Transactions
<1>8. ASSUME n # 0
      PROVE  /\ delivered[n].epoch = tx.epoch
             /\ tx.sequence > delivered[n].sequence
             /\ validator.mode = "MatchAll" => tx.sequence = delivered[n].sequence + 1
  <2>1. /\ delivered # <<>>
        /\ validator.producer_epoch = delivered[n].epoch
        /\ validator.last_sequence = delivered[n].sequence
    BY <1>8, <1>1 DEF IInv, ValidatorRecordsFeed
  <2>2. validator.last_sequence # None /\ validator.producer_epoch # None
    <3>1. n \in 1..n
      BY <1>1, <1>8
    <3>2. validator.producer_epoch \in Epochs /\ validator.last_sequence \in Nat
      BY <2>1, <3>1, <1>6
    <3>3. validator.producer_epoch \in Nat
      BY <3>2, EpochsAreNumbers
    <3> QED BY <3>2, <3>3, NoneAssumption
  <2> QED BY <2>1, <2>2, <1>1, AcceptedFrameFollows DEF TransactionOf
<1>9. FeedIsContinuous'
  <2> SUFFICES ASSUME NEW i \in 1..(n + 1), NEW j \in 1..(n + 1), i < j
               PROVE  /\ delivered'[i].epoch = delivered'[j].epoch
                      /\ delivered'[j].sequence >= delivered'[i].sequence + (j - i)
                      /\ validator'.mode = "MatchAll" =>
                            delivered'[j].sequence = delivered'[i].sequence + (j - i)
    BY <1>3 DEF FeedIsContinuous
  <2>1. i \in 1..n /\ delivered'[i] = delivered[i]
    BY <1>1, <1>3
  <2>2. CASE j \in 1..n
    BY <2>1, <2>2, <1>3, <1>4 DEF IInv, FeedIsContinuous
  <2>3. CASE j = n + 1 /\ i = n
    BY <2>1, <2>3, <1>1, <1>3, <1>4, <1>6, <1>7, <1>8
  <2>4. CASE j = n + 1 /\ i < n
    <3>1. /\ delivered[i].epoch = delivered[n].epoch
          /\ delivered[n].sequence >= delivered[i].sequence + (n - i)
          /\ validator.mode = "MatchAll" =>
                delivered[n].sequence = delivered[i].sequence + (n - i)
      <4>1. i \in 1..Len(delivered) /\ n \in 1..Len(delivered) /\ i < n
        BY <2>1, <2>4, <1>1
      <4>2. n = Len(delivered)
        OBVIOUS
      <4> HIDE DEF n
      <4> QED BY <4>1, <4>2 DEF IInv, FeedIsContinuous
    <3>2. n # 0
      BY <2>1, <1>1
    <3>3. /\ delivered[i].sequence \in Nat /\ delivered[n].sequence \in Nat
          /\ i \in Nat /\ n \in Nat
      BY <2>1, <2>4, <1>1, <1>6
    <3>4. delivered'[j] = tx /\ j = n + 1
      BY <2>4, <1>3
    <3>5. /\ delivered[n].epoch = tx.epoch
          /\ tx.sequence > delivered[n].sequence
          /\ validator.mode = "MatchAll" => tx.sequence = delivered[n].sequence + 1
      BY <1>8, <3>2
    <3> HIDE DEF n, tx
    <3>6. delivered'[i].epoch = delivered'[j].epoch
      BY <3>1, <3>4, <3>5, <2>1
    <3>7. delivered'[j].sequence >= delivered'[i].sequence + (j - i)
      BY <3>1, <3>3, <3>4, <3>5, <2>1, <1>7
    <3>8. validator'.mode = "MatchAll" =>
             delivered'[j].sequence = delivered'[i].sequence + (j - i)
      BY <3>1, <3>3, <3>4, <3>5, <2>1, <1>4, <1>7
    <3> QED BY <3>6, <3>7, <3>8
  <2> QED BY <2>1, <2>2, <2>3, <2>4, <1>1
<1> QED BY <1>5, <1>9

\* Every step keeps the inductive invariant; only an accepted frame moves it.
LEMMA NextPreservesIInv == IInv /\ TypeOK' /\ [Next]_vars => IInv'
<1> SUFFICES ASSUME IInv, TypeOK', [Next]_vars
             PROVE  ValidatorRecordsFeed' /\ FeedIsContinuous'
  BY DEF IInv
<1>1. ASSUME UNCHANGED <<validator, delivered>>
      PROVE  ValidatorRecordsFeed' /\ FeedIsContinuous'
  BY <1>1 DEF IInv, ValidatorRecordsFeed, FeedIsContinuous
<1>2. ASSUME NEW frame \in Frames, ReceiveFrame(frame)
      PROVE  ValidatorRecordsFeed' /\ FeedIsContinuous'
  <2>1. CASE ValidateError(validator, frame) = "Ok"
    BY <1>2, <2>1, AcceptedFrameKeepsContinuity
  <2>2. CASE ValidateError(validator, frame) # "Ok"
    BY <1>1, <1>2, <2>2 DEF ReceiveFrame, ValidateResolved
  <2> QED BY <2>1, <2>2
<1> QED BY <1>1, <1>2 DEF Next, vars, NextAfterFailure, CallNext, ReceiveEnd, DropNext

\* No gap, no repetition and no change of epoch inside an attachment, for
\* every width of sequence numbers (stream.rs, observe()).
THEOREM Continuity == Spec => []FeedIsContinuous
<1>1. IInv => FeedIsContinuous
  BY DEF IInv
<1> QED BY <1>1, TypeCorrect, InitEstablishesIInv, NextPreservesIInv, PTL DEF Spec

\* The validator always stands at the transaction handed over last, on error
\* paths and after a dropped next() too (stream.rs, validate_resolved()).
THEOREM ValidatorStandsAtFeed == Spec => []ValidatorRecordsFeed
<1>1. IInv => ValidatorRecordsFeed
  BY DEF IInv
<1> QED BY <1>1, TypeCorrect, InitEstablishesIInv, NextPreservesIInv, PTL DEF Spec

(***************************************************************************)
(* Terminal errors and the refinement of OrderedFeed.                      *)
(***************************************************************************)

\* No request to the server is outstanding on a failed attachment.
Quiet == failed => ~awaiting

\* next() tests failed before it awaits, and sets it when it completes.
LEMMA QuietIsInductive == TypeOK /\ Quiet /\ [Next]_vars => Quiet'
BY DEF TypeOK, Quiet, Next, vars, NextAfterFailure, CallNext, ReceiveFrame,
       ReceiveEnd, DropNext

\* A failed attachment never awaits another message (lib.rs, next()).
THEOREM FailedIsQuiet == Spec => []Quiet
<1>1. Init => Quiet
  BY DEF Init, Quiet
<1> QED BY <1>1, TypeCorrect, QuietIsInductive, PTL DEF Spec

\* Errors end an attachment for good: the doc comment of next() in lib.rs.
THEOREM ErrorsEndAttachment == Spec => ErrorsAreTerminal
<1>1. Quiet /\ [Next]_vars => [failed => failed' /\ UNCHANGED <<validator, delivered>>]_vars
  BY DEF Quiet, Next, vars, NextAfterFailure, CallNext, ReceiveFrame,
         ReceiveEnd, DropNext
<1> QED BY <1>1, FailedIsQuiet, PTL DEF Spec, ErrorsAreTerminal

\* A new attachment is an open, empty feed.
LEMMA InitRefines == Init => Feed!Init
BY DEF Init, Feed!Init, NewValidator, Modes

\* An accepted frame is a delivery of the abstract feed, an error closes it,
\* and everything else the attachment does is invisible.
LEMMA StepRefines == IInv /\ IInv' /\ Quiet /\ [Next]_vars => [Feed!Next]_(Feed!vars)
<1> SUFFICES ASSUME IInv, IInv', Quiet, [Next]_vars
             PROVE  Feed!Next \/ UNCHANGED Feed!vars
  OBVIOUS
<1>1. ASSUME UNCHANGED <<validator, failed, delivered>>
      PROVE  UNCHANGED Feed!vars
  BY <1>1 DEF Feed!vars
<1>2. ASSUME NEW end \in Ends, ReceiveEnd(end) PROVE Feed!Close
  BY <1>2 DEF ReceiveEnd, Quiet, Feed!Close
<1>3. ASSUME NEW frame \in Frames, ReceiveFrame(frame)
      PROVE  Feed!Next
  <2>0. /\ validator \in Validators /\ delivered \in Seq(Transactions)
        /\ failed \in BOOLEAN /\ ~failed
    BY <1>3 DEF IInv, TypeOK, Quiet, ReceiveFrame
  <2>1. CASE ValidateError(validator, frame) # "Ok"
    BY <1>3, <2>0, <2>1 DEF ReceiveFrame, ValidateResolved, Feed!Close, Feed!Next
  <2>2. CASE ValidateError(validator, frame) = "Ok"
    <3> DEFINE tx == TransactionOf(frame)
    <3>1. tx \in Transactions
      BY TransactionOfType
    <3>2. /\ delivered' = Append(delivered, tx)
          /\ failed' = failed
          /\ validator'.mode = validator.mode
      BY <1>3, <2>0, <2>2, ValidateResolvedType DEF ReceiveFrame
    <3>3. ASSUME delivered # <<>>
          PROVE  Feed!Follows(delivered[Len(delivered)], tx)
      <4> DEFINE last == delivered[Len(delivered)]
      <4>1. last \in Transactions
        BY <2>0, <3>3
      <4>2. /\ validator.producer_epoch = last.epoch
            /\ validator.last_sequence = last.sequence
        BY <3>3 DEF IInv, ValidatorRecordsFeed
      <4>3. last.sequence \in Nat /\ last.epoch \in Nat
        BY <4>1, TransactionNumbers
      <4>4. validator.last_sequence # None /\ validator.producer_epoch # None
        BY <4>2, <4>3, NoneAssumption
      <4>5. validator.mode \in Modes
        BY <2>0 DEF Validators
      <4>6. /\ tx.epoch = last.epoch
            /\ tx.sequence > last.sequence
            /\ validator.mode = "MatchAll" => tx.sequence = last.sequence + 1
        BY <2>0, <2>2, <4>2, <4>4, AcceptedFrameFollows DEF TransactionOf
      <4> QED BY <4>5, <4>6 DEF Feed!Follows, Modes
    <3>4. Feed!Deliver(tx)
      BY <2>0, <3>2, <3>3 DEF Feed!Deliver
    <3> QED BY <3>1, <3>4 DEF Feed!Next
  <2> QED BY <2>1, <2>2
<1> QED BY <1>1, <1>2, <1>3 DEF Next, vars, NextAfterFailure, CallNext, DropNext, Feed!Next

\* FastpathStream implements the ordered feed: next() of lib.rs hands over one
\* gapless or increasing run of one epoch and nothing after its first error.
THEOREM Refinement == Spec => ImplementsOrderedFeed
<1>1. []IInv /\ []Quiet /\ Init /\ [][Next]_vars => Feed!Spec
  BY InitRefines, StepRefines, PTL DEF Feed!Spec
<1>2. Spec => []IInv
  BY TypeCorrect, InitEstablishesIInv, NextPreservesIInv, PTL DEF Spec
<1> QED BY <1>1, <1>2, FailedIsQuiet, PTL DEF Spec, ImplementsOrderedFeed

(***************************************************************************)
(* The example subscribe-resolved reads from such an attachment.           *)
(* SucceedsOnlyComplete is not inductive: it must be known that the loop   *)
(* never stands at a failed stream, where next() would return the None     *)
(* that ends it with success, and that it has counted every transaction.   *)
(***************************************************************************)
MainInv ==
    /\ maximum \in U64 \cup {None}
    /\ phase = "run" => ~help
    /\ phase \in {"setup", "run"} =>
          /\ outcome = "None" /\ ~failed
          /\ count = Len(delivered)
    /\ phase = "setup" => count = 0
    /\ phase = "run" => maximum \notin 0..count
    /\ SucceedsOnlyComplete

\* One completed next(), with a transaction or with an error.
LEMMA CompletedKeepsMainInv ==
    ASSUME TypeOK, TypeOK', MainInv, phase = "run",
           Completed, UNCHANGED <<help, maximum>>,
           \/ \E frame \in Frames : ReceiveFrame(frame)
           \/ \E end \in Ends : ReceiveEnd(end)
    PROVE  MainInv'
<1>1. /\ maximum \in U64 \cup {None} /\ count = Len(delivered) /\ maximum \notin 0..count
      /\ outcome = "None" /\ count \in Nat /\ ~help
  BY DEF MainInv, TypeOK
<1>2. CASE returned' = "Ok"
  <2>1. "Ok" \notin Ends
    BY CodesAssumption DEF Ends
  <2>2. PICK frame \in Frames : ReceiveFrame(frame)
    BY <1>2, <2>1 DEF ReceiveEnd
  <2>3. failed' = FALSE /\ delivered' = Append(delivered, TransactionOf(frame))
    BY <1>2, <2>2 DEF ReceiveFrame
  <2>4. Len(delivered') = count + 1
    BY <1>1, <2>2, <2>3, TransactionOfType DEF TypeOK
  <2>5. /\ count' = count + 1
        /\ \/ maximum = count + 1 /\ phase' = "done" /\ outcome' = "Ok"
           \/ maximum # count + 1 /\ phase' = "run" /\ outcome' = "None"
    BY <1>1, <1>2 DEF Completed, Continue, Exit
  <2>6. count + 1 # None
    BY <1>1, NoneAssumption
  <2>7. maximum # count + 1 => maximum \notin 0..(count + 1)
    BY <1>1
  <2> QED BY <1>1, <2>3, <2>4, <2>5, <2>6, <2>7 DEF MainInv, SucceedsOnlyComplete
<1>3. CASE returned' # "Ok"
  <2>1. returned' # "None"
    BY ValidateErrorType, CodesAssumption DEF ReceiveFrame, ReceiveEnd, Ends, TypeOK, StreamErrors
  <2>2. phase' = "done" /\ outcome' = returned'
    BY <1>3, <2>1 DEF Completed, Exit
  <2> QED BY <1>1, <1>3, <2>2 DEF MainInv, SucceedsOnlyComplete
<1> QED BY <1>2, <1>3

\* A step of the program is a step of its stream or leaves the stream alone.
LEMMA MainUsesAttachment == MainSpec => Spec
<1>1. MainInit => Init
  BY DEF MainInit
<1>2. [MainNext]_main_vars => [Next]_vars
  BY DEF MainNext, main_vars, Next, vars, Help, SetUpFails, SetUp, MainCallsNext,
     MainReceivesFrame, MainReceivesEnd
<1> QED BY <1>1, <1>2, PTL DEF MainSpec, Spec

\* main of subscribe-resolved, unless it only prints its usage, returns Ok only
\* with as many transactions as it was asked for, for every maximum and every
\* server: an interrupted stream never passes for a complete one.
THEOREM SuccessIsComplete == MainSpec => []SucceedsOnlyComplete
<1>1. MainInit => MainInv
  BY NoneAssumption DEF MainInit, Init, MainInv, SucceedsOnlyComplete, U64
<1>2. TypeOK /\ TypeOK' /\ MainInv /\ [MainNext]_main_vars => MainInv'
  <2> SUFFICES ASSUME TypeOK, TypeOK', MainInv, [MainNext]_main_vars
               PROVE  MainInv'
    OBVIOUS
  <2>1. ASSUME NEW error \in SetupErrors, SetUpFails(error)
        PROVE  MainInv'
    <3>1. error # "Ok"
      BY CodesAssumption DEF SetupErrors
    <3> QED BY <2>1, <3>1 DEF SetUpFails, Exit, vars, MainInv, SucceedsOnlyComplete
  <2>2. CASE SetUp
    BY <2>2 DEF SetUp, vars, MainInv, SucceedsOnlyComplete
  <2>3. CASE MainCallsNext
    BY <2>3 DEF MainCallsNext, CallNext, MainInv, SucceedsOnlyComplete
  <2>4. ASSUME NEW frame \in Frames, MainReceivesFrame(frame)
        PROVE  MainInv'
    BY <2>4, CompletedKeepsMainInv DEF MainReceivesFrame
  <2>5. ASSUME NEW end \in Ends, MainReceivesEnd(end)
        PROVE  MainInv'
    BY <2>5, CompletedKeepsMainInv DEF MainReceivesEnd
  <2>6. CASE Help
    BY <2>6 DEF Help, Exit, vars, MainInv, SucceedsOnlyComplete
  <2>7. CASE UNCHANGED main_vars
    BY <2>7 DEF main_vars, vars, MainInv, SucceedsOnlyComplete
  <2> QED BY <2>1, <2>2, <2>3, <2>4, <2>5, <2>6, <2>7 DEF MainNext
<1>3. MainInv => SucceedsOnlyComplete
  BY DEF MainInv
<1> QED BY <1>1, <1>2, <1>3, TypeCorrect, MainUsesAttachment, PTL DEF MainSpec
=============================================================================

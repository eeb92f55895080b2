---------------------- MODULE ReconnectingStreamProofs ----------------------
(***************************************************************************)
(* Proofs about ReconnectingStream: type correctness, nothing withheld     *)
(* from the consumer, the retry budget, the backoff and its growth, and    *)
(* the refinement of ResettingFeed, for every configuration.               *)
(***************************************************************************)
EXTENDS ReconnectingStream, CanonicalStreamValidatorProofs

(***************************************************************************)
(* The delay.                                                              *)
(***************************************************************************)

\* The minimum of two numbers.
LEMMA MinOfTwo ==
    ASSUME NEW a \in Nat, NEW b \in Nat
    PROVE  Min({a, b}) = IF a <= b THEN a ELSE b
BY DEF Min

\* saturating_pow satisfies its own equation.
LEMMA SaturatingPowUnrolls ==
    /\ saturating_pow[0] = 1
    /\ \A n \in Nat : saturating_pow[n + 1] = Min({2 * saturating_pow[n], MaxU32})
<1> DEFINE step == [n \in Nat |-> [x \in Nat |-> Min({2 * x, MaxU32})]]
           Body(g) == [n \in Nat |-> IF n = 0 THEN 1 ELSE Min({2 * g[n - 1], MaxU32})]
<1>1. step \in Steps(Nat) /\ 1 \in Nat
  <2>1. \A x \in Nat : Min({2 * x, MaxU32}) \in Nat
    BY MinOfTwo, BoundAssumption
  <2> QED BY <2>1 DEF Steps
<1>2. PICK f : SolvesAll(Nat, 1, step, f)
  <2> HIDE DEF step
  <2> QED BY <1>1, RecursionDefines
<1>3. \A n \in Nat : f[n + 1] = Min({2 * f[n], MaxU32})
  BY <1>2 DEF SolvesAll
<1>4. f = Body(f)
  <2>1. \A n \in Nat : n # 0 => n - 1 \in Nat /\ n - 1 + 1 = n
    OBVIOUS
  <2>2. \A n \in Nat : f[n] = IF n = 0 THEN 1 ELSE Min({2 * f[n - 1], MaxU32})
    BY <1>2, <1>3, <2>1 DEF SolvesAll
  <2>3. f = [n \in Nat |-> f[n]]
    BY <1>2 DEF SolvesAll
  <2> QED BY <2>2, <2>3
<1>5. saturating_pow = CHOOSE g : g = Body(g)
  BY DEF saturating_pow
<1> HIDE DEF Body
<1>6. saturating_pow = Body(saturating_pow)
  BY <1>4, <1>5
<1>7. \A n \in Nat : saturating_pow[n] =
         IF n = 0 THEN 1 ELSE Min({2 * saturating_pow[n - 1], MaxU32})
  BY <1>6 DEF Body
<1>8. \A n \in Nat : n + 1 \in Nat /\ n + 1 # 0 /\ n + 1 - 1 = n
  OBVIOUS
<1>9. saturating_pow[0] = 1
  BY <1>7
<1>10. ASSUME NEW n \in Nat
       PROVE  saturating_pow[n + 1] = Min({2 * saturating_pow[n], MaxU32})
  <2>1. saturating_pow[n + 1] =
           IF n + 1 = 0 THEN 1 ELSE Min({2 * saturating_pow[n + 1 - 1], MaxU32})
    BY <1>7, <1>8
  <2> QED BY <1>8, <2>1
<1> QED BY <1>9, <1>10

\* The saturating power is a positive number and never shrinks.
LEMMA SaturatingPowGrows ==
    \A n \in Nat : /\ saturating_pow[n] \in 1..MaxU32
                   /\ saturating_pow[n] <= saturating_pow[n + 1]
<1> DEFINE InRange == {n \in Nat : saturating_pow[n] \in 1..MaxU32}
<1>1. ASSUME NEW n \in InRange
      PROVE  /\ saturating_pow[n + 1] \in 1..MaxU32
             /\ saturating_pow[n] <= saturating_pow[n + 1]
  <2>1. n \in Nat /\ n + 1 \in Nat /\ n + 1 # 0 /\ n + 1 - 1 = n
    OBVIOUS
  <2>2. saturating_pow[n + 1] = Min({2 * saturating_pow[n], MaxU32})
    BY <2>1, SaturatingPowUnrolls
  <2>3. saturating_pow[n] \in 1..MaxU32
    OBVIOUS
  <2> HIDE DEF InRange
  <2>4. 2 * saturating_pow[n] \in Nat /\ MaxU32 \in Nat
    BY <2>3, BoundAssumption
  <2>5. saturating_pow[n + 1] =
           IF 2 * saturating_pow[n] <= MaxU32 THEN 2 * saturating_pow[n] ELSE MaxU32
    BY <2>2, <2>4, MinOfTwo
  <2> QED BY <2>3, <2>4, <2>5
<1>2. 0 \in InRange
  <2>1. saturating_pow[0] = 1
    BY SaturatingPowUnrolls
  <2> QED BY <2>1, BoundAssumption
<1>3. Nat \subseteq InRange
  <2>1. \A n \in InRange \cap Nat : n + 1 \in InRange
    BY <1>1
  <2> HIDE DEF InRange
  <2> QED BY <1>2, <2>1, NaturalInduction
<1> QED BY <1>1, <1>3

\* A delay is at least the initial and at most the maximum delay, and never
\* shorter than the one before, at and beyond the attempt that saturates.
LEMMA DelayBounds ==
    ASSUME NEW n \in Nat
    PROVE  /\ delay(n) \in initial_delay..maximum_delay
           /\ delay(n) <= delay(n + 1)
<1> DEFINE a == saturating_pow[n]
           b == saturating_pow[n + 1]
<1>1. a \in Nat \ {0} /\ b \in Nat \ {0} /\ a <= b
  BY SaturatingPowGrows, BoundAssumption
<1>2. delay(n) = Min({maximum_delay, initial_delay * a})
  BY DEF delay
<1>3. delay(n + 1) = Min({maximum_delay, initial_delay * b})
  BY DEF delay
<1> HIDE DEF a, b
<1>4. /\ initial_delay * a \in Nat /\ initial_delay * b \in Nat
      /\ initial_delay <= initial_delay * a
      /\ initial_delay * a <= initial_delay * b
  BY <1>1, ConfigAssumption
<1> QED BY <1>2, <1>3, <1>4, MinOfTwo, ConfigAssumption

(***************************************************************************)
(* The inductive invariant.  The properties the runs check do not say      *)
(* where the pending future stands; Located does, and with it the loop     *)
(* variable counts the failed attempts (BudgetCounted), the delay taken is *)
(* that of the current attempt (DelayTaken), and the log ends with what    *)
(* the current attachment has handed over (LogEndsWithFeed).               *)
(***************************************************************************)

\* The entries of the log.
Events ==
    {Log!StreamReset(n) : n \in 1..MaxAttachments}
        \cup {Log!Transaction(tx) : tx \in Transactions}
        \cup {Log!Failure(error) : error \in Errors}

TypeInv == TypeOK /\ events \in Seq(Events) /\ validator.mode = mode

\* A future that has left the attachment has dropped it; one that waits for a
\* message has one that works; a broken attachment is kept only for good.
Located ==
    /\ attached => attachment > 0
    /\ attached /\ failed => terminal
    /\ attached /\ terminal => failed
    /\ awaiting => attached /\ ~terminal
    /\ retry # "none" => ~attached /\ ~terminal
    /\ retry = "none" => attempt = 0 /\ backoff = 0

\* The last delay was that of the current attempt, except before the first
\* request ever, which goes out at once.
DelayTaken ==
    retry # "none" =>
        \/ backoff = delay(attempt)
        \/ retry = "subscribe" /\ attachment = 0 /\ attempt = 0 /\ backoff = 0

\* Unless it was dropped, the loop variable counts the failed attempts.
BudgetCounted ==
    ~dropped =>
        /\ outage <= maximum_attempts
        /\ retry # "none" => outage = attempt
        /\ retry = "none" /\ ~terminal => outage = 0
        /\ attached => outage = 0

\* NothingWithheld, entry by entry.
LogEndsWithFeed ==
    attached =>
        LET n == Len(delivered)
            k == Len(events) - n - (IF failed THEN 1 ELSE 0)
        IN  /\ k >= 1
            /\ events[k] = Log!StreamReset(attachment)
            /\ \A i \in 1..n : events[k + i] = Log!Transaction(delivered[i])
            /\ failed => events[Len(events)] = Log!Failure(returned)

IInv ==
    /\ TypeInv
    /\ Located
    /\ DelayTaken
    /\ BudgetCounted
    /\ Attachment!ValidatorRecordsFeed
    /\ LogEndsWithFeed

\* The validator of the attachment is the validator of this module.
LEMMA SameValidator ==
    /\ Attachment!Validators = Validators
    /\ Attachment!Transactions = Transactions
    /\ Attachment!StreamErrors = StreamErrors
    /\ \A v, frame : /\ Attachment!ValidateError(v, frame) = ValidateError(v, frame)
                     /\ Attachment!ValidateResolved(v, frame) = ValidateResolved(v, frame)
                     /\ Attachment!TransactionOf(frame) = TransactionOf(frame)
<1>1. /\ Attachment!Validators = Validators
      /\ Attachment!Transactions = Transactions
      /\ Attachment!StreamErrors = StreamErrors
  BY DEF Attachment!Validators, Validators, Attachment!Transactions, Transactions,
         Attachment!StreamErrors, StreamErrors, Attachment!Modes, Modes
<1>2. ASSUME NEW v, NEW producer_epoch, NEW sequence
      PROVE  Attachment!ObserveError(v, producer_epoch, sequence)
                = ObserveError(v, producer_epoch, sequence)
  BY DEF Attachment!ObserveError, ObserveError, Attachment!EpochChanged, EpochChanged,
         Attachment!Exhausted, Exhausted, Attachment!Regressed, Regressed,
         Attachment!Gap, Gap
<1>3. ASSUME NEW v, NEW frame
      PROVE  Attachment!ValidateError(v, frame) = ValidateError(v, frame)
  BY <1>2 DEF Attachment!ValidateError, ValidateError, Attachment!RequiredFlags, RequiredFlags
<1>4. ASSUME NEW v, NEW frame
      PROVE  Attachment!ValidateResolved(v, frame) = ValidateResolved(v, frame)
  BY <1>3 DEF Attachment!ValidateResolved, ValidateResolved
<1>5. ASSUME NEW frame
      PROVE  Attachment!TransactionOf(frame) = TransactionOf(frame)
  BY DEF Attachment!TransactionOf, TransactionOf
<1> QED BY <1>1, <1>3, <1>4, <1>5

\* The types of the attachment's fields.
LEMMA AttachmentTypes ==
    Attachment!TypeOK <=>
        /\ validator \in Validators /\ failed \in BOOLEAN /\ awaiting \in BOOLEAN
        /\ returned \in {"Ok", "None"} \cup StreamFailures
        /\ delivered \in Seq(Transactions)
BY SameValidator DEF Attachment!TypeOK, Attachment!Ends, StreamFailures

\* Nothing has happened yet.
LEMMA InitEstablishesIInv == Init => IInv
<1> SUFFICES ASSUME Init PROVE IInv
  OBVIOUS
<1>1. validator \in Validators /\ validator.mode = mode
  BY DEF Init, Validators, NewValidator, Modes
<1>2. Attachment!TypeOK
  <2>1. delivered \in Seq(Transactions)
    BY DEF Init
  <2> QED BY <1>1, <2>1, SameValidator DEF Init, Attachment!TypeOK
<1>3. TypeInv
  <2>1. 0 \in 0..MaxAttachments /\ 0 \in 0..MaxOutage
    BY BoundAssumption
  <2>2. 0 \in 0..(maximum_attempts - 1) /\ 0 \in 0..maximum_delay
    BY ConfigAssumption
  <2>3. <<>> \in Seq(Events)
    OBVIOUS
  <2> QED BY <1>1, <1>2, <2>1, <2>2, <2>3 DEF Init, TypeInv, TypeOK
<1>4. Located /\ DelayTaken /\ LogEndsWithFeed
  BY DEF Init, Located, DelayTaken, LogEndsWithFeed
<1>5. BudgetCounted
  BY ConfigAssumption DEF Init, BudgetCounted
<1>6. Attachment!ValidatorRecordsFeed
  BY DEF Init, NewValidator, Attachment!ValidatorRecordsFeed
<1> QED BY <1>3, <1>4, <1>5, <1>6 DEF IInv

(***************************************************************************)
(* The invariant step.  What the actions have in common comes first: the   *)
(* head of the retry loop, and the end of a future with an error.          *)
(***************************************************************************)

\* Entering the loop body keeps the types and leaves the delay of attempt n,
\* or none where no delay is due.
LEMMA BeginAttemptEffect ==
    ASSUME TypeOK, NEW n \in 0..(maximum_attempts - 1), BeginAttempt(n)
    PROVE  /\ attempt' = n /\ attempt' \in 0..(maximum_attempts - 1)
           /\ backoff' \in 0..maximum_delay
           /\ IF attachment > 0 \/ n > 0
              THEN retry' = "sleep" /\ backoff' = delay(n)
              ELSE retry' = "subscribe" /\ backoff' = backoff
<1>1. n \in Nat
  BY ConfigAssumption
<1>2. delay(n) \in 0..maximum_delay
  BY <1>1, DelayBounds, ConfigAssumption
<1> QED BY <1>2 DEF BeginAttempt, MustSleep, TypeOK

\* A future that ends with an error ends the log with it.
LEMMA FinishWithErrorEffect ==
    ASSUME TypeInv, NEW error \in Errors, FinishWithError(error)
    PROVE  /\ retry' = "none" /\ attempt' = 0 /\ backoff' = 0 /\ terminal' = TRUE
           /\ events' \in Seq(Events)
           /\ Len(events') = Len(events) + 1
           /\ events'[Len(events) + 1] = Log!Failure(error)
           /\ \A i \in 1..Len(events) : events'[i] = events[i]
<1>1. Log!Failure(error) \in Events
  BY DEF Events
<1>2. events \in Seq(Events) /\ events' = Append(events, Log!Failure(error))
  BY DEF TypeInv, FinishWithError
<1>3. events' \in Seq(Events) /\ Len(events') = Len(events) + 1
  BY <1>1, <1>2
<1>4. events'[Len(events) + 1] = Log!Failure(error)
  BY <1>1, <1>2
<1>5. \A i \in 1..Len(events) : events'[i] = events[i]
  BY <1>1, <1>2
<1> QED BY <1>3, <1>4, <1>5 DEF FinishWithError, Finish

\* CallNextDetached: the loop begins with attempt zero.
LEMMA CallNextDetachedKeepsIInv ==
    ASSUME IInv, CallNextDetached
    PROVE  IInv'
<1> USE DEF IInv
<1>1. 0 \in 0..(maximum_attempts - 1)
  BY ConfigAssumption
<1>2. /\ BeginAttempt(0) /\ ~attached /\ ~terminal /\ retry = "none" /\ ~awaiting
      /\ UNCHANGED <<validator, failed, awaiting, returned, delivered, attached,
                     mode, attachment, terminal, events, outage, dropped>>
  BY DEF CallNextDetached, Pending, inner, fields
<1>3. /\ attempt' = 0 /\ attempt' \in 0..(maximum_attempts - 1)
      /\ backoff' \in 0..maximum_delay
      /\ IF attachment > 0
         THEN retry' = "sleep" /\ backoff' = delay(0)
         ELSE retry' = "subscribe" /\ backoff' = backoff
  BY <1>1, <1>2, BeginAttemptEffect DEF TypeInv
<1>4. attachment \in Nat
  BY BoundAssumption DEF TypeInv, TypeOK
<1>5. Attachment!TypeOK'
  BY <1>2 DEF TypeInv, TypeOK, Attachment!TypeOK
<1>6. TypeInv'
  BY <1>2, <1>3, <1>5 DEF TypeInv, TypeOK
<1>7. Located'
  BY <1>2, <1>3 DEF Located
<1>8. DelayTaken'
  BY <1>2, <1>3, <1>4 DEF DelayTaken, Located, delay
<1>9. BudgetCounted'
  BY <1>2, <1>3 DEF BudgetCounted
<1>10. Attachment!ValidatorRecordsFeed'
  BY <1>2 DEF Attachment!ValidatorRecordsFeed
<1>11. LogEndsWithFeed'
  BY <1>2 DEF LogEndsWithFeed
<1> QED BY <1>6, <1>7, <1>8, <1>9, <1>10, <1>11

\* CallNextAttached: next() of an attachment that has not failed is pending.
LEMMA CallNextAttachedKeepsIInv ==
    ASSUME IInv, CallNextAttached
    PROVE  IInv'
<1> USE DEF IInv
<1>1. /\ attached /\ ~terminal /\ ~failed /\ awaiting' = TRUE
      /\ UNCHANGED <<validator, failed, returned, delivered, attached, mode,
                     attachment, terminal, retry, attempt, backoff, events,
                     outage, dropped>>
  BY DEF CallNextAttached, Attachment!CallNext, fields, future
<1>2. Attachment!TypeOK'
  BY <1>1 DEF TypeInv, TypeOK, Attachment!TypeOK
<1>3. TypeInv'
  BY <1>1, <1>2 DEF TypeInv, TypeOK
<1>4. Located' /\ DelayTaken' /\ BudgetCounted' /\ LogEndsWithFeed'
  BY <1>1 DEF Located, DelayTaken, BudgetCounted, LogEndsWithFeed, delay
<1>5. Attachment!ValidatorRecordsFeed'
  BY <1>1 DEF Attachment!ValidatorRecordsFeed
<1> QED BY <1>3, <1>4, <1>5

\* ReceiveTransaction: the validator, the feed and the log advance together.
LEMMA ReceiveTransactionKeepsIInv ==
    ASSUME IInv, NEW frame \in Frames, ReceiveTransaction(frame)
    PROVE  IInv'
<1> USE DEF IInv
<1> DEFINE tx == TransactionOf(frame)
<1>1. /\ validator \in Validators /\ delivered \in Seq(Transactions)
      /\ events \in Seq(Events) /\ tx \in Transactions
  BY TransactionOfType, AttachmentTypes DEF TypeInv, TypeOK
<1>2. ValidateError(validator, frame) = "Ok"
  BY SameValidator DEF ReceiveTransaction, Attachment!ReceiveFrame
<1>3. /\ awaiting /\ awaiting' = FALSE /\ failed' = FALSE /\ returned' = "Ok"
      /\ validator' = ValidateResolved(validator, frame)
      /\ delivered' = Append(delivered, tx)
      /\ events' = Append(events, Log!Transaction(tx))
      /\ UNCHANGED <<attached, mode, attachment, terminal, retry, attempt, backoff,
                     outage, dropped>>
  BY <1>2, SameValidator DEF ReceiveTransaction, Attachment!ReceiveFrame, fields, future
<1>4. attached /\ ~terminal /\ ~failed
  BY <1>3 DEF Located
<1>5. /\ validator' \in Validators /\ validator'.mode = mode
      /\ validator'.producer_epoch = tx.epoch
      /\ validator'.last_sequence = tx.sequence
  BY <1>1, <1>2, <1>3, ValidateResolvedType, AcceptedFrameIsRecorded
     DEF TransactionOf, TypeInv
<1>6. delivered' \in Seq(Transactions)
  BY <1>1, <1>3
<1>7. Attachment!TypeOK'
  BY <1>3, <1>5, <1>6, SameValidator DEF Attachment!TypeOK
<1>8. Log!Transaction(tx) \in Events
  BY <1>1 DEF Events
<1>9. events' \in Seq(Events)
  BY <1>1, <1>3, <1>8
<1>10. TypeInv'
  BY <1>3, <1>5, <1>7, <1>9 DEF TypeInv, TypeOK
<1>11. Located' /\ DelayTaken' /\ BudgetCounted'
  BY <1>3, <1>4 DEF Located, DelayTaken, BudgetCounted, delay
<1>12. Attachment!ValidatorRecordsFeed'
  BY <1>1, <1>3, <1>5 DEF Attachment!ValidatorRecordsFeed
<1>13. LogEndsWithFeed'
  <2> DEFINE n == Len(delivered)
             k == Len(events) - n
  <2>1. /\ n \in Nat /\ Len(events) \in Nat /\ k \in Int /\ k >= 1 /\ k + n = Len(events)
        /\ events[k] = Log!StreamReset(attachment)
        /\ \A i \in 1..n : events[k + i] = Log!Transaction(delivered[i])
    BY <1>1, <1>4 DEF LogEndsWithFeed
  <2>2. /\ Len(delivered') = n + 1 /\ delivered'[n + 1] = tx
        /\ \A i \in 1..n : delivered'[i] = delivered[i]
    BY <1>1, <1>3
  <2>3. /\ Len(events') = Len(events) + 1
        /\ events'[Len(events) + 1] = Log!Transaction(tx)
        /\ \A i \in 1..Len(events) : events'[i] = events[i]
    BY <1>1, <1>3, <1>8
  <2> HIDE DEF n, k, tx
  <2>4. k \in 1..Len(events) /\ \A i \in 1..n : k + i \in 1..Len(events)
    BY <2>1
  <2>5. events'[k] = Log!StreamReset(attachment')
    BY <1>3, <2>1, <2>3, <2>4
  <2>6. ASSUME NEW i \in 1..(n + 1)
        PROVE  events'[k + i] = Log!Transaction(delivered'[i])
    <3>1. CASE i \in 1..n
      BY <2>1, <2>2, <2>3, <2>4, <3>1
    <3>2. CASE i = n + 1
      <4>1. k + i = Len(events) + 1
        BY <2>1, <3>2
      <4>2. events'[k + i] = Log!Transaction(tx)
        BY <2>3, <4>1
      <4>3. delivered'[i] = tx
        BY <2>2, <3>2
      <4> QED BY <4>2, <4>3
    <3> QED BY <2>1, <3>1, <3>2
  <2>7. Len(events') - Len(delivered') - (IF failed' THEN 1 ELSE 0) = k
    <3>1. (IF failed' THEN 1 ELSE 0) = 0
      BY <1>3
    <3>2. Len(events') - Len(delivered') = k
      <4> DEFINE l == Len(events)
      <4>1. l \in Nat /\ k \in Int /\ n \in Nat /\ k + n = l
        BY <2>1
      <4>2. Len(events') = l + 1 /\ Len(delivered') = n + 1
        BY <2>2, <2>3
      <4> HIDE DEF l
      <4> QED BY <4>1, <4>2
    <3>3. k \in Int
      BY <2>1
    <3> QED BY <3>1, <3>2, <3>3
  <2> QED BY <1>3, <2>1, <2>2, <2>5, <2>6, <2>7 DEF LogEndsWithFeed
<1> QED BY <1>10, <1>11, <1>12, <1>13

\* An attachment that breaks off is dropped if the error is retried, and is
\* the last thing there is if not.
LEMMA BreakKeepsIInv ==
    ASSUME IInv, NEW error \in StreamFailures,
           awaiting, awaiting' = FALSE, failed' = TRUE, returned' = error,
           UNCHANGED <<validator, delivered>>, HandleError(error)
    PROVE  IInv'
<1> USE DEF IInv
<1>1. /\ attached /\ ~terminal /\ ~failed /\ retry = "none" /\ attempt = 0
      /\ backoff = 0 /\ attachment > 0
  BY DEF Located, TypeInv, TypeOK
<1>2. UNCHANGED <<mode, attachment, outage, dropped>>
  BY DEF HandleError
<1>3. error \in Errors
  BY DEF Errors
<1>4. Attachment!TypeOK'
  <2>1. Attachment!TypeOK
    BY DEF TypeInv, TypeOK
  <2> QED BY <2>1, AttachmentTypes, SameValidator DEF Attachment!TypeOK, StreamFailures, Attachment!Ends
<1>5. Attachment!ValidatorRecordsFeed'
  BY DEF Attachment!ValidatorRecordsFeed
<1>6. CASE Retryable(error)
  <2>1. BeginAttempt(0) /\ attached' = FALSE /\ UNCHANGED <<terminal, events>>
    BY <1>6 DEF HandleError
  <2>2. 0 \in 0..(maximum_attempts - 1)
    BY ConfigAssumption
  <2>3. /\ attempt' = 0 /\ attempt' \in 0..(maximum_attempts - 1)
        /\ backoff' \in 0..maximum_delay
        /\ retry' = "sleep" /\ backoff' = delay(0)
    BY <1>1, <2>1, <2>2, BeginAttemptEffect DEF TypeInv
  <2>4. TypeInv'
    BY <1>2, <1>4, <2>1, <2>3 DEF TypeInv, TypeOK
  <2>5. Located' /\ DelayTaken' /\ LogEndsWithFeed'
    BY <1>1, <2>1, <2>3 DEF Located, DelayTaken, LogEndsWithFeed, delay
  <2>6. BudgetCounted'
    BY <1>1, <1>2, <2>1, <2>3 DEF BudgetCounted
  <2> QED BY <1>5, <2>4, <2>5, <2>6
<1>7. CASE ~Retryable(error)
  <2>1. FinishWithError(error) /\ attached' = attached
    BY <1>7 DEF HandleError
  <2>2. /\ retry' = "none" /\ attempt' = 0 /\ backoff' = 0 /\ terminal' = TRUE
        /\ events' \in Seq(Events)
        /\ Len(events') = Len(events) + 1
        /\ events'[Len(events) + 1] = Log!Failure(error)
        /\ \A i \in 1..Len(events) : events'[i] = events[i]
    BY <1>3, <2>1, FinishWithErrorEffect
  <2>3. TypeInv'
    <3>1. 0 \in 0..(maximum_attempts - 1) /\ 0 \in 0..maximum_delay
      BY ConfigAssumption
    <3> QED BY <1>2, <1>4, <2>1, <2>2, <3>1 DEF TypeInv, TypeOK
  <2>4. Located' /\ DelayTaken'
    BY <1>1, <1>2, <2>1, <2>2 DEF Located, DelayTaken
  <2>5. BudgetCounted'
    BY <1>1, <1>2, <2>1, <2>2 DEF BudgetCounted
  <2>6. LogEndsWithFeed'
    <3> DEFINE n == Len(delivered)
               k == Len(events) - n
    <3>1. /\ n \in Nat /\ Len(events) \in Nat /\ k \in Int /\ k >= 1 /\ k + n = Len(events)
          /\ events[k] = Log!StreamReset(attachment)
          /\ \A i \in 1..n : events[k + i] = Log!Transaction(delivered[i])
      BY <1>1, AttachmentTypes DEF LogEndsWithFeed, TypeInv, TypeOK
    <3>2. Len(delivered') = n
      OBVIOUS
    <3> HIDE DEF n, k
    <3>3. k \in 1..Len(events) /\ \A i \in 1..n : k + i \in 1..Len(events)
      BY <3>1
    <3>4. /\ events'[k] = Log!StreamReset(attachment')
          /\ \A i \in 1..n : events'[k + i] = Log!Transaction(delivered'[i])
      BY <1>2, <2>2, <3>1, <3>3
    <3>5. Len(events') - n - 1 = k
      BY <2>2, <3>1
    <3> QED BY <2>2, <3>1, <3>2, <3>4, <3>5 DEF LogEndsWithFeed
  <2> QED BY <1>5, <2>3, <2>4, <2>5, <2>6
<1> QED BY <1>6, <1>7

\* SleepElapses: the delay has been served.
LEMMA SleepElapsesKeepsIInv ==
    ASSUME IInv, SleepElapses
    PROVE  IInv'
<1> USE DEF IInv
<1>1. /\ retry = "sleep" /\ retry' = "subscribe"
      /\ UNCHANGED <<validator, failed, awaiting, returned, delivered, attached, mode,
                     attachment, terminal, attempt, backoff, events, outage, dropped>>
  BY DEF SleepElapses, inner, fields
<1>2. Attachment!TypeOK'
  BY <1>1 DEF TypeInv, TypeOK, Attachment!TypeOK
<1>3. TypeInv'
  BY <1>1, <1>2 DEF TypeInv, TypeOK
<1>4. Located' /\ DelayTaken' /\ BudgetCounted' /\ LogEndsWithFeed'
  BY <1>1 DEF Located, DelayTaken, BudgetCounted, LogEndsWithFeed, delay
<1>5. Attachment!ValidatorRecordsFeed'
  BY <1>1 DEF Attachment!ValidatorRecordsFeed
<1> QED BY <1>3, <1>4, <1>5

\* SubscribeSucceeds: a fresh attachment, announced by its reset.
LEMMA SubscribeSucceedsKeepsIInv ==
    ASSUME IInv, SubscribeSucceeds
    PROVE  IInv'
<1> USE DEF IInv
<1>1. /\ retry = "subscribe" /\ attachment < MaxAttachments
      /\ attached' = TRUE /\ validator' = NewValidator(mode) /\ failed' = FALSE
      /\ returned' = "None" /\ delivered' = <<>>
      /\ attachment' = attachment + 1
      /\ events' = Append(events, Log!StreamReset(attachment'))
      /\ retry' = "none" /\ attempt' = 0 /\ backoff' = 0
      /\ outage' = 0 /\ dropped' = FALSE
      /\ UNCHANGED <<awaiting, mode, terminal>>
  BY DEF SubscribeSucceeds, OpenAttachment, Finish
<1>2. ~attached /\ ~terminal /\ ~awaiting
  BY <1>1 DEF Located
<1>3. attachment' \in 1..MaxAttachments /\ attachment' > 0
  BY <1>1, BoundAssumption DEF TypeInv, TypeOK
<1>4. Attachment!TypeOK'
  <2>1. validator' \in Validators
    BY <1>1 DEF TypeInv, TypeOK, NewValidator, Validators
  <2>2. delivered' \in Seq(Transactions)
    BY <1>1
  <2>3. awaiting' \in BOOLEAN
    BY <1>1 DEF TypeInv, TypeOK, Attachment!TypeOK
  <2> QED BY <1>1, <2>1, <2>2, <2>3, SameValidator DEF Attachment!TypeOK
<1>5. /\ events' \in Seq(Events) /\ Len(events') = Len(events) + 1
      /\ events'[Len(events) + 1] = Log!StreamReset(attachment')
  <2>1. Log!StreamReset(attachment') \in Events
    BY <1>3 DEF Events
  <2> QED BY <1>1, <2>1 DEF TypeInv
<1>6. TypeInv'
  <2>1. 0 \in 0..(maximum_attempts - 1) /\ 0 \in 0..maximum_delay /\ 0 \in 0..MaxOutage
    BY ConfigAssumption, BoundAssumption
  <2>2. validator'.mode = mode'
    BY <1>1 DEF NewValidator
  <2>3. attachment' \in 0..MaxAttachments
    BY <1>3
  <2> QED BY <1>1, <1>4, <1>5, <2>1, <2>2, <2>3 DEF TypeInv, TypeOK
<1>7. Located' /\ DelayTaken'
  BY <1>1, <1>2, <1>3 DEF Located, DelayTaken
<1>8. BudgetCounted'
  BY <1>1, ConfigAssumption DEF BudgetCounted
<1>9. Attachment!ValidatorRecordsFeed'
  BY <1>1 DEF Attachment!ValidatorRecordsFeed, NewValidator
<1>10. LogEndsWithFeed'
  <2>1. Len(events) \in Nat /\ Len(delivered') = 0
    BY <1>1 DEF TypeInv
  <2>2. Len(events') - Len(delivered') - (IF failed' THEN 1 ELSE 0) = Len(events) + 1
    BY <1>1, <1>5, <2>1
  <2>3. Len(events) + 1 >= 1
    BY <2>1
  <2> QED BY <1>1, <1>5, <2>1, <2>2, <2>3 DEF LogEndsWithFeed
<1> QED BY <1>6, <1>7, <1>8, <1>9, <1>10

\* SubscribeFails: the next attempt after its delay, or the final error.
LEMMA SubscribeFailsKeepsIInv ==
    ASSUME IInv, NEW error \in SubscribeFailures, SubscribeFails(error)
    PROVE  IInv'
<1> USE DEF IInv
<1>1. /\ retry = "subscribe" /\ ~attached /\ ~terminal /\ ~awaiting
      /\ outage' = Min({outage + 1, MaxOutage})
      /\ UNCHANGED <<validator, failed, awaiting, returned, delivered, attached,
                     mode, attachment, dropped>>
  BY DEF SubscribeFails, inner, Located
<1>2. outage' \in 0..MaxOutage
  BY <1>1, MinOfTwo, BoundAssumption DEF TypeInv, TypeOK
<1>3. ~dropped => outage' = attempt + 1 /\ outage' <= maximum_attempts
  <2>1. ~dropped => outage = attempt
    BY <1>1 DEF BudgetCounted
  <2>2. attempt \in Nat /\ attempt + 1 <= maximum_attempts /\ outage \in Nat
    BY ConfigAssumption, BoundAssumption DEF TypeInv, TypeOK
  <2>3. outage' = IF outage + 1 <= MaxOutage THEN outage + 1 ELSE MaxOutage
    BY <1>1, <2>2, MinOfTwo, BoundAssumption
  <2> QED BY <2>1, <2>2, <2>3, BoundAssumption, ConfigAssumption
<1>4. Attachment!TypeOK'
  BY <1>1 DEF TypeInv, TypeOK, Attachment!TypeOK
<1>5. Attachment!ValidatorRecordsFeed' /\ LogEndsWithFeed'
  BY <1>1 DEF Attachment!ValidatorRecordsFeed, LogEndsWithFeed
<1>6. CASE Retryable(error) /\ ~LastAttempt(attempt)
  <2>1. BeginAttempt(attempt + 1) /\ UNCHANGED <<terminal, events>>
    BY <1>6 DEF SubscribeFails
  <2>2. attempt + 1 \in 0..(maximum_attempts - 1) /\ attempt + 1 > 0
    BY <1>6, ConfigAssumption DEF LastAttempt, TypeInv, TypeOK
  <2>3. /\ attempt' = attempt + 1 /\ attempt' \in 0..(maximum_attempts - 1)
        /\ backoff' \in 0..maximum_delay
        /\ retry' = "sleep" /\ backoff' = delay(attempt + 1)
    BY <2>1, <2>2, BeginAttemptEffect DEF TypeInv
  <2>4. TypeInv'
    BY <1>1, <1>2, <1>4, <2>1, <2>3 DEF TypeInv, TypeOK
  <2>5. Located' /\ DelayTaken'
    BY <1>1, <2>1, <2>3 DEF Located, DelayTaken, delay
  <2>6. BudgetCounted'
    BY <1>1, <1>3, <2>1, <2>3 DEF BudgetCounted
  <2> QED BY <1>5, <2>4, <2>5, <2>6
<1>7. CASE ~Retryable(error) \/ LastAttempt(attempt)
  <2>1. FinishWithError(error)
    BY <1>7 DEF SubscribeFails
  <2>2. /\ retry' = "none" /\ attempt' = 0 /\ backoff' = 0 /\ terminal' = TRUE
        /\ events' \in Seq(Events)
    BY <2>1, FinishWithErrorEffect DEF Errors
  <2>3. 0 \in 0..(maximum_attempts - 1) /\ 0 \in 0..maximum_delay
    BY ConfigAssumption
  <2>4. TypeInv'
    BY <1>1, <1>2, <1>4, <2>2, <2>3 DEF TypeInv, TypeOK
  <2>5. Located' /\ DelayTaken'
    BY <1>1, <2>2 DEF Located, DelayTaken
  <2>6. BudgetCounted'
    BY <1>1, <1>3, <2>2 DEF BudgetCounted
  <2> QED BY <1>5, <2>4, <2>5, <2>6
<1> QED BY <1>6, <1>7

\* DropNext: the loop variable is lost, the fields stay.
LEMMA DropNextKeepsIInv ==
    ASSUME IInv, DropNext
    PROVE  IInv'
<1> USE DEF IInv
<1>1. /\ Pending /\ awaiting' = FALSE /\ dropped' = TRUE
      /\ retry' = "none" /\ attempt' = 0 /\ backoff' = 0
      /\ UNCHANGED <<validator, failed, returned, delivered, attached, mode,
                     attachment, terminal, events, outage>>
  BY DEF DropNext, Finish, fields
<1>2. Attachment!TypeOK'
  BY <1>1 DEF TypeInv, TypeOK, Attachment!TypeOK
<1>3. 0 \in 0..(maximum_attempts - 1) /\ 0 \in 0..maximum_delay
  BY ConfigAssumption
<1>4. TypeInv'
  BY <1>1, <1>2, <1>3 DEF TypeInv, TypeOK
<1>5. Located' /\ DelayTaken' /\ BudgetCounted' /\ LogEndsWithFeed'
  BY <1>1 DEF Located, DelayTaken, BudgetCounted, LogEndsWithFeed
<1>6. Attachment!ValidatorRecordsFeed'
  BY <1>1 DEF Attachment!ValidatorRecordsFeed
<1> QED BY <1>4, <1>5, <1>6

\* A step that changes nothing.
LEMMA StutteringKeepsIInv ==
    ASSUME IInv, UNCHANGED vars
    PROVE  IInv'
<1> USE DEF IInv
<1>1. UNCHANGED <<validator, failed, awaiting, returned, delivered, attached, mode,
                  attachment, terminal, retry, attempt, backoff, events, outage,
                  dropped>>
  BY DEF vars, inner, fields, future
<1>2. Attachment!TypeOK'
  BY <1>1 DEF TypeInv, TypeOK, Attachment!TypeOK
<1>3. TypeInv'
  BY <1>1, <1>2 DEF TypeInv, TypeOK
<1>4. Located' /\ DelayTaken' /\ BudgetCounted' /\ LogEndsWithFeed'
  BY <1>1 DEF Located, DelayTaken, BudgetCounted, LogEndsWithFeed, delay
<1>5. Attachment!ValidatorRecordsFeed'
  BY <1>1 DEF Attachment!ValidatorRecordsFeed
<1> QED BY <1>3, <1>4, <1>5

\* What the two ways to lose an attachment have in common.
LEMMA BreakEffect ==
    ASSUME IInv,
           \/ \E frame \in Frames : ReceiveInvalidFrame(frame)
           \/ \E end \in Attachment!Ends : ReceiveEnd(end)
    PROVE  \E error \in StreamFailures :
              /\ awaiting /\ awaiting' = FALSE /\ failed' = TRUE /\ returned' = error
              /\ UNCHANGED <<validator, delivered>>
              /\ HandleError(error)
<1>1. ASSUME NEW frame \in Frames, ReceiveInvalidFrame(frame)
      PROVE  /\ returned' \in StreamFailures
             /\ awaiting /\ awaiting' = FALSE /\ failed' = TRUE
             /\ UNCHANGED <<validator, delivered>>
             /\ HandleError(returned')
  <2>1. /\ awaiting /\ awaiting' = FALSE
        /\ returned' = ValidateError(validator, frame) /\ returned' # "Ok"
        /\ failed' = (ValidateError(validator, frame) # "Ok")
        /\ validator' = ValidateResolved(validator, frame)
        /\ delivered' = IF ValidateError(validator, frame) = "Ok"
                        THEN Append(delivered, TransactionOf(frame)) ELSE delivered
        /\ HandleError(returned')
    BY <1>1, SameValidator DEF ReceiveInvalidFrame, Attachment!ReceiveFrame
  <2>2. validator \in Validators
    BY AttachmentTypes DEF IInv, TypeInv, TypeOK
  <2>3. returned' \in StreamErrors
    BY <2>1, <2>2, ValidateErrorType
  <2> QED BY <2>1, <2>3 DEF ValidateResolved, StreamFailures
<1>2. ASSUME NEW end \in Attachment!Ends, ReceiveEnd(end)
      PROVE  /\ end \in StreamFailures
             /\ awaiting /\ awaiting' = FALSE /\ failed' = TRUE /\ returned' = end
             /\ UNCHANGED <<validator, delivered>>
             /\ HandleError(end)
  BY <1>2 DEF ReceiveEnd, Attachment!ReceiveEnd, Attachment!Ends, StreamFailures
<1> QED BY <1>1, <1>2

\* Every step keeps the inductive invariant.
LEMMA NextPreservesIInv == IInv /\ [Next]_vars => IInv'
<1> SUFFICES ASSUME IInv, [Next]_vars PROVE IInv'
  OBVIOUS
<1>1. CASE NextAfterTerminal \/ UNCHANGED vars
  BY <1>1, StutteringKeepsIInv DEF NextAfterTerminal
<1>2. CASE CallNextAttached
  BY <1>2, CallNextAttachedKeepsIInv
<1>3. CASE CallNextDetached
  BY <1>3, CallNextDetachedKeepsIInv
<1>4. ASSUME NEW frame \in Frames, ReceiveTransaction(frame) PROVE IInv'
  BY <1>4, ReceiveTransactionKeepsIInv
<1>5. CASE \/ \E frame \in Frames : ReceiveInvalidFrame(frame)
           \/ \E end \in Attachment!Ends : ReceiveEnd(end)
  BY <1>5, BreakEffect, BreakKeepsIInv
<1>6. CASE SleepElapses
  BY <1>6, SleepElapsesKeepsIInv
<1>7. CASE SubscribeSucceeds
  BY <1>7, SubscribeSucceedsKeepsIInv
<1>8. ASSUME NEW error \in SubscribeFailures, SubscribeFails(error) PROVE IInv'
  BY <1>8, SubscribeFailsKeepsIInv
<1>9. CASE DropNext
  BY <1>9, DropNextKeepsIInv
<1> QED BY <1>1, <1>2, <1>3, <1>4, <1>5, <1>6, <1>7, <1>8, <1>9 DEF Next

\* The inductive invariant holds throughout.
THEOREM Invariance == Spec => []IInv
BY InitEstablishesIInv, NextPreservesIInv, PTL DEF Spec

(***************************************************************************)
(* What the invariant says to the consumer.                                *)
(***************************************************************************)

\* The types of all fields and histories are kept, whatever the server sends
\* and wherever the consumer drops next() (reconnect.rs, ReconnectingStream).
THEOREM TypeCorrect == Spec => []TypeOK
<1>1. IInv => TypeOK
  BY DEF IInv, TypeInv
<1> QED BY <1>1, Invariance, PTL

\* No call of next() makes more subscribe requests than maximum_attempts.
THEOREM Budget == Spec => []RetriesWithinBudget
<1>1. IInv => RetriesWithinBudget
  BY DEF IInv, BudgetCounted, RetriesWithinBudget
<1> QED BY <1>1, Invariance, PTL

\* Every subscribe request of a call that lost an attachment, and every
\* repeated one, has waited the whole delay of its attempt; without dropped
\* futures the attempts are the failed requests of the outage (reconnect.rs,
\* ReconnectingStream::next()).
THEOREM Backoff == Spec => []SubscribesAfterBackoff
<1>1. IInv => SubscribesAfterBackoff
  <2> SUFFICES ASSUME IInv, retry = "subscribe"
               PROVE  /\ ~dropped => backoff = delay(outage) \/ (attachment = 0 /\ outage = 0)
                      /\ attachment > 0 \/ attempt > 0 => backoff = delay(attempt)
    BY DEF SubscribesAfterBackoff
  <2>1. backoff = delay(attempt) \/ (attachment = 0 /\ attempt = 0)
    BY DEF IInv, DelayTaken
  <2>2. ~dropped => outage = attempt
    BY DEF IInv, BudgetCounted
  <2> QED BY <2>1, <2>2
<1> QED BY <1>1, Invariance, PTL

\* The delays of one call never shrink and never exceed the maximum, for every
\* configuration, even where 2u32.saturating_pow() saturates (reconnect.rs, delay).
THEOREM Growth == Spec => BackoffGrows
<1>1. IInv /\ [Next]_vars =>
         [retry = "subscribe" /\ retry' = "sleep" =>
             backoff' \in backoff..maximum_delay /\ backoff' >= initial_delay]_vars
  <2> SUFFICES ASSUME IInv, [Next]_vars, retry = "subscribe", retry' = "sleep"
               PROVE  backoff' \in backoff..maximum_delay /\ backoff' >= initial_delay
    OBVIOUS
  <2>1. ~awaiting
    BY DEF IInv, Located
  <2>2. PICK error \in SubscribeFailures : SubscribeFails(error)
    BY <2>1 DEF Next, NextAfterTerminal, CallNextAttached, CallNextDetached, Pending,
       ReceiveTransaction, ReceiveInvalidFrame, ReceiveEnd, Attachment!ReceiveFrame,
       Attachment!ReceiveEnd, SleepElapses, SubscribeSucceeds, Finish, DropNext,
       vars, future
  <2>3. BeginAttempt(attempt + 1) /\ ~LastAttempt(attempt)
    BY <2>2 DEF SubscribeFails, FinishWithError, Finish
  <2>4. attempt \in Nat /\ attempt + 1 \in 0..(maximum_attempts - 1) /\ attempt + 1 > 0
    BY <2>3, ConfigAssumption DEF LastAttempt, IInv, TypeInv, TypeOK
  <2>5. backoff' = delay(attempt + 1)
    BY <2>3, <2>4, BeginAttemptEffect DEF IInv, TypeInv
  <2>6. /\ delay(attempt) \in initial_delay..maximum_delay
        /\ delay(attempt + 1) \in initial_delay..maximum_delay
        /\ delay(attempt) <= delay(attempt + 1)
    BY <2>4, DelayBounds
  <2>7. backoff = delay(attempt) \/ backoff = 0
    BY DEF IInv, DelayTaken
  <2> QED BY <2>5, <2>6, <2>7, ConfigAssumption
<1> QED BY <1>1, Invariance, PTL DEF Spec, BackoffGrows

\* Whatever the attachment handed to next() has reached the consumer, wherever
\* next() was dropped and called again (reconnect.rs, lib.rs).
THEOREM NothingIsWithheld == Spec => []NothingWithheld
<1>1. IInv => NothingWithheld
  <2> SUFFICES ASSUME IInv, attached PROVE NothingWithheld
    BY DEF NothingWithheld
  <2> DEFINE n == Len(delivered)
             handed == [i \in 1..Len(delivered) |-> Log!Transaction(delivered[i])]
             ending == IF failed THEN <<Log!Failure(returned)>> ELSE <<>>
             e == IF failed THEN 1 ELSE 0
             reset == <<Log!StreamReset(attachment)>>
             suffix == reset \o handed \o ending
             k == Len(events) - n - e
  <2>1. /\ delivered \in Seq(Transactions) /\ events \in Seq(Events)
        /\ attachment \in 1..MaxAttachments /\ failed \in BOOLEAN
    BY AttachmentTypes, BoundAssumption DEF IInv, TypeInv, TypeOK, Located
  <2>2. /\ n \in Nat /\ Len(events) \in Nat /\ e \in {0, 1}
        /\ k \in Nat \ {0} /\ k + n + e = Len(events)
        /\ events[k] = Log!StreamReset(attachment)
        /\ \A i \in 1..n : events[k + i] = Log!Transaction(delivered[i])
        /\ failed => events[Len(events)] = Log!Failure(returned)
    BY <2>1 DEF IInv, LogEndsWithFeed
  <2>3. reset \in Seq(Events) /\ Len(reset) = 1 /\ reset[1] = Log!StreamReset(attachment)
    BY <2>1 DEF Events
  <2>4. /\ handed \in Seq(Events) /\ Len(handed) = n
        /\ \A i \in 1..n : handed[i] = Log!Transaction(delivered[i])
    <3>1. \A i \in 1..n : Log!Transaction(delivered[i]) \in Events
      BY <2>1 DEF Events
    <3>2. handed \in [1..n -> Events]
      BY <3>1
    <3>3. \A i \in 1..n : handed[i] = Log!Transaction(delivered[i])
      OBVIOUS
    <3> HIDE DEF handed, n
    <3> QED BY <2>2, <3>2, <3>3, FunctionIsSequence
  <2>5. ending \in Seq(Events) /\ Len(ending) = e
    <3>1. CASE failed
      <4>1. Len(events) \in 1..Len(events)
        <5> HIDE DEF k, n, e
        <5> QED BY <2>2
      <4>2. events[Len(events)] \in Events
        BY <2>1, <4>1
      <4>3. Log!Failure(returned) \in Events
        BY <2>2, <3>1, <4>2
      <4> QED BY <3>1, <4>3
    <3>2. CASE ~failed
      BY <3>2
    <3> QED BY <3>1, <3>2
  <2> HIDE DEF n, handed, ending, e, reset, k
  <2>6. /\ reset \o handed \in Seq(Events)
        /\ Len(reset \o handed) = 1 + n
        /\ \A i \in 1..(1 + n) : (reset \o handed)[i] = IF i = 1 THEN reset[1] ELSE handed[i - 1]
    <3>1. /\ reset \o handed \in Seq(Events)
          /\ Len(reset \o handed) = 1 + n
          /\ \A i \in 1..(1 + n) : (reset \o handed)[i] =
                IF i <= 1 THEN reset[i] ELSE handed[i - 1]
      <4>1. /\ reset \o handed \in Seq(Events)
            /\ Len(reset \o handed) = Len(reset) + Len(handed)
            /\ \A i \in 1..(Len(reset) + Len(handed)) : (reset \o handed)[i] =
                  IF i <= Len(reset) THEN reset[i] ELSE handed[i - Len(reset)]
        <5> HIDE DEF suffix
        <5> QED BY <2>3, <2>4, ConcatProperties
      <4>2. Len(reset) = 1 /\ Len(handed) = n
        BY <2>3, <2>4
      <4> HIDE DEF suffix
      <4> QED BY <4>1, <4>2
    <3>2. \A i \in 1..(1 + n) : i <= 1 <=> i = 1
      BY <2>2
    <3> QED BY <3>1, <3>2
  <2>7. /\ suffix \in Seq(Events)
        /\ Len(suffix) = 1 + n + e
        /\ \A i \in 1..(1 + n + e) : suffix[i] = IF i <= 1 + n THEN (reset \o handed)[i]
                                                ELSE ending[i - (1 + n)]
    BY <2>2, <2>5, <2>6, ConcatProperties
  <2> HIDE DEF suffix
  <2> DEFINE tail == SubSeq(events, k, Len(events))
  <2>8. /\ tail \in Seq(Events)
        /\ Len(tail) = 1 + n + e
        /\ \A i \in 1..(1 + n + e) : tail[i] = events[k + i - 1]
    <3>1. \A i \in k..Len(events) : events[i] \in Events
      BY <2>1, <2>2
    <3>2. k \in Int /\ Len(events) \in Int /\ k <= Len(events) /\ Len(events) - k + 1 = 1 + n + e
      BY <2>2
    <3> QED BY <3>1, <3>2, SubSeqProperties
  <2> HIDE DEF tail
  <2>9. \A i \in 1..(1 + n + e) : tail[i] = suffix[i]
    <3> SUFFICES ASSUME NEW i \in 1..(1 + n + e) PROVE tail[i] = suffix[i]
      OBVIOUS
    <3>1. CASE i = 1
      <4>1. suffix[1] = reset[1]
        <5>1. 1 \in 1..(1 + n + e) /\ 1 \in 1..(1 + n) /\ 1 <= 1 + n
          BY <2>2
        <5>2. suffix[1] = (reset \o handed)[1]
          BY <2>7, <5>1
        <5>3. (reset \o handed)[1] = reset[1]
          BY <2>6, <5>1
        <5> QED BY <5>2, <5>3
      <4>2. tail[1] = events[k]
        BY <2>2, <2>8
      <4> QED BY <2>2, <2>3, <3>1, <4>1, <4>2
    <3>2. CASE i \in 2..(1 + n)
      <4>1. i - 1 \in 1..n /\ i # 1 /\ i \in 1..(1 + n) /\ k + (i - 1) = k + i - 1 /\ i <= 1 + n
        BY <2>2, <3>2
      <4>2. suffix[i] = (reset \o handed)[i]
        BY <2>7, <4>1
      <4>3. (reset \o handed)[i] = handed[i - 1]
        BY <2>6, <4>1
      <4>4. tail[i] = events[k + (i - 1)]
        BY <2>8, <4>1
      <4> QED BY <2>2, <2>4, <4>1, <4>2, <4>3, <4>4
    <3>3. CASE i = 2 + n
      <4>1. e = 1 /\ i - (1 + n) = 1 /\ ~(i <= 1 + n) /\ k + i - 1 = Len(events)
        BY <2>2, <3>3
      <4>2. failed
        BY <4>1 DEF e
      <4>3. suffix[i] = ending[1]
        BY <2>7, <4>1
      <4>4. tail[i] = events[Len(events)]
        BY <2>8, <4>1
      <4>5. ending[1] = Log!Failure(returned)
        BY <4>2 DEF ending
      <4> QED BY <2>2, <4>2, <4>3, <4>4, <4>5
    <3> QED BY <2>2, <3>1, <3>2, <3>3
  <2>10. tail = suffix
    BY <2>7, <2>8, <2>9, SeqEqual
  <2>11. Len(events) >= Len(suffix) /\ Len(events) - Len(suffix) + 1 = k
    BY <2>2, <2>7
  <2> QED BY <2>10, <2>11 DEF NothingWithheld, tail, suffix, reset, handed, ending
<1> QED BY <1>1, Invariance, PTL

(***************************************************************************)
(* The refinement of ResettingFeed.                                        *)
(***************************************************************************)

\* An accepted transaction may follow the last event of the log.
LEMMA ReceiveTransactionRefines ==
    ASSUME IInv, NEW frame \in Frames, ReceiveTransaction(frame)
    PROVE  Log!Next
<1> DEFINE tx == TransactionOf(frame)
           last == events[Len(events)]
<1>1. /\ validator \in Validators /\ delivered \in Seq(Transactions)
      /\ events \in Seq(Events) /\ tx \in Transactions /\ validator.mode = mode
      /\ mode \in Modes
  BY TransactionOfType, AttachmentTypes DEF IInv, TypeInv, TypeOK
<1>2. /\ ValidateError(validator, frame) = "Ok" /\ awaiting
      /\ events' = Append(events, Log!Transaction(tx))
      /\ UNCHANGED <<mode, attachment, terminal>>
  BY SameValidator DEF ReceiveTransaction, Attachment!ReceiveFrame, fields
<1>3. attached /\ ~terminal /\ ~failed
  BY <1>2 DEF IInv, Located
<1> DEFINE n == Len(delivered)
           k == Len(events) - n
<1>4. /\ n \in Nat /\ Len(events) \in Nat /\ k \in Nat \ {0} /\ k + n = Len(events)
      /\ events[k] = Log!StreamReset(attachment)
      /\ \A i \in 1..n : events[k + i] = Log!Transaction(delivered[i])
  BY <1>1, <1>3 DEF IInv, LogEndsWithFeed
<1>5. Log!MayFollow(last, tx)
  <2>1. CASE n = 0
    <3>1. last = Log!StreamReset(attachment)
      BY <1>4, <2>1
    <3> QED BY <3>1 DEF Log!MayFollow, Log!StreamReset
  <2>2. CASE n # 0
    <3> DEFINE previous == delivered[n]
    <3>1. n \in 1..n /\ previous \in Transactions /\ delivered # <<>>
      BY <1>1, <1>4, <2>2
    <3>2. last = Log!Transaction(previous)
      BY <1>4, <3>1
    <3>3. /\ validator.producer_epoch = previous.epoch
          /\ validator.last_sequence = previous.sequence
      BY <3>1 DEF IInv, Attachment!ValidatorRecordsFeed
    <3>4. previous.sequence \in Nat /\ previous.epoch \in Nat
      BY <3>1, TransactionNumbers
    <3>5. validator.last_sequence # None /\ validator.producer_epoch # None
      BY <3>3, <3>4, NoneAssumption
    <3>6. /\ tx.epoch = previous.epoch
          /\ tx.sequence > previous.sequence
          /\ mode = "MatchAll" => tx.sequence = previous.sequence + 1
      BY <1>1, <1>2, <3>3, <3>5, AcceptedFrameFollows DEF TransactionOf
    <3> HIDE DEF previous, last, tx
    <3>7. last.kind = "Transaction" /\ last.tx = previous
      BY <3>2 DEF Log!Transaction
    <3> QED BY <1>1, <3>6, <3>7 DEF Log!MayFollow, Modes
  <2> QED BY <2>1, <2>2
<1>6. events # <<>>
  BY <1>4
<1>7. Log!Deliver(tx)
  BY <1>2, <1>3, <1>5, <1>6 DEF Log!Deliver
<1> QED BY <1>1, <1>7 DEF Log!Next

\* An error that ends the wrapper ends the log.
LEMMA FinishWithErrorRefines ==
    ASSUME IInv, NEW error \in Errors, ~terminal, FinishWithError(error),
           UNCHANGED <<mode, attachment>>
    PROVE  Log!Next
<1>1. Log!Fail(error)
  BY DEF FinishWithError, Log!Fail
<1> QED BY <1>1 DEF Log!Next

\* Each step of the wrapper is a step of the feed or invisible to it.
LEMMA StepRefines == IInv /\ [Next]_vars => [Log!Next]_(Log!vars)
<1> SUFFICES ASSUME IInv, [Next]_vars
             PROVE  Log!Next \/ UNCHANGED <<mode, attachment, events, terminal>>
  BY DEF Log!vars
<1>1. CASE UNCHANGED vars \/ NextAfterTerminal \/ CallNextAttached
           \/ CallNextDetached \/ SleepElapses \/ DropNext
  BY <1>1 DEF vars, fields, NextAfterTerminal, CallNextAttached, CallNextDetached,
     SleepElapses, DropNext
<1>2. ASSUME NEW frame \in Frames, ReceiveTransaction(frame) PROVE Log!Next
  BY <1>2, ReceiveTransactionRefines
<1>3. CASE \/ \E frame \in Frames : ReceiveInvalidFrame(frame)
           \/ \E end \in Attachment!Ends : ReceiveEnd(end)
  <2>1. PICK error \in StreamFailures : awaiting /\ HandleError(error)
    BY <1>3, BreakEffect
  <2>2. ~terminal
    BY <2>1 DEF IInv, Located
  <2>3. error \in Errors
    BY DEF Errors
  <2>4. CASE Retryable(error)
    BY <2>1, <2>4 DEF HandleError
  <2>5. CASE ~Retryable(error)
    BY <2>1, <2>2, <2>3, <2>5, FinishWithErrorRefines DEF HandleError
  <2> QED BY <2>4, <2>5
<1>4. CASE SubscribeSucceeds
  <2>1. ~terminal
    BY <1>4 DEF SubscribeSucceeds, IInv, Located
  <2>2. Log!Reset
    BY <1>4, <2>1 DEF SubscribeSucceeds, Log!Reset
  <2> QED BY <2>2 DEF Log!Next
<1>5. ASSUME NEW error \in SubscribeFailures, SubscribeFails(error)
      PROVE  Log!Next \/ UNCHANGED <<mode, attachment, events, terminal>>
  <2>1. ~terminal /\ UNCHANGED <<mode, attachment>>
    BY <1>5 DEF SubscribeFails, IInv, Located
  <2>2. error \in Errors
    BY DEF Errors
  <2>3. CASE FinishWithError(error)
    BY <2>1, <2>2, <2>3, FinishWithErrorRefines
  <2>4. CASE UNCHANGED <<terminal, events>>
    BY <2>1, <2>4
  <2> QED BY <1>5, <2>3, <2>4 DEF SubscribeFails
<1> QED BY <1>1, <1>2, <1>3, <1>4, <1>5 DEF Next

\* The wrapper implements the feed it promises: resets numbered without gaps,
\* one ordered feed between two of them, and an error last (reconnect.rs).
THEOREM Refinement == Spec => ImplementsResettingFeed
<1>1. Init => Log!Init
  BY DEF Init, Log!Init, Modes
<1>2. Init /\ []IInv /\ [][Next]_vars => Log!Spec
  BY <1>1, StepRefines, PTL DEF Log!Spec
<1> QED BY <1>2, Invariance, PTL DEF Spec, ImplementsResettingFeed
=============================================================================

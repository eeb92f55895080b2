# TLA+ model of tx-stream-client

This directory models the Polaris transaction stream client (the Rust workspace
with the crates `polaris-tx-stream-client` and `polaris-tx-stream-protocol`):
what one attachment to the server promises, what the reconnect wrapper adds,
what the filter sends, how a canonical frame is laid out, encoded and
checked, what the connection settings mean for the messages, and the two example
programs from their arguments to their exit. TLC checks small instances; TLAPS
proves the results listed under "Proofs" for every value of the constants.
Paths below are relative to the repository, `client/` stands for `crates/polaris-tx-stream-client/src/` and
`protocol/` for `crates/polaris-tx-stream-protocol/src/`.

## The system

```
 producer --> server ==(HTTP/2 stream)==> FastpathStream --> ReconnectingStream --> consumer
                ^                          |  StreamValidator        |
                |                          |    ValidatedFrame::parse|
                +--- subscribe(filter) <---+------ backoff, retry ---+
             server ==(HTTP/2 stream)==> TransactionStream -----------------------> consumer
                                           ObservationValidator
                                             CanonicalStreamValidator
```

There are no threads, tasks or queues of the client's own. All concurrency is
that of futures: one call of `next()` is pending at a time (`&mut self`), it
runs without interruption between two awaits, and the consumer may drop it at
any await and call again. The server, the connection and the timers act while
the client waits.

| component | state | operations | talks to |
| --- | --- | --- | --- |
| `protocol/stream.rs` `CanonicalStreamValidator` | mode, epoch, last sequence | `new`, `validate_resolved` (`observe` inside) | parses each frame with `frame.rs`; owned by both streams |
| `client/lib.rs` `FastpathStream` | stream, validator, `failed` | `next` (one await, `message()`) | validator; server |
| `client/observations.rs` `TransactionStream` | stream, `ObservationValidator` (canonical validator, epoch, structural sequence), `failed` | `next`, `validate` | canonical validator; server |
| `client/reconnect.rs` `ReconnectingStream` | optional stream, filter, attachment number, `terminal`; the attempt number is a local of the future | `next` (awaits the inner `next`, the sleep, the request) | `FastpathClient::subscribe`, `FastpathStream` |
| `client/filter.rs` `ResolvedFilter` | rules | `match_all`, `rule`, `mode`, `into_request` | its mode goes to the validator, its rules to the server |
| `client/lib.rs` `FastpathClient` | channel, key, config | `connect`, `from_channel`, `subscribe`, `subscribe_transactions` | server; its config caps the messages of both streams |
| `examples/subscribe-transactions` | counts, deadline | `main` on a `current_thread` runtime | `connect`, the filter, `TransactionStream` under `timeout_at` |
| `examples/subscribe-resolved` | count, maximum | `main` | `connect`, the filter, `FastpathStream` in a `while let` |
| `protocol/frame.rs` | none; a caller's buffer | `FrameEncoder::encode_into`, `FrameHeaderV1::validate`/`decode`, `ValidatedFrame::parse` | transaction parser |
| `protocol/transaction.rs` | none; iterators keep offsets | `SanitizedTransactionView::try_new`, iterators, accessors | `wire.rs` for its limits |
| `protocol/wire.rs` | none | classification and size limits | - |

What is hard here, and hardly reached by the repository's tests: cancellation
of `next()` at each of its awaits; a validator that has been advanced for
something the consumer never received, or the reverse; state that a failed check
leaves half advanced; two sequence domains that share an epoch; a retry counter
that dies with its future; a restart of the producer between or within
attachments; a late answer to a subscription given up; the agreement between
the mode the client computes and the filtering the server does; a cap on messages
against what the contract allows; a deadline against messages that are ready; two
tables of byte offsets that must agree; the numeric
edges of sequences, powers of two, limits and regions. `PROJECT.json` lists
each at its line under `hazards`.

## Modules

| module | models | remarks |
| --- | --- | --- |
| `CanonicalStreamValidator` | `protocol/stream.rs` | pure operators: a validator and a frame give a verdict and a next validator |
| `OrderedFeed` | the promise of one attachment | abstract: a feed of transactions that only grows, in order and in one epoch, until it is closed |
| `FastpathStream` | `client/lib.rs`, `FastpathStream` | implements `OrderedFeed` |
| `TransactionStream` | `client/observations.rs` | implements `OrderedFeed` twice, once per domain |
| `ResettingFeed` | the promise of the wrapper | abstract: a log of resets, transactions and at most one last failure |
| `ReconnectingStream` | `client/reconnect.rs` and the outcomes of `subscribe()` | contains `FastpathStream` as `Attachment`; implements `ResettingFeed` |
| `ResolvedFilter` | `client/filter.rs` | with the server's reading of a rule, for comparison |
| `LiveSession` | the whole client against a correct producer and server | composes `ReconnectingStream` and `ResolvedFilter` |
| `TransportConfig` | `client/lib.rs`: the settings, the checks of `connect()`, the caps of `from_channel()`; the lengths of the messages of `fastpath.proto` | pure operators |
| `SubscribeTransactions` | `examples/subscribe-transactions`, its runtime, a correct producer and server | composes `TransactionStream`, `ResolvedFilter` and `TransportConfig` |
| `SubscribeResolved` | `examples/subscribe-resolved` | extends `FastpathStream` with the program around it |
| `FrameLayout` | the header of `protocol/frame.rs`: its fields, the byte tables of `encode()` and `decode()`, and `validate()` | pure operators |
| `FrameCodec` | `encode_into()`, the way to the receiver, `decode()` and `parse()` | uses `FrameLayout` |
| `RequestLimits` | `protocol/wire.rs`: buckets, `encoded_limit`, `request_limit` | pure operators, compared with the encodings in `ProtocolProofs` |
| `WireLimits` | `protocol/wire.rs`: `classify`, `raw_limit`, `validate_raw_size` | pure operators |
| `TransactionFormat` | reference: what a transaction is, how it is written, which are sane | external format, stated without offsets |
| `TransactionView` | `protocol/transaction.rs` | `try_new`, iterators, accessors, compared with `TransactionFormat` |
| `MCLiveSession`, `MCSubscribeTransactions`, `MCFrameCodec`, `MCTransactionView` | instances for TLC | structured constants a configuration cannot write |
| `CanonicalStreamValidatorProofs`, `FastpathStreamProofs`, `TransactionStreamProofs`, `ReconnectingStreamProofs`, `ResolvedFilterProofs`, `LiveSessionProofs`, `SubscribeTransactionsProofs` | theorems about the module they are named after; `FastpathStreamProofs` also about `SubscribeResolved` | the first also holds the principles of induction and recursion |
| `ProtocolProofs` | theorems about `FrameLayout`, `FrameCodec`, `RequestLimits`, `TransportConfig` and `TransactionView` | it extends both machines, so the names of the second begin with `View` (`ViewSpec`, `ViewTypeOK`) |

**Steps.** An action goes from one await to the next. `CallNext` is a call up to
`message().await`; `ReceiveFrame`, `ReceiveEnd` and their like are the arrival
of a message with everything `next()` then does until it returns or awaits
again. A call that returns without an await (`NextAfterFailure`,
`NextAfterTerminal`) is a step of its own. `DropNext` drops the future where it
stands: the fields of the struct stay, the locals of the future go. In
`ReconnectingStream` the local is `attempt`; `retry` records whether the future
is in the sleep or in the request.

**Validator.** `ValidateError` is the verdict in the order of the checks of
`validate_resolved()` and `observe()`; `ValidateResolved` assigns epoch and
sequence only for `"Ok"`. A frame is what the validator looks at: whether it
parses, whether bytes follow it, its flags, its epoch and its sequence.
Sequences are 1..`MaxU64`, so `checked_add` and its exhaustion occur.

**TransactionStream.** `ReceiveCanonical` advances the inner validator before the
epochs of the two domains are compared, as `validate()` does, and
`ReceiveUnresolved` assigns the structural sequence before that comparison.
`RawTransactions` are the fields of the protobuf message as they come off the
wire, zero epochs and sequences and over-long reasons included.

**ReconnectingStream.** `HandleError` is the match on the inner error up to the
first await of the retry loop. `BeginAttempt` is the head of the loop body
(sleep unless this is the very first attempt of the wrapper), `SubscribeFails`
its error arm, and `delay` the backoff with both saturations: the power at
`MaxU32`, the product beyond every maximum, which `min` hides.

**LiveSession.** Producer, server and connection are not in the repository. They
are modelled from what the client relies on (README.md, "Semantics"): sequences
are contiguous within an epoch, a subscription starts live, a restart begins a
new epoch and ends every subscription, the filter alone decides what is left
out, and the connection keeps order but may break and lose its tail. A request
may be accepted although its answer comes too late.

**SubscribeTransactions.** The program waits in one place only, parked under
`timeout_at(deadline, stream.next())`. On its `current_thread` runtime the task
that reads the connection and the timer driver run while `main` is parked, so
`ConnectionReads` and `DeadlinePasses` are steps of that phase; a woken `main`
polls `next()` before the clock, so `TimeoutElapses` needs that nothing is ready.
`ReceiveHead` is a return of `next()` with everything the loop then does,
including the `?` that leaves `main`; `Exit` drops stream and client. A message
longer than `max_message_bytes` ends the stream with a status before the
validator sees it (`Refused`). The example has the default settings; the module
lets a program of its shape choose others, or bring a channel to `from_channel()`.
In the producer, canonical sequences count resolved transactions, structural
ones count all of them and show only in unresolved observations, and the
filter sees loaded keys only where they are resolved.

**SubscribeResolved.** Steps of `FastpathStream`, each with what the loop does
when `next()` returns. Everything before the loop is one step: it prints the usage and
succeeds (`Help`), fails with any of its errors, or opens the stream. Names of the program that the stream has too
begin with `Main`.

**Frames.** A header is a record of its fields. `WrittenAt` and `ReadAt` are the
offsets and widths in `encode()` and `decode()`, transcribed separately; `Decode`
takes the value of each field from the bytes `ReadAt` names (`SourceOf`). Bytes
that only mark the format stand for the error `decode()` reports for them, and a
changed byte is a change of the field it belongs to (`SendWithByteChanged`,
`FieldsAt`, `FormatErrorAt`). A body is the sequence of its bytes, each labelled
with what it is a byte of, and "foreign" once it has changed
(`SendWithBodyByteChanged`), which is all that the properties tell apart. What
`SanitizedTransactionView::try_new` says of a transaction is part of the
transaction; of bytes that were changed in place it may say anything
(`TransactionsIn`), so `parse()` has several possible results then (`ParseErrors`).
A header that `validate()` accepts has the layout of some
transaction length and key counts (`ValidLayoutIsDetermined`), so relabelled
layouts and single damaged bytes are the damage to a header worth trying. A frame meets
one damage. It carries no checksum: a changed byte inside a key or a transaction that
still parses is accepted and handed out, and `AcceptedIsAuthentic` says no more than
that it stays alone and in its place.

**Transactions.** `TransactionView` keeps what the code keeps, offsets and counts,
and reads the bytes again for each item. `ViewSignatureFirst` and
`ViewMessageFirst` are the two constructors up to the comparison with the end
of the input; a failed read is the offset `Bad`, which no later read leaves, so
each early return with `Parse` shows at the end. `Reading` is what a view hands out of
its input. The accessors of counts are left out of it: `num_instructions` and
`num_address_table_lookups` are where the iterators start, and the totals of looked-up
accounts serve `parse()` only, where they are the `writable` and `readonly` of
`FrameCodec`'s transactions. The sanitize rules follow as
one operator each. The 16-bit sums of lookup counts are checked additions in the
code; they cannot overflow, for a transaction is too short (`SumAssumption`, with the
real sizes 1232 + 128 * 128 <= 65536). Bytes are numbers below `2 * HIGH` and
every width that the code derives from 8 bits is derived from `HIGH`.

## Runs

| run | configuration | states | what it shows |
| --- | --- | --- | --- |
| `fastpath` | `MCFastpathStream.cfg` | 1,042 | with an arbitrary server, the feed is continuous, the validator stands at its end, errors are final; refinement of `OrderedFeed` |
| `transactions` | `MCTransactionStream.cfg` | 3,138 | one epoch over both domains, both validators in agreement while the attachment lives; refinement of `OrderedFeed` in each domain |
| `reconnect` | `MCReconnectingStream.cfg` | 71,816 | nothing counted by a validator is withheld from the consumer, retries within budget, each after the whole delay that is due, and the delay grows up to its cap; refinement of `ResettingFeed` |
| `reconnect_live` | `MCReconnectLiveness.cfg` | 1,394 | a `next()` that lost its attachment ends with a reset or an error |
| `filter` | `MCResolvedFilter.cfg` | 58,827 | limits and uniqueness for every sequence of calls; match-all mode only where the server leaves nothing out, filtered mode only where each rule alone leaves something out |
| `session` | `MCLiveSession.cfg` | 901,682 | no false report of corruption or loss by a correct server; the consumer holds a gapless prefix of what was selected since its subscription began; nothing is lost while it stands |
| `session_live` | `MCSessionLiveness.cfg` | 33,192 | what has arrived is handed over, even to a consumer that drops `next()` again and again |
| `transactions_session` | `MCSubscribeTransactions.cfg` | 695,825 | the summary counts each selected observation once and under its reason, up to the point where the program stopped; no alarm with a correct server; no legal message is refused by a client made with `connect()`; the program ends |
| `resolved_program` | `MCSubscribeResolved.cfg` | 1,564 | unless asked for its usage, the program succeeds only with as many transactions as it was asked for, although its loop takes `None` for an end |
| `frame` | `MCFrameCodec.cfg` | 316,588 | `encode_into()` writes a whole frame or nothing; in an accepted frame each region holds its own bytes under the layout and version it was encoded with, and only the damaged byte of the body or field of the metadata differs |
| `transaction` | `MCTransactionView.cfg` | 28,719 | an accepted transaction is sane, and what its accessors and iterators hand out is its input to the last byte; every sane transaction is accepted; `classify()` agrees |
| `duplicate_keys` | `MCDuplicateKeys.cfg` | | a violation: see "Finding" |

**Bounds, and why they are enough.** `MaxU64 = 5` in `fastpath` leaves room for
a start anywhere, a gap, a repetition, a regression and exhaustion, and for
feeds of up to five transactions; two epochs are one change of epoch. The
validator compares only with the last sequence, so longer feeds bring no new
case, and the proofs cover them. `maximum_attempts = 4` with `initial_delay = 2`, `maximum_delay = 5`
and `MaxU32 = 3` in `reconnect` makes the doubling delay pass through both its
cap and the saturation of the power; two attachments (`MaxAttachments`) make
one reconnection, after which the state is that of the first but for
the number. `MaxOutage` exceeds `maximum_attempts`, so a budget overrun would
be seen. `session` has two epochs, three transactions published
(`MaxPublished`), a transaction that the filter may tell from another, and one
filter of each shape that matters to `mode()`. `filter` has two keys, two rules,
three keys per rule, and lists of up to two keys, repeated or malformed ones included.
`frame` has the real 256-byte header; each byte of header and body is damaged in turn. It has
3-byte keys and a 10-byte body, so that padding of
0 to 7 bytes, bodies at and beyond the capacity, and every region boundary
occur. `transactions_session` has the real sizes of messages and of the cap, with
one setting that `connect()` accepts and one just below what a canonical message
needs; one account, three transactions published (`MaxPublished`), each touching
the account by a static key, a loaded key or not at all, and two epochs, so that
a filtered gap, an unresolved observation between two resolved ones and a restart
all occur. The lowest accepted cap is the critical one: a higher one refuses less.
`resolved_program` has four sequence numbers, so up to four transactions, and every
maximum from zero to four as well as none. Sizes are constants, and the proofs of the layout hold for the real ones.
`transaction` has 3-bit bytes (`HIGH = 4`), so that counts of two bytes, indices
beyond a byte's range of accounts and the wrapped difference of two bytes occur in
transactions of at most 44 bytes. Its inputs are a good transaction of each
version with one group of parts at a time taking all its small values, and
eight samples cut off anywhere, extended by any byte, and with any one byte
changed or turned into a two-byte count.

Deadlock is checked except where the modelled object is used up: a filter that
has been requested or rejected, a frame that has been parsed, a transaction that
has been read, and the program `subscribe-resolved` when it has ended.

**Fairness.** Safety needs none. `reconnect_live` assumes weak fairness of
`SleepElapses` (a tokio timer fires) and of the completion of a request, with
success or failure (`subscribe_timeout` ends it at the latest); it assumes nothing
of the server or the consumer. `session_live` assumes that the consumer keeps
calling `next()` (weak fairness of `CallNext`) and strong fairness of
`ReceiveHead`: a message that has arrived is returned by the first poll of a
call, so dropping calls at an await cannot keep it back for ever. Weak fairness
would not do, for each drop disables the step. `transactions_session` assumes weak
fairness of each stage of `main` (the runtime polls a task that has been woken, and
`connect()` and the subscription are bounded by their timeouts) and strong fairness
of `DeadlinePasses`: each turn of the timer driver looks at the clock, but a message
that wakes `main` disables the step. Nothing is assumed of producer, server or connection.

**Mutants.** Operators introduced by a comment "Mutant" change one definition
the way a plausible bug would: a lost early return, a power that wraps, a
validator advanced before its check, a message lost with a dropped future.
`PROJECT.json` pairs each property with a mutant that violates it.

## Proofs

All are about the modules that TLC runs, and hold for every value of the constants
under the assumptions the modules declare, each of which TLC evaluates:

| assumption | says | why the code justifies it |
| --- | --- | --- |
| `WidthAssumption`, `EpochAssumption`, `NoneAssumption` | `MaxU64` is positive, epochs are in `1..MaxU64`, `None` is no number | the frame decoder rejects epoch 0 |
| `ReasonAssumption` | the longest reason is positive | it is 128 |
| `ConfigAssumption`, `BoundAssumption`; `ClientAssumption` repeats both | delays and attempts are what `ReconnectingStream::new` accepts; the bounds are numbers | the constructor rejects the rest |
| `LimitAssumption`, `KeyAssumption` | limits are numbers; there is a key; the two special values are no key and no vote | - |
| `SessionAssumption` | the filters are made of rules; the producer does not run out of sequence numbers (`MaxPublished <= MaxU64`); a status is not one of the client's own verdicts | separate variants of one error type |
| `ProgramAssumption` | the settings tried are configurations; no message is longer than the longest canonical one; `MaxPublished <= MaxU64`; a status is not one of the client's own verdicts | the widths of the settings; `UnresolvedMessageAlwaysFits` for the other kind; as above |
| `CodesAssumption` | a status is neither success nor `None` | likewise |
| `SizeAssumption`, `CodecAssumption` | sizes are positive; headers and transactions tried are of their types | - |
| `FormatAssumption` | sizes, heap limits and the heap unit are positive, the other limits are numbers, `NoValue` is none; a mask of five bits fits in `U32_BYTES > 2` bytes | they are what the constants and types of `transaction.rs` are |
| `InputAssumption` | inputs are sequences of bytes, each with a transaction (`WireTransactions`) it was made of | the bytes are arbitrary; the transaction is a record of what the sender meant |

**Induction and recursion.** The library's induction principles take a predicate,
which the installed provers cannot instantiate. `CanonicalStreamValidatorProofs` states
them of a set of numbers instead (`NaturalInduction`, from the well-foundedness of
`<`), and derives from it that a recursion on the natural numbers defines a
function (`RecursionDefines`) and that two recursions with the same steps agree
(`RecursionsAgree`). `saturating_pow` of the backoff, `Selection` of the session,
`LittleEndianAt`, the loop of the parser (`Loop`), the sum of its lookups (`Together`) and
what is left of a number without its lowest bytes (`Shifted`) are such functions, and so is
the library's `FlattenSeq`, with which the reference concatenates what it writes: its values
are those of the prefixes `GrowsTo` (`FlattenUnfolds`).

`FastpathStreamProofs`, from the lemmas of `CanonicalStreamValidatorProofs` (an
accepted frame follows the one before; a rejected one changes nothing):

- `TypeCorrect`, `Continuity`, `ValidatorStandsAtFeed`. `FeedIsContinuous` is not
  inductive: it says nothing of what the next frame is compared with. With
  `ValidatorRecordsFeed` it is (`IInv`): a new frame is compared with the last
  transaction handed over, which stands at a known distance from every
  earlier one.
- `ErrorsEndAttachment`, from `Quiet`: a failed attachment has no pending call.
- `Refinement`: every step is a step of `OrderedFeed` or a stutter.
- `SuccessIsComplete`, about `SubscribeResolved` (where `--help` is not asked for). The loop takes the `None` of a failed
  stream for its end, so it must be known that it never calls `next()` again after
  an error, and that `count` is the length of what was handed over (`MainInv`).

`TransactionStreamProofs`, with `IInv` = types, `Quiet`, `OneEpoch` and
`ValidatorsAgree`:

- `TypeCorrect`, `SharedEpoch`, `Agreement`, `ErrorsEndAttachment`. The agreement
  is guarded by `~failed`, for a rejected observation leaves the inner state
  ahead of the outer; `Quiet` is what keeps that state from being used.
- `ResolvedRefinement` and `UnresolvedRefinement`: each domain is an
  `OrderedFeed`, the second always in filtered mode.

`ReconnectingStreamProofs`. Its `IInv` relates the attachment, the log and the place
where the future stands; besides the types and `ValidatorRecordsFeed` of the
attachment it has four parts:

- `Located`: which fields go with which place. A pending read has a working
  attachment, a retry has none, a broken attachment is kept only for good. Without
  it a step could hand over what an attachment given up had received.
- `BudgetCounted`: unless its future was dropped, the loop variable counts the
  failed attempts of the outage. `RetriesWithinBudget` alone speaks of the count only.
- `DelayTaken`: the last delay is that of the current attempt, except before the
  very first request.
- `LogEndsWithFeed`: the log ends with the reset of the attachment, then what it
  handed over, then its failure, entry by entry.

`Backoff` says two things: whatever was dropped, a request of a call that has lost an
attachment, or has failed before, waited `delay(attempt)`; and without dropped futures
that is `delay(outage)`, one step up for each failure. From the invariant follow
`TypeCorrect`, `Budget`, `Backoff`, `NothingIsWithheld`, `Growth` (an action
property: the delay of one future never falls and passes no cap, from
`DelayBounds` and the growth of the saturating power, by induction) and
`Refinement`: every step of the wrapper is a step of `ResettingFeed` or a stutter.

`ResolvedFilterProofs`: `ModeIsExact`, by the two transactions that a restricted rule
cannot both admit, and with it `ModeAgrees` (which is not an equivalence: rules that
leave nothing out only between them are judged filtered); `MatchAllSelectsEverything`, which the
session needs; `TypeCorrect` and `RequestsAreWellFormed` from the invariant that every
rule taken so far is within the limits and injective list by list.

`LiveSessionProofs` composes the two. `ClientIsReconnectingStream` is the step by step
proof that a session lets the client do nothing it could not do alone, so every
theorem about the wrapper holds in it. What the client has been handed and what is
under way form one `Pipeline`; `SessionInv` says that it has no gap the validator would
report, neither inside nor at the end where the producer adds (`Continuous`), that it
is what the filter selects (`Selective`), that the mode is that of the filter
(`ModeIsOfFilter`), and that a subscription the client does not hold is one it is
asking for (`Registered`). The head of the connection is therefore accepted
(`HeadIsAccepted`), which gives `NoFalseAlarms`, `DeliveredPrefix` and `NothingLost`;
none of the three is inductive, since none says anything of what is still under way.

`ProtocolProofs`:

- `ValidLayoutIsDetermined`, `RegionsTileBody` and `FrameFitsSlot`, by arithmetic from the
  checks of `validate()`, for every header size, capacity and key size.
  `DecodeInvertsEncode` from the lemma that no byte belongs to two fields, and
  `HeaderBytesAccountedFor`: from the ninth byte on each is a byte of a field or
  checked against the format. (The first eight are written as zeros and never looked at.)
- `EncodedIsAccepted`: what `encode_into()` writes, `parse()` accepts. With it `CodecInv`
  is inductive: a frame on the way still has the bytes of its body as far as it goes
  (`SameBytes`) and at most one field of its metadata differs (`OneFieldDiffers`), or it
  has the header that was written and one byte of its body differs (`OneByteDiffers`).
  `AcceptedFrameIsWhatWasEncoded` shows that a layout which is accepted of a frame of the
  first kind is the one that was written, and in either case a byte of a region is its own
  or foreign (`RegionsHoldTheirBytes`); a changed byte of the padding is refused. From these, `TypeCorrect`, `EncodingIsAtomic` and
  `AcceptedFramesAreAuthentic`.
- with the real sizes: `CanonicalMessageAlwaysFits` (from `FrameFitsSlot`) and
  `UnresolvedMessageAlwaysFits`: no configuration that `connect()` accepts refuses a
  message the contract allows. `AcceptedFilterCanBeSent`: 16 rules of 256 keys stay
  below the encoding cap. `EncodedLimitIsExact`: the table of `encoded_limit()` is
  exactly the length of the longest texts; `RequestLimitIsExact`: the two checked
  operations lose nothing; `BucketsFollowLimits`.

`ProtocolProofs`, the parser. `try_new` keeps offsets and counts and throws away what it has
seen; the iterators and accessors read the bytes again. `AcceptedIsSane` and `ViewTypeOK` say
nothing of an iterator half way, so neither is inductive. `ViewInv` (proved as
`ViewInvariance`) is; it says

- `Accepted`: what is accepted is what one of the two constructors has made of the input, it
  has passed every rule, and its size was checked before;
- `InstructionsInv` and `LookupsInv`: an iterator that has handed out `k` items has `k` fewer to
  go, stands where the loop of `try_new` stood after `k` turns, and has handed out what those turns
  read; it ends only when none are left.

`LoopReads` gives the turns of the loop by recursion: every turn reads items of the right
type and no turn comes back from `Bad`. An accepted input ends where the cursor does, so no
turn was bad (`SignatureFirstIsTraversable`, `MessageFirstIsTraversable`), and the
iterator's `?` never ends it early. From this:

- `ViewTypeCorrect`: every offset an iterator takes is that of a good turn, hence in the input.
- `ClassificationAgrees`: bytes that hold a header behind the signatures hold the byte that
  `classify()` looks at, and at the same offset (`MessageFollowsSignatures`).
- `AcceptedTransactionsAreSane`, by the groups of rules. The bound on read-only accounts is a
  difference that wraps, but there are at least as many keys as signatures where it is accepted
  (`NoWrapping`). The sum over the lookups is a number (`TogetherIsNumber`). The accessor of the
  heap size adds up the sizes before it, the constructor has skipped them one by one: where
  nothing was bad these are the same offset (`ConfigIsSkipped`). Each item that was read is one
  that the rules were asked about (`ReadToTheEndIsAll`, `ViewHoldsItems`).

`ProtocolProofs`, the parser and its reference. `Serialize` says what a transaction looks like
on the wire without any offset; the parser knows nothing but offsets. `Written(o, s, e)`
stands between them: the bytes of the input from `o` up to `e` are those of `s`. What is
written one after the other is written together, and the other way round
(`WrittenTogether`, `WrittenApart`); a sequence of parts, through the cursors between them
(`TiledIsWritten`, `WrittenIsTiled`). For every part of a transaction two lemmas then say that

- what is read there was written there: `ReadIsWritten` for bytes, `CompactReadIsWritten`,
  `NumberReadIsWritten` and `VectorReadIsWritten` for the encodings of numbers and lists,
  `InstructionReadIsWritten`, `V1InstructionReadIsWritten`, `LookupReadIsWritten` for one item,
  `...ReadAreWritten` for all turns of a loop, `ConfigReadIsWritten` and `HeaderReadIsWritten`;
- what was written there is read: the same names from `Written...IsRead` to
  `Written...AreRead`.

With the first, `ReadingsAreFaithful`: an accepted input is `Serialize` of what its view
hands out. The parts of the view, in the order of the wire, begin where the one before
has ended (`MessageFirstIsLaidOut`, `SignatureFirstIsLaidOut`) at places in the input
(`...IsInPlace`), and the last ends with the input, so they tile it (`...IsFaithful`).
It is here that a compact number must have a single encoding (the zero second byte is
refused) and that the accessors of the configuration must take the offsets that the
constructor skipped to. By `ViewInv` the iterators hand out what the loops saw, which
makes it a theorem about every reader.

With the second, `SaneTransactionsAreAccepted`: the constructor finds in the bytes of a
sane transaction what was written (`FoundIn`, by `MessageFirstIsFound` and
`SignatureFirstIsFound`: the early tests for a minimum of remaining bytes pass, since no
item is shorter than three bytes and no lookup shorter than a key and three), and no
rule refuses it (`FoundIsOk`: the wrapping difference does not wrap, the sum over the
lookups is that of the transaction, a multiple of the heap unit has no remainder).
`SourceInv`, that the input and its transaction stay what they were, makes it inductive.
Lists written compactly are shorter than `HIGH * HIGH`, since a length beyond takes a
third byte: in the real sizes 16384, more than the 4096 bytes of the longest
transaction. The theorem holds for any width of a byte, of a key and of a signature.

`SubscribeTransactionsProofs` follows the program `subscribe-transactions` through both
domains at once. `EachObservedOnce` and `NoFalseAlarm` say nothing of messages under way, of
the validators or of the producer's numbers, and no conjunct survives a step by itself.
`IInv` (proved inductive as `Invariance`) has, besides types and alarms:

- `Staged`: what there can be at each stage of `main`. Nothing is observed before the filter
  is made, nothing handed over before the subscription stands, and nothing remains on the
  wire after the exit.
- `Flowing`: in each domain, what was handed over followed by what is under way is what
  was observed and selected since the subscription began (`Expected`): all of it while
  the subscription stands, a prefix of it once the connection has lost its tail.
- `Orderly`: what is expected is of one epoch, ascends, has no gap in the canonical
  domain under match-all, and goes on like that where the producer adds. Canonical
  numbers count the resolved observations and structural ones count all, so the step
  from the log to either number is a lemma about cardinalities (`NextNumber`).
- `Recorded`: both validators stand where their domain has come to.
- `Counted`: the counts of the summary are those of what was handed over.

`Those`, the elements of a sequence that are in a set, is a recursive function; its lemmas
(what it does to `Append`, to the tail, to a concatenation, and what its elements keep of
the order) carry the argument from one message to the two domains. The message at the
head of the connection is then the next one expected of its kind, its validator accepts it
(by the lemmas of `CanonicalStreamValidatorProofs`), and the epoch of the other domain is
the same. Hence `NoFalseAlarms`, `EachCountedOnce`, `TypeCorrect` (with it that no count
exceeds the number of observations), and `LegalMessagesFit` from the checks of `connect()`.

**Only model-checked.** All liveness (`RetryCompletes`, `ArrivedIsDelivered`, `Terminates`):
fairness and ENABLED are beyond the prover. Every other property of the passing runs is
stated by a theorem.

## Finding

README.md:88 says "Invalid or duplicate keys are rejected locally."
`ResolvedFilter::rule` (`client/filter.rs:36`) looks for duplicates within one
list at a time, so a rule that names the same key in two of its lists, to
include and to exclude for instance, is accepted and sent, and can never match.
The run `duplicate_keys`, which allows one rule, shows it with a single call. The rules that are
documented per list hold (`RequestIsWellFormed`).

One behaviour the runs make visible, and which is by design: the number of
attempts and the backoff belong to one future. A consumer that wraps `next()` in a
timeout shorter than the backoff begins each time at attempt 0, so
`RetriesWithinBudget` is stated for outages in which no future was dropped.
`SubscribesAfterBackoff` speaks of all calls, but a call that follows a dropped one waits
from the initial delay on, and before the first attachment it does not wait at all.

Three things the code does not promise and no property says: that bytes inside a frame
are those the producer wrote (there is no checksum); that a gap is noticed under rules
that admit everything only together, `vote = true` and `vote = false` for instance (the
mode is filtered); and that what `subscribe-transactions` had received at its deadline is
counted (after the exit a prefix is all that `EachObservedOnce` demands).

## Not modelled

- The generated tonic and prost code, hyper and tokio: modelled from what the
  client relies on. HTTP/2 windows, keepalive and TLS change when messages come,
  not which, and are left out.
- Contents of metadata beyond the checks of `validate()` (slots, shred indices
  as such), and the `Display`, `Debug` and `as_str` wording, the redaction of
  `ApiKey` included.
- The bytes within one integer: both directions use little endian of the same width.
- Build script and release checks: no state at run time.

## Plan

Done, in this order: validator and exact-resolved stream with their proofs;
broader stream with its proofs; reconnect wrapper; filter; session; frames and
the proofs about their layout; transaction parser; connection settings and the
proofs about sizes; the byte tables of the header; the two programs; the proofs
about wrapper, filter, session, codec, `subscribe-resolved` and
`subscribe-transactions`; the proofs about the transaction parser and, last, that it and the
format's reference agree both ways. Nothing of the plan is left. What could follow is a
reference for the metadata of a frame beyond the checks of `validate()`, once the code
derives something from it.

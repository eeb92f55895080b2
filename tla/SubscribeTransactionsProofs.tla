---------------------- MODULE SubscribeTransactionsProofs ----------------------
(***************************************************************************)
(* Proofs about the program subscribe-transactions and everything around   *)
(* it, for every filter, every traffic and every setting: it counts what   *)
(* the producer observed and the filter selects, each observation once and *)
(* under its own reason; it blames no correct server; and a client made by *)
(* connect() refuses no legal message.                                     *)
(***************************************************************************)
EXTENDS SubscribeTransactions, CanonicalStreamValidatorProofs, FiniteSetTheorems

FilterProofs == INSTANCE ResolvedFilterProofs WITH status <- "requested"

-----------------------------------------------------------------------------
(* The invariant.                                                          *)

\* What can be on the wire.
Messages == {Message(item) : item \in Items} \cup {End(end) : end \in Stream!Ends}

OfKind(kind) == [kind : {kind}, item : Items]

\* The types, and the bound on what the producer observes.
Typed ==
    /\ canonical \in Validators /\ epoch \in Epochs \cup {None}
    /\ structural_sequence \in U64
    /\ failed \in BOOLEAN /\ awaiting \in BOOLEAN
    /\ returned \in {"Ok"} \cup Outcomes
    /\ resolved \in Seq(Transactions) /\ unresolved \in Seq(Transactions)
    /\ phase \in Phases /\ outcome \in Outcomes
    /\ accounts \in Filter!KeyLists /\ filters \in Seq(Filter!Rules)
    /\ config \in Settings /\ checked \in BOOLEAN
    /\ deadline_passed \in BOOLEAN
    /\ producer_epoch \in Epochs
    /\ published \in Seq(Items) /\ Len(published) <= MaxPublished
    /\ open \in BOOLEAN /\ live_from \in 0..Len(published)
    /\ wire \in Seq(Messages) /\ ready \in Seq(Messages)

\* Where the program stands, and what there can be by then.
Staged ==
    /\ phase = "done" <=> outcome # "None"
    /\ phase \in {"start", "connect", "filter", "subscribe"} =>
          /\ resolved = <<>> /\ unresolved = <<>> /\ ready = <<>>
          /\ epoch = None /\ structural_sequence = 0
    /\ phase \in {"start", "connect", "filter"} => published = <<>> /\ wire = <<>>
    /\ phase = "done" => wire = <<>> /\ ready = <<>>
    /\ open => phase \in {"subscribe", "run", "parked"}
    /\ phase # "done" => ~failed
    /\ awaiting => phase \in {"run", "parked"}
    /\ checked /\ phase \notin {"start", "connect", "done"} => ~InvalidConfig(config)

\* A subscription that stands, or the stream it has left behind.
Attached == open \/ phase \in {"run", "parked"}

\* later may come after earlier: in the canonical sequence without a gap if
\* the filter leaves nothing out.
Follows(is_resolved, mode, earlier, later) ==
    /\ later > earlier
    /\ is_resolved /\ mode = "MatchAll" => later = earlier + 1

\* No gap and no repetition inside.
Chained(is_resolved, mode, items) ==
    \A i \in 1..(Len(items) - 1) :
        Follows(is_resolved, mode, items[i].sequence, items[i + 1].sequence)

\* The observations that take part in a numbering.
Numbered(log, of_epoch, is_resolved) ==
    {i \in 1..Len(log) : log[i].epoch = of_epoch /\ (is_resolved => log[i].tx.resolved)}

\* The number an observation gets that is made now.
NextNumber(log, of_epoch, is_resolved) ==
    1 + Cardinality(Numbered(log, of_epoch, is_resolved))

\* What comes next may come after the last item.
Continues(is_resolved, mode, items, next) ==
    items # <<>> => Follows(is_resolved, mode, items[Len(items)].sequence, next)

\* What is expected has no gap and no repetition, neither inside nor, while
\* the subscription stands, where the producer adds.
Sequenced(is_resolved) ==
    /\ Chained(is_resolved, Filter!ModeOf(filters), Expected(is_resolved))
    /\ open => Continues(is_resolved, Filter!ModeOf(filters), Expected(is_resolved),
                         NextNumber(published, producer_epoch, is_resolved))

AllOf(items, of_epoch) == \A i \in 1..Len(items) : items[i].epoch = of_epoch

\* It comes from one epoch, which is the one the outer validator knows.
OfOneEpoch ==
    \E e \in Epochs :
        /\ open => producer_epoch = e
        /\ epoch \in {None, e}
        /\ AllOf(Expected(TRUE), e) /\ AllOf(Expected(FALSE), e)

\* What an attached subscription should bring is in order and of one epoch.
Orderly == Attached => Sequenced(TRUE) /\ Sequenced(FALSE) /\ OfOneEpoch

\* What has been handed over and what is under way are what was expected, up
\* to what is lost at the end.
Flows(handed, messages, items, complete) ==
    LET n == Len(handed)
    IN  /\ n + Len(messages) <= Len(items)
        /\ complete => n + Len(messages) = Len(items)
        /\ \A i \in 1..n : handed[i] = IdOf(items[i])
        /\ \A i \in 1..Len(messages) : messages[i].item = items[n + i]

\* So it is in each of the two domains.
Flowing ==
    /\ Flows(resolved, UnderWay("canonical"), Expected(TRUE), open)
    /\ Flows(unresolved, UnderWay("unresolved"), Expected(FALSE), open)

LastOf(handed, none) == IF handed = <<>> THEN none ELSE handed[Len(handed)].sequence

\* Both validators stand where the two domains have come to.
Recorded ==
    phase \in {"run", "parked"} =>
        /\ canonical.mode = Filter!ModeOf(filters)
        /\ canonical.producer_epoch \in {None, epoch}
        /\ canonical.last_sequence = LastOf(resolved, None)
        /\ structural_sequence = LastOf(unresolved, 0)

\* The indices of those items among the first n that have a reason.
Under(items, n, reason) == {i \in 1..n : items[i].tx.reason = reason}

\* The counts are those of what has been handed over.
Counted ==
    /\ resolved_count = Len(resolved)
    /\ unresolved_count = Len(unresolved)
    /\ reasons \in [Reasons -> Nat]
    /\ \A reason \in Reasons :
          reasons[reason] = Cardinality(Under(Expected(FALSE), Len(unresolved), reason))

\* What the program has been told.
NoAlarm == NoFalseAlarm /\ LegalMessageFits

\* The inductive invariant.
IInv ==
    /\ Typed
    /\ Staged
    /\ Orderly
    /\ Flowing
    /\ Recorded
    /\ Counted
    /\ NoAlarm
-----------------------------------------------------------------------------
(* What Those() takes from a sequence.                                     *)

\* One step of its recursion, for sequences over T.
ThoseStep(T, seq, set) ==
    [n \in Nat |-> [s \in Seq(T) |->
        IF n + 1 \in 1..Len(seq) /\ seq[n + 1] \in set THEN Append(s, seq[n + 1]) ELSE s]]

\* Those() is what the recursion has come to at the end of the sequence.
LEMMA ThoseUnrolls ==
    ASSUME NEW T, NEW seq \in Seq(T), NEW set
    PROVE  \E f : /\ SolvesAll(Seq(T), <<>>, ThoseStep(T, seq, set), f)
                  /\ Those(seq, set) = f[Len(seq)]
<1> DEFINE S == Seq(T)
           step == ThoseStep(T, seq, set)
           Chosen(n) == n \in 1..Len(seq) /\ seq[n] \in set
           Body(g) == [n \in Nat |-> IF n = 0 THEN <<>>
                                     ELSE IF Chosen(n) THEN Append(g[n - 1], seq[n])
                                     ELSE g[n - 1]]
<1>1. step \in Steps(S) /\ <<>> \in S
  <2>1. \A n \in Nat : n + 1 \in 1..Len(seq) => seq[n + 1] \in T
    OBVIOUS
  <2>2. \A s \in S, x \in T : Append(s, x) \in S
    OBVIOUS
  <2> HIDE DEF S
  <2> QED BY <2>1, <2>2 DEF Steps, ThoseStep, S
<1>2. PICK f : SolvesAll(S, <<>>, step, f)
  <2> HIDE DEF S, step
  <2> QED BY <1>1, RecursionDefines
<1>3. f \in [Nat -> S] /\ f[0] = <<>>
  BY <1>2 DEF SolvesAll
<1>4. ASSUME NEW n \in Nat
      PROVE  f[n + 1] = IF Chosen(n + 1) THEN Append(f[n], seq[n + 1]) ELSE f[n]
  <2>1. f[n + 1] = step[n][f[n]] /\ f[n] \in Seq(T)
    BY <1>2 DEF SolvesAll
  <2> HIDE DEF S
  <2> QED BY <2>1 DEF ThoseStep
<1> HIDE DEF S, step, Chosen
<1>5. \A n \in Nat : n + 1 \in Nat /\ n + 1 # 0 /\ n + 1 - 1 = n
  OBVIOUS
<1>6. f = Body(f)
  <2>1. \A n \in Nat : n # 0 => n - 1 \in Nat /\ n - 1 + 1 = n
    OBVIOUS
  <2>2. ASSUME NEW n \in Nat, n # 0
        PROVE  f[n] = IF Chosen(n) THEN Append(f[n - 1], seq[n]) ELSE f[n - 1]
    <3>1. n - 1 \in Nat /\ n - 1 + 1 = n
      BY <2>1, <2>2
    <3>2. f[n - 1 + 1] = IF Chosen(n - 1 + 1) THEN Append(f[n - 1], seq[n - 1 + 1])
                         ELSE f[n - 1]
      BY <1>4, <3>1
    <3> QED BY <3>1, <3>2
  <2>3. f = [n \in Nat |-> f[n]]
    BY <1>3
  <2>4. \A n \in Nat : f[n] = Body(f)[n]
    BY <1>3, <2>2
  <2> QED BY <2>3, <2>4
<1> DEFINE G == CHOOSE g : g = Body(g)
<1>7. Those(seq, set) = G[Len(seq)]
  BY DEF Those, Chosen
<1>8. G = Body(G)
  <2> HIDE DEF Body
  <2> QED BY <1>6
<1> DEFINE Same == {n \in Nat : G[n] = f[n]}
<1>9. 0 \in Same
  <2> HIDE DEF G
  <2>1. Body(G)[0] = <<>>
    OBVIOUS
  <2> HIDE DEF Body
  <2> QED BY <1>3, <1>8, <2>1
<1>10. ASSUME NEW n \in Same \cap Nat PROVE n + 1 \in Same
  <2>1. n \in Nat /\ G[n] = f[n]
    OBVIOUS
  <2> HIDE DEF G
  <2>2. Body(G)[n + 1] = IF Chosen(n + 1) THEN Append(G[n], seq[n + 1]) ELSE G[n]
    BY <1>5, <2>1
  <2> HIDE DEF Body
  <2>3. G[n + 1] = f[n + 1]
    BY <1>4, <1>8, <2>1, <2>2
  <2> QED BY <1>5, <2>1, <2>3
<1>11. Nat \subseteq Same
  <2> HIDE DEF Same
  <2> QED BY <1>9, <1>10, NaturalInduction
<1>12. Len(seq) \in Nat
  OBVIOUS
<1> HIDE DEF G
<1>13. Those(seq, set) = f[Len(seq)]
  BY <1>7, <1>11, <1>12
<1> QED BY <1>2, <1>13 DEF S, step

\* What the recursion has come to after n elements: its type, its length and
\* what it holds.
LEMMA ThoseSteps ==
    ASSUME NEW T, NEW seq \in Seq(T), NEW set,
           NEW f, SolvesAll(Seq(T), <<>>, ThoseStep(T, seq, set), f)
    PROVE  /\ \A n \in Nat : f[n] \in Seq(T)
           /\ \A n \in 0..(Len(seq) - 1) :
                 f[n + 1] = IF seq[n + 1] \in set THEN Append(f[n], seq[n + 1]) ELSE f[n]
           /\ f[0] = <<>>
<1>1. f \in [Nat -> Seq(T)] /\ f[0] = <<>>
  BY DEF SolvesAll
<1>2. ASSUME NEW n \in 0..(Len(seq) - 1)
      PROVE  f[n + 1] = IF seq[n + 1] \in set THEN Append(f[n], seq[n + 1]) ELSE f[n]
  <2>1. n \in Nat /\ n + 1 \in 1..Len(seq)
    OBVIOUS
  <2>2. f[n + 1] = ThoseStep(T, seq, set)[n][f[n]] /\ f[n] \in Seq(T)
    BY <1>1, <2>1 DEF SolvesAll
  <2> QED BY <2>1, <2>2 DEF ThoseStep
<1> QED BY <1>1, <1>2

\* It takes elements of the set only, and no more than there are.
LEMMA ThoseType ==
    ASSUME NEW T, NEW seq \in Seq(T), NEW set
    PROVE  /\ Those(seq, set) \in Seq(T)
           /\ Len(Those(seq, set)) <= Len(seq)
           /\ \A i \in 1..Len(Those(seq, set)) : Those(seq, set)[i] \in set
<1>1. PICK f : /\ SolvesAll(Seq(T), <<>>, ThoseStep(T, seq, set), f)
               /\ Those(seq, set) = f[Len(seq)]
  BY ThoseUnrolls
<1>2. /\ \A n \in Nat : f[n] \in Seq(T)
      /\ \A n \in 0..(Len(seq) - 1) :
            f[n + 1] = IF seq[n + 1] \in set THEN Append(f[n], seq[n + 1]) ELSE f[n]
      /\ f[0] = <<>>
  BY <1>1, ThoseSteps
<1> DEFINE Good(n) == Len(f[n]) <= n /\ \A i \in 1..Len(f[n]) : f[n][i] \in set
           Goods == {n \in Nat : n <= Len(seq) => Good(n)}
<1>3. 0 \in Goods
  BY <1>2
<1>4. ASSUME NEW n \in Goods \cap Nat PROVE n + 1 \in Goods
  <2> SUFFICES ASSUME n + 1 <= Len(seq) PROVE Good(n + 1)
    OBVIOUS
  <2>1. n \in 0..(Len(seq) - 1) /\ n \in Nat /\ f[n] \in Seq(T) /\ Good(n)
        /\ seq[n + 1] \in T
    BY <1>2
  <2>2. f[n + 1] = IF seq[n + 1] \in set THEN Append(f[n], seq[n + 1]) ELSE f[n]
    BY <1>2, <2>1
  <2> DEFINE s == f[n]
             x == seq[n + 1]
  <2>3. s \in Seq(T) /\ x \in T /\ Len(s) <= n /\ \A i \in 1..Len(s) : s[i] \in set
    BY <2>1
  <2> HIDE DEF s, x, Goods
  <2>4. CASE x \in set
    <3>1. /\ Len(Append(s, x)) = Len(s) + 1
          /\ \A i \in 1..(Len(s) + 1) : Append(s, x)[i] = IF i <= Len(s) THEN s[i] ELSE x
      BY <2>3
    <3>2. \A i \in 1..(Len(s) + 1) : i <= Len(s) => i \in 1..Len(s)
      BY <2>3
    <3>3. /\ Len(Append(s, x)) <= n + 1
          /\ \A i \in 1..Len(Append(s, x)) : Append(s, x)[i] \in set
      BY <2>1, <2>3, <2>4, <3>1, <3>2
    <3> QED BY <2>2, <2>4, <3>3 DEF s, x
  <2>5. CASE x \notin set
    <3>1. Len(s) <= n + 1
      BY <2>1, <2>3
    <3> QED BY <2>2, <2>3, <2>5, <3>1 DEF s, x
  <2> QED BY <2>4, <2>5
<1>5. Nat \subseteq Goods
  <2> HIDE DEF Goods
  <2> QED BY <1>3, <1>4, NaturalInduction
<1>6. Len(seq) \in Nat
  OBVIOUS
<1>7. Good(Len(seq))
  BY <1>5, <1>6
<1> QED BY <1>1, <1>2, <1>6, <1>7

\* Of nothing it takes nothing.
LEMMA ThoseOfEmpty == \A set : Those(<<>>, set) = <<>>
<1> SUFFICES ASSUME NEW set PROVE Those(<<>>, set) = <<>>
  OBVIOUS
<1>1. <<>> \in Seq({}) /\ Len(<<>>) = 0
  OBVIOUS
<1>2. PICK f : /\ SolvesAll(Seq({}), <<>>, ThoseStep({}, <<>>, set), f)
               /\ Those(<<>>, set) = f[Len(<<>>)]
  BY <1>1, ThoseUnrolls
<1> QED BY <1>1, <1>2 DEF SolvesAll

\* A longer sequence begins the recursion as a shorter one does.
LEMMA ThoseOfBeginning ==
    ASSUME NEW T, NEW seq \in Seq(T), NEW longer \in Seq(T), NEW set,
           Len(seq) <= Len(longer), \A i \in 1..Len(seq) : seq[i] = longer[i],
           NEW f, SolvesAll(Seq(T), <<>>, ThoseStep(T, longer, set), f)
    PROVE  Those(seq, set) = f[Len(seq)]
<1> DEFINE n == Len(seq)
           S == Seq(T)
           step == ThoseStep(T, seq, set)
           other == ThoseStep(T, longer, set)
<1>1. PICK g : SolvesAll(S, <<>>, step, g) /\ Those(seq, set) = g[n]
  BY ThoseUnrolls
<1>2. n \in Nat
  OBVIOUS
<1>3. ASSUME NEW i \in 0..(n - 1) PROVE step[i] = other[i]
  <2>1. i \in Nat /\ i + 1 \in 1..Len(seq) /\ i + 1 \in 1..Len(longer)
    OBVIOUS
  <2>2. seq[i + 1] = longer[i + 1]
    BY <2>1
  <2> QED BY <2>1, <2>2 DEF ThoseStep
<1>4. SolvesAll(S, <<>>, other, f)
  OBVIOUS
<1> HIDE DEF n, S, step, other
<1>5. g[n] = f[n]
  BY <1>1, <1>2, <1>3, <1>4, RecursionsAgree
<1> QED BY <1>1, <1>5 DEF n

\* What comes later is taken later.
LEMMA ThoseOfAppend ==
    ASSUME NEW T, NEW seq \in Seq(T), NEW x \in T, NEW set
    PROVE  Those(Append(seq, x), set) =
               IF x \in set THEN Append(Those(seq, set), x) ELSE Those(seq, set)
<1> DEFINE longer == Append(seq, x)
           n == Len(seq)
<1>1. /\ longer \in Seq(T) /\ Len(longer) = n + 1 /\ n \in Nat
      /\ \A i \in 1..n : seq[i] = longer[i]
      /\ longer[n + 1] = x
  OBVIOUS
<1> HIDE DEF longer
<1>2. PICK f : /\ SolvesAll(Seq(T), <<>>, ThoseStep(T, longer, set), f)
               /\ Those(longer, set) = f[Len(longer)]
  BY <1>1, ThoseUnrolls
<1>3. Those(seq, set) = f[n]
  <2>1. Len(seq) <= Len(longer)
    BY <1>1
  <2> QED BY <1>1, <1>2, <2>1, ThoseOfBeginning
<1>4. f[n + 1] = IF longer[n + 1] \in set THEN Append(f[n], longer[n + 1]) ELSE f[n]
  <2>1. n \in 0..(Len(longer) - 1)
    BY <1>1
  <2>2. \A i \in 0..(Len(longer) - 1) :
            f[i + 1] = IF longer[i + 1] \in set THEN Append(f[i], longer[i + 1]) ELSE f[i]
    BY <1>1, <1>2, ThoseSteps
  <2> HIDE DEF n
  <2> QED BY <2>1, <2>2
<1> QED BY <1>1, <1>2, <1>3, <1>4 DEF longer

\* One sequence begins with another.
Begins(s, t) == Len(s) <= Len(t) /\ \A i \in 1..Len(s) : s[i] = t[i]

\* A sequence that begins with another still does with one more element.
LEMMA BeginsLonger ==
    ASSUME NEW T, NEW s \in Seq(T), NEW t \in Seq(T), NEW x \in T, Begins(s, t)
    PROVE  Begins(s, Append(t, x))
<1>1. /\ Len(Append(t, x)) = Len(t) + 1
      /\ \A i \in 1..Len(t) : Append(t, x)[i] = t[i]
      /\ Len(s) \in Nat /\ Len(t) \in Nat
  OBVIOUS
<1>2. Len(s) <= Len(t) /\ \A i \in 1..Len(s) : s[i] = t[i]
  BY DEF Begins
<1>3. \A i \in 1..Len(s) : i \in 1..Len(t)
  BY <1>1, <1>2
<1> QED BY <1>1, <1>2, <1>3 DEF Begins

\* What is lost from the end of a sequence is lost from the end of what is
\* taken from it.
LEMMA ThoseOfPrefix ==
    ASSUME NEW T, NEW seq \in Seq(T), NEW longer \in Seq(T), NEW set, Begins(seq, longer)
    PROVE  Begins(Those(seq, set), Those(longer, set))
<1> DEFINE k == Len(seq)
           n == Len(longer)
<1>1. k \in Nat /\ n \in Nat /\ k <= n /\ \A i \in 1..k : seq[i] = longer[i]
  BY DEF Begins
<1>2. PICK f : /\ SolvesAll(Seq(T), <<>>, ThoseStep(T, longer, set), f)
               /\ Those(longer, set) = f[n]
  BY ThoseUnrolls
<1>3. Those(seq, set) = f[k]
  BY <1>1, <1>2, ThoseOfBeginning
<1>4. /\ \A i \in Nat : f[i] \in Seq(T)
      /\ \A i \in 0..(n - 1) :
            f[i + 1] = IF longer[i + 1] \in set THEN Append(f[i], longer[i + 1]) ELSE f[i]
  BY <1>2, ThoseSteps
<1> DEFINE Later == {m \in Nat : k <= m /\ m <= n => Begins(f[k], f[m])}
<1>5. Begins(f[k], f[k])
  <2>1. f[k] \in Seq(T)
    BY <1>1, <1>4
  <2> HIDE DEF k
  <2>2. Len(f[k]) \in Nat
    BY <2>1
  <2> QED BY <2>2 DEF Begins
<1>6. \A i \in 1..n : longer[i] \in T
  OBVIOUS
<1> HIDE DEF k, n
<1>7. 0 \in Later
  BY <1>1, <1>5
<1>8. ASSUME NEW m \in Later \cap Nat PROVE m + 1 \in Later
  <2> SUFFICES ASSUME k <= m + 1, m + 1 <= n PROVE Begins(f[k], f[m + 1])
    OBVIOUS
  <2>1. CASE k = m + 1
    BY <1>5, <2>1
  <2>2. CASE k # m + 1
    <3>1. /\ k <= m /\ m <= n /\ m \in 0..(n - 1) /\ m \in Nat /\ m + 1 \in 1..n
          /\ m + 1 \in Nat
      BY <1>1, <2>2
    <3>2. Begins(f[k], f[m])
      BY <3>1
    <3>3. f[k] \in Seq(T) /\ f[m] \in Seq(T) /\ longer[m + 1] \in T
      BY <1>1, <1>4, <1>6, <3>1
    <3>4. Begins(f[k], Append(f[m], longer[m + 1]))
      BY <3>2, <3>3, BeginsLonger
    <3> QED BY <1>4, <3>1, <3>2, <3>4
  <2> QED BY <2>1, <2>2
<1>9. Nat \subseteq Later
  <2> HIDE DEF Later
  <2> QED BY <1>7, <1>8, NaturalInduction
<1> QED BY <1>1, <1>2, <1>3, <1>9 DEF k, n

\* Appending at the end commutes with a beginning put before.
LEMMA AppendAfter ==
    ASSUME NEW T, NEW p \in Seq(T), NEW s \in Seq(T), NEW x \in T
    PROVE  p \o Append(s, x) = Append(p \o s, x)
OBVIOUS

\* What it takes from a sequence is its head, if that is of the set, and what
\* it takes from the rest.
LEMMA ThoseOfHead ==
    ASSUME NEW T, NEW seq \in Seq(T), seq # <<>>, NEW set
    PROVE  Those(seq, set) =
               IF Head(seq) \in set THEN <<Head(seq)>> \o Those(Tail(seq), set)
               ELSE Those(Tail(seq), set)
<1> DEFINE rest == Tail(seq)
           n == Len(rest)
           first == IF Head(seq) \in set THEN <<Head(seq)>> ELSE <<>>
<1>1. /\ rest \in Seq(T) /\ n \in Nat /\ Len(seq) = n + 1
      /\ \A i \in 1..n : rest[i] = seq[i + 1]
      /\ Head(seq) = seq[1] /\ seq[1] \in T
  BY HeadTailProperties
<1> HIDE DEF rest
<1>2. PICK f : /\ SolvesAll(Seq(T), <<>>, ThoseStep(T, seq, set), f)
               /\ Those(seq, set) = f[Len(seq)]
  BY ThoseUnrolls
<1>3. PICK g : /\ SolvesAll(Seq(T), <<>>, ThoseStep(T, rest, set), g)
               /\ Those(rest, set) = g[Len(rest)]
  BY <1>1, ThoseUnrolls
<1>4. /\ \A i \in Nat : f[i] \in Seq(T)
      /\ \A i \in 0..(Len(seq) - 1) :
            f[i + 1] = IF seq[i + 1] \in set THEN Append(f[i], seq[i + 1]) ELSE f[i]
      /\ f[0] = <<>>
  BY <1>2, ThoseSteps
<1>5. /\ \A i \in Nat : g[i] \in Seq(T)
      /\ \A i \in 0..(Len(rest) - 1) :
            g[i + 1] = IF rest[i + 1] \in set THEN Append(g[i], rest[i + 1]) ELSE g[i]
      /\ g[0] = <<>>
  BY <1>1, <1>3, ThoseSteps
<1>6. \A i \in 1..n : rest[i] \in T
  BY <1>1
<1>7. first \in Seq(T)
  BY <1>1
<1>8. f[1] = first
  <2>1. 0 \in 0..(Len(seq) - 1) /\ 0 + 1 = 1
    BY <1>1
  <2>2. f[1] = IF seq[1] \in set THEN Append(<<>>, seq[1]) ELSE <<>>
    BY <1>4, <2>1
  <2>3. Append(<<>>, seq[1]) = <<seq[1]>>
    BY <1>1
  <2> QED BY <1>1, <2>2, <2>3
<1> DEFINE Shifted == {i \in Nat : i <= n => f[i + 1] = first \o g[i]}
<1> HIDE DEF n, first
<1>9. 0 \in Shifted
  <2>1. first \o <<>> = first
    BY <1>7
  <2>2. f[0 + 1] = f[1]
    OBVIOUS
  <2> QED BY <1>5, <1>8, <2>1, <2>2
<1>10. ASSUME NEW i \in Shifted \cap Nat PROVE i + 1 \in Shifted
  <2> SUFFICES ASSUME i + 1 <= n PROVE f[i + 1 + 1] = first \o g[i + 1]
    OBVIOUS
  <2>1. /\ i \in Nat /\ i <= n /\ i + 1 \in 1..n /\ i + 1 \in 0..(Len(seq) - 1)
        /\ i \in 0..(Len(rest) - 1) /\ i + 1 \in Nat
    BY <1>1 DEF n
  <2>2. f[i + 1] = first \o g[i]
    BY <2>1
  <2>3. f[i + 1 + 1] = IF seq[i + 1 + 1] \in set THEN Append(f[i + 1], seq[i + 1 + 1])
                       ELSE f[i + 1]
    BY <1>4, <2>1
  <2>4. g[i + 1] = IF rest[i + 1] \in set THEN Append(g[i], rest[i + 1]) ELSE g[i]
    BY <1>5, <2>1
  <2>5. rest[i + 1] = seq[i + 1 + 1] /\ rest[i + 1] \in T /\ g[i] \in Seq(T)
    BY <1>1, <1>5, <1>6, <2>1 DEF n
  <2> HIDE DEF Shifted
  <2>6. first \o Append(g[i], rest[i + 1]) = Append(first \o g[i], rest[i + 1])
    <3> DEFINE taken == g[i]
               next == rest[i + 1]
    <3>1. taken \in Seq(T) /\ next \in T
      BY <2>5
    <3> HIDE DEF taken, next
    <3>2. first \o Append(taken, next) = Append(first \o taken, next)
      BY <1>7, <3>1, AppendAfter
    <3> QED BY <3>2 DEF taken, next
  <2> QED BY <2>2, <2>3, <2>4, <2>5, <2>6
<1>11. Nat \subseteq Shifted
  <2> HIDE DEF Shifted
  <2> QED BY <1>9, <1>10, NaturalInduction
<1>12. Those(seq, set) = first \o Those(rest, set)
  BY <1>1, <1>2, <1>3, <1>11 DEF n
<1>13. <<>> \o Those(rest, set) = Those(rest, set)
  <2>1. Those(rest, set) \in Seq(T)
    BY <1>1, ThoseType
  <2> QED BY <2>1
<1> QED BY <1>12, <1>13 DEF first, rest

-----------------------------------------------------------------------------
(* The flow of one kind of observation: what was handed over, what is      *)
(* under way and what is expected.                                         *)

\* The flow spelled out with lengths.
LEMMA FlowLengths ==
    ASSUME NEW kind, NEW h \in Seq(Transactions), NEW u \in Seq(OfKind(kind)),
           NEW e \in Seq(Items), NEW complete \in BOOLEAN, Flows(h, u, e, complete)
    PROVE  /\ Len(h) \in Nat /\ Len(u) \in Nat /\ Len(e) \in Nat
           /\ Len(h) + Len(u) <= Len(e)
           /\ complete => Len(h) + Len(u) = Len(e)
           /\ \A i \in 1..Len(h) : i \in 1..Len(e) /\ h[i] = IdOf(e[i])
           /\ \A i \in 1..Len(u) : Len(h) + i \in 1..Len(e) /\ u[i].item = e[Len(h) + i]
<1>1. Len(h) \in Nat /\ Len(u) \in Nat /\ Len(e) \in Nat
  OBVIOUS
<1>2. /\ Len(h) + Len(u) <= Len(e)
      /\ complete => Len(h) + Len(u) = Len(e)
      /\ \A i \in 1..Len(h) : h[i] = IdOf(e[i])
      /\ \A i \in 1..Len(u) : u[i].item = e[Len(h) + i]
  BY DEF Flows
<1>3. \A i \in 1..Len(h) : i \in 1..Len(e)
  BY <1>1, <1>2
<1>4. \A i \in 1..Len(u) : Len(h) + i \in 1..Len(e)
  BY <1>1, <1>2
<1> QED BY <1>1, <1>2, <1>3, <1>4

\* What is under way may be lost from its end.
LEMMA FlowIsCut ==
    ASSUME NEW kind, NEW h \in Seq(Transactions), NEW u \in Seq(OfKind(kind)),
           NEW e \in Seq(Items), NEW complete \in BOOLEAN, Flows(h, u, e, complete),
           NEW v \in Seq(OfKind(kind)), Begins(v, u)
    PROVE  Flows(h, v, e, FALSE)
<1>1. /\ Len(h) \in Nat /\ Len(u) \in Nat /\ Len(e) \in Nat /\ Len(v) \in Nat
      /\ Len(h) + Len(u) <= Len(e)
      /\ \A i \in 1..Len(h) : h[i] = IdOf(e[i])
      /\ \A i \in 1..Len(u) : u[i].item = e[Len(h) + i]
  BY FlowLengths
<1>2. Len(v) <= Len(u) /\ \A i \in 1..Len(v) : v[i] = u[i]
  BY DEF Begins
<1>3. \A i \in 1..Len(v) : i \in 1..Len(u)
  BY <1>1, <1>2
<1>4. \A i \in 1..Len(v) : v[i].item = e[Len(h) + i]
  BY <1>1, <1>2, <1>3
<1>5. Len(h) + Len(v) <= Len(e)
  BY <1>1, <1>2
<1> QED BY <1>1, <1>4, <1>5 DEF Flows

\* What is newly expected is put under way, while the subscription stands.
LEMMA FlowGrows ==
    ASSUME NEW kind, NEW h \in Seq(Transactions), NEW u \in Seq(OfKind(kind)),
           NEW e \in Seq(Items), Flows(h, u, e, TRUE),
           NEW message \in OfKind(kind)
    PROVE  Flows(h, Append(u, message), Append(e, message.item), TRUE)
<1> DEFINE x == message.item
           v == Append(u, message)
           d == Append(e, x)
<1>1. /\ Len(h) \in Nat /\ Len(u) \in Nat /\ Len(e) \in Nat
      /\ Len(h) + Len(u) = Len(e)
      /\ \A i \in 1..Len(h) : i \in 1..Len(e) /\ h[i] = IdOf(e[i])
      /\ \A i \in 1..Len(u) : Len(h) + i \in 1..Len(e) /\ u[i].item = e[Len(h) + i]
  BY FlowLengths
<1>2. /\ Len(v) = Len(u) + 1 /\ \A i \in 1..Len(u) : v[i] = u[i]
      /\ v[Len(u) + 1] = message
  OBVIOUS
<1>3. /\ Len(d) = Len(e) + 1 /\ \A i \in 1..Len(e) : d[i] = e[i]
      /\ d[Len(e) + 1] = x
  BY DEF OfKind
<1> HIDE DEF v, d
<1>4. Len(h) + Len(v) = Len(d)
  BY <1>1, <1>2, <1>3
<1>5. \A i \in 1..Len(h) : h[i] = IdOf(d[i])
  BY <1>1, <1>3
<1>6. ASSUME NEW i \in 1..Len(v) PROVE v[i].item = d[Len(h) + i]
  <2>1. CASE i \in 1..Len(u)
    BY <1>1, <1>2, <1>3, <2>1
  <2>2. CASE i = Len(u) + 1
    <3>1. Len(h) + i = Len(e) + 1
      BY <1>1, <2>2
    <3> QED BY <1>2, <1>3, <2>2, <3>1
  <2> QED BY <1>1, <1>2, <2>1, <2>2
<1>7. Len(h) + Len(v) <= Len(d)
  BY <1>1, <1>2, <1>3, <1>4
<1>8. Flows(h, v, d, TRUE)
  BY <1>4, <1>5, <1>6, <1>7 DEF Flows
<1> QED BY <1>8 DEF v, d

\* What is expected of a subscription that has ended may grow.
LEMMA FlowFallsBehind ==
    ASSUME NEW kind, NEW h \in Seq(Transactions), NEW u \in Seq(OfKind(kind)),
           NEW e \in Seq(Items), Flows(h, u, e, FALSE), NEW x \in Items
    PROVE  Flows(h, u, Append(e, x), FALSE)
<1> DEFINE d == Append(e, x)
<1>1. /\ Len(h) \in Nat /\ Len(u) \in Nat /\ Len(e) \in Nat
      /\ Len(h) + Len(u) <= Len(e)
      /\ \A i \in 1..Len(h) : i \in 1..Len(e) /\ h[i] = IdOf(e[i])
      /\ \A i \in 1..Len(u) : Len(h) + i \in 1..Len(e) /\ u[i].item = e[Len(h) + i]
  <2> DEFINE complete == FALSE
  <2>1. complete \in BOOLEAN /\ Flows(h, u, e, complete)
    OBVIOUS
  <2> HIDE DEF complete
  <2> QED BY <2>1, FlowLengths
<1>2. /\ Len(d) = Len(e) + 1 /\ \A i \in 1..Len(e) : d[i] = e[i]
  OBVIOUS
<1> HIDE DEF d
<1>3. Len(h) + Len(u) <= Len(d)
  BY <1>1, <1>2
<1>4. Flows(h, u, d, FALSE)
  BY <1>1, <1>2, <1>3 DEF Flows
<1> QED BY <1>4 DEF d

\* The first of what is under way is the next that is expected; handing it
\* over keeps the flow.
LEMMA FlowMoves ==
    ASSUME NEW kind, NEW h \in Seq(Transactions), NEW u \in Seq(OfKind(kind)), u # <<>>,
           NEW e \in Seq(Items), NEW complete \in BOOLEAN, Flows(h, u, e, complete)
    PROVE  /\ Len(h) + 1 \in 1..Len(e)
           /\ Head(u).item = e[Len(h) + 1]
           /\ Flows(Append(h, IdOf(Head(u).item)), Tail(u), e, complete)
<1> DEFINE x == Head(u).item
           g == Append(h, IdOf(x))
           v == Tail(u)
<1>1. /\ Len(h) \in Nat /\ Len(u) \in Nat /\ Len(e) \in Nat
      /\ Len(h) + Len(u) <= Len(e)
      /\ complete => Len(h) + Len(u) = Len(e)
      /\ \A i \in 1..Len(h) : i \in 1..Len(e) /\ h[i] = IdOf(e[i])
      /\ \A i \in 1..Len(u) : Len(h) + i \in 1..Len(e) /\ u[i].item = e[Len(h) + i]
  BY FlowLengths
<1>2. /\ v \in Seq(OfKind(kind)) /\ Len(v) = Len(u) - 1 /\ Len(u) >= 1
      /\ \A i \in 1..Len(v) : v[i] = u[i + 1]
      /\ Head(u) = u[1] /\ u[1] \in OfKind(kind)
  BY HeadTailProperties
<1>3. x \in Items
  BY <1>2 DEF OfKind
<1>4. x = e[Len(h) + 1] /\ Len(h) + 1 \in 1..Len(e)
  <2>1. 1 \in 1..Len(u)
    BY <1>1, <1>2
  <2> QED BY <1>1, <1>2, <2>1
<1> HIDE DEF x
<1>5. IdOf(x) \in Transactions
  BY <1>3 DEF IdOf, Items, Transactions
<1>6. /\ Len(g) = Len(h) + 1 /\ \A i \in 1..Len(h) : g[i] = h[i]
      /\ g[Len(h) + 1] = IdOf(x)
  BY <1>5
<1> HIDE DEF g, v
<1>7. Len(g) + Len(v) = Len(h) + Len(u) /\ Len(v) \in Nat /\ Len(g) \in Nat
  BY <1>1, <1>2, <1>6
<1>8. ASSUME NEW i \in 1..Len(g) PROVE g[i] = IdOf(e[i])
  <2>1. CASE i \in 1..Len(h)
    BY <1>1, <1>6, <2>1
  <2>2. CASE i = Len(h) + 1
    BY <1>4, <1>6, <2>2
  <2> QED BY <1>1, <1>6, <2>1, <2>2
<1>9. ASSUME NEW i \in 1..Len(v) PROVE v[i].item = e[Len(g) + i]
  <2>1. i + 1 \in 1..Len(u) /\ Len(h) + (i + 1) = Len(g) + i
    BY <1>1, <1>2, <1>6
  <2> QED BY <1>1, <1>2, <2>1
<1>10. Flows(g, v, e, complete)
  BY <1>1, <1>7, <1>8, <1>9 DEF Flows
<1> QED BY <1>4, <1>10 DEF g, v, x

\* The identities of a sequence of items.
LEMMA IdsType ==
    ASSUME NEW e \in Seq(Items)
    PROVE  /\ Ids(e) \in Seq(Transactions)
           /\ Len(Ids(e)) = Len(e)
           /\ \A i \in 1..Len(e) : Ids(e)[i] = IdOf(e[i])
<1>1. Len(e) \in Nat /\ \A i \in 1..Len(e) : IdOf(e[i]) \in Transactions
  <2>1. Len(e) \in Nat /\ \A i \in 1..Len(e) : e[i] \in Items
    OBVIOUS
  <2>2. \A item \in Items : IdOf(item) \in Transactions
    BY DEF IdOf, Items, Transactions
  <2> QED BY <2>1, <2>2
<1>2. Ids(e) \in [1..Len(e) -> Transactions] /\ \A i \in 1..Len(e) : Ids(e)[i] = IdOf(e[i])
  BY <1>1 DEF Ids
<1> QED BY <1>1, <1>2, FunctionIsSequence

\* The items of a sequence of messages.
LEMMA ItemsOfType ==
    ASSUME NEW kind, NEW u \in Seq(OfKind(kind))
    PROVE  /\ ItemsOf(u) \in Seq(Items)
           /\ Len(ItemsOf(u)) = Len(u)
           /\ \A i \in 1..Len(u) : ItemsOf(u)[i] = u[i].item
<1>1. Len(u) \in Nat /\ \A i \in 1..Len(u) : u[i].item \in Items
  <2>1. Len(u) \in Nat /\ \A i \in 1..Len(u) : u[i] \in OfKind(kind)
    OBVIOUS
  <2>2. \A message \in OfKind(kind) : message.item \in Items
    BY DEF OfKind
  <2> QED BY <2>1, <2>2
<1>2. ItemsOf(u) \in [1..Len(u) -> Items] /\ \A i \in 1..Len(u) : ItemsOf(u)[i] = u[i].item
  BY <1>1 DEF ItemsOf
<1> QED BY <1>1, <1>2, FunctionIsSequence

\* A flow in the terms of EachObservedOnce.
LEMMA FlowIsPrefix ==
    ASSUME NEW kind, NEW h \in Seq(Transactions), NEW u \in Seq(OfKind(kind)),
           NEW e \in Seq(Items), NEW complete \in BOOLEAN, Flows(h, u, e, complete)
    PROVE  /\ IsPrefix(h, Ids(e))
           /\ complete => h \o Ids(ItemsOf(u)) = Ids(e)
<1> DEFINE d == Ids(e)
           w == Ids(ItemsOf(u))
           c == h \o w
<1>1. /\ Len(h) \in Nat /\ Len(u) \in Nat /\ Len(e) \in Nat
      /\ Len(h) + Len(u) <= Len(e)
      /\ complete => Len(h) + Len(u) = Len(e)
      /\ \A i \in 1..Len(h) : i \in 1..Len(e) /\ h[i] = IdOf(e[i])
      /\ \A i \in 1..Len(u) : Len(h) + i \in 1..Len(e) /\ u[i].item = e[Len(h) + i]
  BY FlowLengths
<1>2. /\ d \in Seq(Transactions) /\ Len(d) = Len(e)
      /\ \A i \in 1..Len(e) : d[i] = IdOf(e[i])
  BY IdsType
<1>3. /\ w \in Seq(Transactions) /\ Len(w) = Len(u)
      /\ \A i \in 1..Len(u) : w[i] = IdOf(u[i].item)
  BY ItemsOfType, IdsType
<1> HIDE DEF d, w
<1>4. IsPrefix(h, d)
  <2>1. \A i \in 1..Len(h) : h[i] = d[i]
    BY <1>1, <1>2
  <2>2. Len(h) <= Len(d)
    BY <1>1, <1>2
  <2>3. SubSeq(h, 1, Len(h)) = SubSeq(d, 1, Len(h))
    BY <1>1, <1>2, <2>1, <2>2
  <2> QED BY <2>2, <2>3 DEF IsPrefix
<1>5. ASSUME complete PROVE c = d
  <2>1. /\ c \in Seq(Transactions) /\ Len(c) = Len(h) + Len(w)
        /\ \A i \in 1..(Len(h) + Len(w)) : c[i] = IF i <= Len(h) THEN h[i] ELSE w[i - Len(h)]
    BY <1>3, ConcatProperties
  <2> HIDE DEF c
  <2>2. Len(c) = Len(d)
    BY <1>1, <1>2, <1>3, <1>5, <2>1
  <2>3. ASSUME NEW i \in 1..Len(c) PROVE c[i] = d[i]
    <3>1. CASE i <= Len(h)
      <4>1. i \in 1..Len(h) /\ i \in 1..(Len(h) + Len(w))
        BY <1>1, <2>1, <3>1
      <4> QED BY <1>1, <1>2, <2>1, <3>1, <4>1
    <3>2. CASE ~(i <= Len(h))
      <4>1. i - Len(h) \in 1..Len(u) /\ Len(h) + (i - Len(h)) = i /\ i \in 1..(Len(h) + Len(w))
        BY <1>1, <1>3, <2>1, <3>2
      <4>2. c[i] = w[i - Len(h)]
        BY <2>1, <3>2, <4>1
      <4>3. u[i - Len(h)].item = e[i] /\ i \in 1..Len(e)
        BY <1>1, <4>1
      <4> QED BY <1>2, <1>3, <4>1, <4>2, <4>3
    <3> QED BY <3>1, <3>2
  <2> QED BY <1>2, <2>1, <2>2, <2>3, SeqEqual
<1> QED BY <1>4, <1>5 DEF d, w

-----------------------------------------------------------------------------
(* The numbers that the producer gives.                                    *)

\* A sequence that is continued by its next item stays in order.
LEMMA ChainGrows ==
    ASSUME NEW is_resolved, NEW mode, NEW items \in Seq(Items), NEW x \in Items,
           Chained(is_resolved, mode, items),
           Continues(is_resolved, mode, items, x.sequence)
    PROVE  Chained(is_resolved, mode, Append(items, x))
<1> DEFINE d == Append(items, x)
           n == Len(items)
<1>1. /\ n \in Nat /\ Len(d) = n + 1 /\ \A i \in 1..n : d[i] = items[i]
      /\ d[n + 1] = x
  OBVIOUS
<1>2. n # 0 => items # <<>>
  OBVIOUS
<1> HIDE DEF d
<1>3. ASSUME NEW i \in 1..n
      PROVE  Follows(is_resolved, mode, d[i].sequence, d[i + 1].sequence)
  <2>1. CASE i = n
    BY <1>1, <1>2, <2>1 DEF Continues
  <2>2. CASE i # n
    <3>1. i \in 1..(Len(items) - 1) /\ i \in 1..n /\ i + 1 \in 1..n
      BY <1>1, <2>2
    <3> HIDE DEF n
    <3> QED BY <1>1, <3>1 DEF Chained
  <2> QED BY <2>1, <2>2
<1>4. Len(d) - 1 = n
  BY <1>1
<1>5. Chained(is_resolved, mode, d)
  BY <1>3, <1>4 DEF Chained
<1> QED BY <1>5 DEF d

\* It stays of one epoch with one more item of that epoch.
LEMMA AllOfGrows ==
    ASSUME NEW items \in Seq(Items), NEW x \in Items, NEW e,
           AllOf(items, e), x.epoch = e
    PROVE  AllOf(Append(items, x), e)
<1>1. /\ Len(Append(items, x)) = Len(items) + 1
      /\ \A i \in 1..(Len(items) + 1) :
            Append(items, x)[i] = IF i <= Len(items) THEN items[i] ELSE x
      /\ \A i \in 1..(Len(items) + 1) : i <= Len(items) => i \in 1..Len(items)
  OBVIOUS
<1> QED BY <1>1 DEF AllOf

\* The next number of an epoch is at most one more than there are items.
LEMMA NextNumberBound ==
    ASSUME NEW log \in Seq(Items), NEW e, NEW is_resolved
    PROVE  /\ IsFiniteSet(Numbered(log, e, is_resolved))
           /\ NextNumber(log, e, is_resolved) \in 1..(Len(log) + 1)
<1> DEFINE n == Len(log)
           same == Numbered(log, e, is_resolved)
<1>1. n \in Nat /\ n \in Int /\ 1 \in Int
  OBVIOUS
<1>2. same \in SUBSET (1..n)
  BY DEF Numbered
<1> HIDE DEF n, same
<1>3. IsFiniteSet(1..n) /\ Cardinality(1..n) = n
  BY <1>1, FS_Interval
<1>4. IsFiniteSet(same) /\ Cardinality(same) <= n
  BY <1>2, <1>3, FS_Subset
<1>5. Cardinality(same) \in Nat
  BY <1>4, FS_CardinalityType
<1>6. NextNumber(log, e, is_resolved) = 1 + Cardinality(same)
  BY DEF NextNumber, same
<1> QED BY <1>1, <1>4, <1>5, <1>6 DEF n, same

\* An observation takes a number where it is counted.
LEMMA NextNumberGrows ==
    ASSUME NEW log \in Seq(Items), NEW item \in Items, NEW is_resolved
    PROVE  NextNumber(Append(log, item), item.epoch, is_resolved) =
               IF is_resolved => item.tx.resolved
               THEN NextNumber(log, item.epoch, is_resolved) + 1
               ELSE NextNumber(log, item.epoch, is_resolved)
<1> DEFINE n == Len(log)
           longer == Append(log, item)
           e == item.epoch
           same == Numbered(log, e, is_resolved)
           other == Numbered(longer, e, is_resolved)
<1>1. /\ n \in Nat /\ Len(longer) = n + 1 /\ \A i \in 1..n : longer[i] = log[i]
      /\ longer[n + 1] = item
      /\ 1..(n + 1) = (1..n) \cup {n + 1} /\ n + 1 \notin 1..n
  OBVIOUS
<1>2. IsFiniteSet(same) /\ Cardinality(same) \in Nat
  BY NextNumberBound, FS_CardinalityType
<1> HIDE DEF longer
<1>3. n + 1 \notin same
  BY <1>1 DEF Numbered
<1>4. other = IF is_resolved => item.tx.resolved THEN same \cup {n + 1} ELSE same
  BY <1>1 DEF Numbered
<1> HIDE DEF n, same, other, e
<1>5. Cardinality(same \cup {n + 1}) = Cardinality(same) + 1
  BY <1>2, <1>3, FS_AddElement
<1>6. /\ NextNumber(longer, e, is_resolved) = 1 + Cardinality(other)
      /\ NextNumber(log, e, is_resolved) = 1 + Cardinality(same)
  BY DEF NextNumber, same, other
<1>7. NextNumber(longer, e, is_resolved) =
          IF is_resolved => item.tx.resolved
          THEN NextNumber(log, e, is_resolved) + 1 ELSE NextNumber(log, e, is_resolved)
  BY <1>2, <1>4, <1>5, <1>6
<1> QED BY <1>7 DEF longer, e

-----------------------------------------------------------------------------
(* The connection: ready, then wire, as one queue of messages.             *)

\* Taking a message off the socket moves the boundary in the queue only.
LEMMA QueueShifts ==
    ASSUME NEW T, NEW r \in Seq(T), NEW w \in Seq(T), w # <<>>
    PROVE  Append(r, Head(w)) \o Tail(w) = r \o w
<1> DEFINE p == Append(r, Head(w))
           v == Tail(w)
<1>1. /\ v \in Seq(T) /\ Len(v) = Len(w) - 1 /\ \A i \in 1..Len(v) : v[i] = w[i + 1]
      /\ Head(w) = w[1] /\ w[1] \in T /\ Len(w) \in Nat /\ Len(w) >= 1 /\ Len(r) \in Nat
  BY HeadTailProperties
<1>2. /\ p \in Seq(T) /\ Len(p) = Len(r) + 1 /\ \A i \in 1..Len(r) : p[i] = r[i]
      /\ p[Len(r) + 1] = w[1]
  BY <1>1
<1> HIDE DEF p, v
<1>3. /\ p \o v \in Seq(T) /\ Len(p \o v) = Len(r) + Len(w)
      /\ \A i \in 1..(Len(r) + Len(w)) :
            (p \o v)[i] = IF i <= Len(r) + 1 THEN p[i] ELSE v[i - (Len(r) + 1)]
  <2>1. Len(p) + Len(v) = Len(r) + Len(w)
    BY <1>1, <1>2
  <2>2. /\ p \o v \in Seq(T) /\ Len(p \o v) = Len(p) + Len(v)
        /\ \A i \in 1..(Len(p) + Len(v)) :
              (p \o v)[i] = IF i <= Len(p) THEN p[i] ELSE v[i - Len(p)]
    BY <1>1, <1>2, ConcatProperties
  <2> QED BY <1>2, <2>1, <2>2
<1>4. /\ r \o w \in Seq(T) /\ Len(r \o w) = Len(r) + Len(w)
      /\ \A i \in 1..(Len(r) + Len(w)) :
            (r \o w)[i] = IF i <= Len(r) THEN r[i] ELSE w[i - Len(r)]
  BY ConcatProperties
<1>5. ASSUME NEW i \in 1..(Len(r) + Len(w)) PROVE (p \o v)[i] = (r \o w)[i]
  <2>1. CASE i <= Len(r)
    <3>1. i \in 1..Len(r) /\ i <= Len(r) + 1
      BY <1>1, <2>1
    <3> QED BY <1>2, <1>3, <1>4, <2>1, <3>1
  <2>2. CASE i = Len(r) + 1
    <3>1. i - Len(r) = 1 /\ ~(i <= Len(r)) /\ i <= Len(r) + 1
      BY <1>1, <2>2
    <3> QED BY <1>2, <1>3, <1>4, <2>2, <3>1
  <2>3. CASE i > Len(r) + 1
    <3> DEFINE k == i - (Len(r) + 1)
    <3>1. /\ k \in 1..Len(v) /\ k + 1 = i - Len(r) /\ ~(i <= Len(r)) /\ ~(i <= Len(r) + 1)
      BY <1>1, <2>3
    <3>2. (p \o v)[i] = v[k] /\ (r \o w)[i] = w[i - Len(r)]
      BY <1>3, <1>4, <3>1
    <3> QED BY <1>1, <3>1, <3>2
  <2>4. i <= Len(r) \/ i = Len(r) + 1 \/ i > Len(r) + 1
    <3> DEFINE m == Len(r)
    <3>1. m \in Int /\ i \in Int
      OBVIOUS
    <3> HIDE DEF m
    <3>2. i <= m \/ i = m + 1 \/ i > m + 1
      BY <3>1
    <3> QED BY <3>2 DEF m
  <2> QED BY <2>1, <2>2, <2>3, <2>4
<1>6. p \o v = r \o w
  BY <1>3, <1>4, <1>5, SeqEqual
<1> QED BY <1>6 DEF p, v

\* Its head is the first message that is ready.
LEMMA QueueHead ==
    ASSUME NEW T, NEW r \in Seq(T), NEW w \in Seq(T), r # <<>>
    PROVE  /\ r \o w \in Seq(T) /\ r \o w # <<>>
           /\ Head(r \o w) = Head(r) /\ Head(r) \in T
           /\ Tail(r \o w) = Tail(r) \o w
           /\ Tail(r) \in Seq(T)
<1>1. r \o w \in Seq(T) /\ Len(r) \in Nat /\ Len(r) >= 1 /\ Len(w) \in Nat
  OBVIOUS
<1>2. /\ r \o w # <<>>
      /\ Head(r \o w) = Head(r) /\ Head(r) \in T
      /\ Tail(r) \in Seq(T)
  BY <1>1
<1> DEFINE p == Tail(r \o w)
           q == Tail(r) \o w
           n == Len(r) - 1 + Len(w)
<1>3. p \in Seq(T) /\ Len(p) = n /\ \A i \in 1..n : p[i] = (r \o w)[i + 1]
  <2> DEFINE c == r \o w
  <2>1. c \in Seq(T) /\ c # <<>> /\ Len(c) - 1 = n
    BY <1>1, <1>2
  <2> HIDE DEF c
  <2>2. Tail(c) \in Seq(T) /\ Len(Tail(c)) = n /\ \A i \in 1..n : Tail(c)[i] = c[i + 1]
    BY <2>1, HeadTailProperties
  <2> QED BY <2>2 DEF c
<1>4. /\ Len(Tail(r)) = Len(r) - 1
      /\ \A i \in 1..(Len(r) - 1) : Tail(r)[i] = r[i + 1]
  BY HeadTailProperties
<1>5. /\ q \in Seq(T) /\ Len(q) = n
      /\ \A i \in 1..n : q[i] = IF i <= Len(r) - 1 THEN Tail(r)[i] ELSE w[i - (Len(r) - 1)]
  BY <1>2, <1>4, ConcatProperties
<1>6. \A i \in 1..(Len(r) + Len(w)) :
          (r \o w)[i] = IF i <= Len(r) THEN r[i] ELSE w[i - Len(r)]
  BY ConcatProperties
<1> HIDE DEF p, q
<1>7. ASSUME NEW i \in 1..n PROVE p[i] = q[i]
  <2>1. /\ i + 1 \in 1..(Len(r) + Len(w))
        /\ i <= Len(r) - 1 <=> i + 1 <= Len(r)
        /\ i - (Len(r) - 1) = i + 1 - Len(r)
    BY <1>1
  <2>2. i <= Len(r) - 1 => i \in 1..(Len(r) - 1)
    BY <1>1
  <2> QED BY <1>3, <1>4, <1>5, <1>6, <2>1, <2>2
<1>8. p = q
  BY <1>3, <1>5, <1>7, SeqEqual
<1> QED BY <1>1, <1>2, <1>8 DEF p, q

\* What is put on the wire comes last.
LEMMA QueueGrows ==
    ASSUME NEW T, NEW r \in Seq(T), NEW w \in Seq(T), NEW x \in T
    PROVE  r \o Append(w, x) = Append(r \o w, x)
BY AppendAfter

\* What breaks off is the end of the queue.
LEMMA QueueIsCut ==
    ASSUME NEW T, NEW r \in Seq(T), NEW w \in Seq(T), NEW kept \in 0..Len(w)
    PROVE  /\ SubSeq(w, 1, kept) \in Seq(T)
           /\ Begins(r \o SubSeq(w, 1, kept), r \o w)
<1> DEFINE v == SubSeq(w, 1, kept)
<1>1. /\ v \in Seq(T) /\ Len(v) = kept /\ \A i \in 1..kept : v[i] = w[i]
  <2>1. kept \in Int /\ 1 \in Int /\ \A i \in 1..kept : w[i] \in T
    OBVIOUS
  <2>2. /\ v \in Seq(T)
        /\ Len(v) = IF 1 <= kept THEN kept - 1 + 1 ELSE 0
        /\ \A i \in 1..(kept - 1 + 1) : v[i] = w[1 + i - 1]
    BY <2>1, SubSeqProperties
  <2>3. kept \in Nat /\ kept - 1 + 1 = kept /\ \A i \in 1..kept : 1 + i - 1 = i
    OBVIOUS
  <2> HIDE DEF v
  <2> QED BY <2>2, <2>3
<1>2. Len(r) \in Nat /\ Len(w) \in Nat /\ kept \in Nat /\ kept <= Len(w)
  OBVIOUS
<1> HIDE DEF v
<1>3. /\ Len(r \o w) = Len(r) + Len(w)
      /\ \A i \in 1..(Len(r) + Len(w)) : (r \o w)[i] = IF i <= Len(r) THEN r[i] ELSE w[i - Len(r)]
  BY ConcatProperties
<1>4. /\ Len(r \o v) = Len(r) + kept
      /\ \A i \in 1..(Len(r) + kept) : (r \o v)[i] = IF i <= Len(r) THEN r[i] ELSE v[i - Len(r)]
  BY <1>1, ConcatProperties
<1>5. ASSUME NEW i \in 1..(Len(r) + kept) PROVE (r \o v)[i] = (r \o w)[i]
  <2>1. i \in 1..(Len(r) + Len(w)) /\ (~(i <= Len(r)) => i - Len(r) \in 1..kept)
    BY <1>2
  <2> QED BY <1>1, <1>3, <1>4, <2>1
<1>6. Begins(r \o v, r \o w)
  BY <1>2, <1>3, <1>4, <1>5 DEF Begins
<1> QED BY <1>1, <1>6 DEF v

-----------------------------------------------------------------------------
(* What is expected, in terms of its parts.                                *)

\* What a subscription to a log from some point on should bring.
ExpectedOf(rules, log, from, is_resolved) ==
    Those(SubSeq(log, from + 1, Len(log)), Wanted(rules, is_resolved))

\* What the log holds from some point on.
LEMMA RestOfLog ==
    ASSUME NEW log \in Seq(Items), NEW from \in 0..Len(log)
    PROVE  LET rest == SubSeq(log, from + 1, Len(log))
           IN  /\ rest \in Seq(Items) /\ Len(rest) = Len(log) - from
               /\ \A i \in 1..(Len(log) - from) : rest[i] = log[from + i]
<1> DEFINE n == Len(log)
           rest == SubSeq(log, from + 1, n)
<1>1. n \in Int /\ from + 1 \in Int /\ \A i \in (from + 1)..n : log[i] \in Items
  OBVIOUS
<1>2. /\ rest \in Seq(Items)
      /\ Len(rest) = IF from + 1 <= n THEN n - (from + 1) + 1 ELSE 0
      /\ \A i \in 1..(n - (from + 1) + 1) : rest[i] = log[from + 1 + i - 1]
  BY <1>1, SubSeqProperties
<1>3. n - (from + 1) + 1 = n - from /\ \A i \in Int : from + 1 + i - 1 = from + i
  OBVIOUS
<1>4. (IF from + 1 <= n THEN n - from ELSE 0) = n - from
  OBVIOUS
<1> HIDE DEF n, rest
<1>5. rest \in Seq(Items) /\ Len(rest) = n - from
      /\ \A i \in 1..(n - from) : rest[i] = log[from + i]
  BY <1>2, <1>3, <1>4
<1> QED BY <1>5 DEF n, rest

\* What is expected is wanted, and no more than the log holds.
LEMMA ExpectedType ==
    ASSUME NEW rules, NEW log \in Seq(Items), NEW from \in 0..Len(log), NEW is_resolved
    PROVE  LET e == ExpectedOf(rules, log, from, is_resolved)
           IN  /\ e \in Seq(Items) /\ Len(e) \in Nat /\ Len(e) <= Len(log)
               /\ \A i \in 1..Len(e) : e[i] \in Wanted(rules, is_resolved)
<1> DEFINE rest == SubSeq(log, from + 1, Len(log))
           set == Wanted(rules, is_resolved)
           e == Those(rest, set)
<1>1. rest \in Seq(Items) /\ Len(rest) = Len(log) - from
  BY RestOfLog
<1> HIDE DEF rest, set
<1>2. e \in Seq(Items) /\ Len(e) <= Len(rest) /\ \A i \in 1..Len(e) : e[i] \in set
  BY <1>1, ThoseType
<1> HIDE DEF e
<1>3. Len(e) \in Nat /\ Len(e) <= Len(log)
  BY <1>1, <1>2
<1> QED BY <1>2, <1>3 DEF ExpectedOf, e, rest, set

\* From the end of the log on, nothing is expected.
LEMMA ExpectedOfNothing ==
    ASSUME NEW rules, NEW log \in Seq(Items), NEW is_resolved
    PROVE  ExpectedOf(rules, log, Len(log), is_resolved) = <<>>
<1> DEFINE n == Len(log)
           rest == SubSeq(log, n + 1, n)
<1>1. n \in 0..Len(log) /\ n \in Nat
  OBVIOUS
<1>2. rest \in Seq(Items) /\ Len(rest) = n - n
  BY <1>1, RestOfLog
<1> HIDE DEF rest
<1>3. rest = <<>>
  BY <1>1, <1>2
<1> QED BY <1>3, ThoseOfEmpty DEF ExpectedOf, rest

\* What the producer adds is expected where it is wanted.
LEMMA ExpectedGrows ==
    ASSUME NEW rules, NEW log \in Seq(Items), NEW from \in 0..Len(log), NEW is_resolved,
           NEW item \in Items
    PROVE  ExpectedOf(rules, Append(log, item), from, is_resolved) =
               IF item \in Wanted(rules, is_resolved)
               THEN Append(ExpectedOf(rules, log, from, is_resolved), item)
               ELSE ExpectedOf(rules, log, from, is_resolved)
<1> DEFINE n == Len(log)
           longer == Append(log, item)
           rest == SubSeq(log, from + 1, n)
           more == SubSeq(longer, from + 1, Len(longer))
           set == Wanted(rules, is_resolved)
<1>1. /\ n \in Nat /\ from \in Nat /\ from <= n
      /\ longer \in Seq(Items) /\ Len(longer) = n + 1
      /\ \A i \in 1..n : longer[i] = log[i]
      /\ longer[n + 1] = item
  OBVIOUS
<1>2. /\ rest \in Seq(Items) /\ Len(rest) = n - from
      /\ \A i \in 1..(n - from) : rest[i] = log[from + i]
  BY RestOfLog
<1> HIDE DEF longer
<1>3. from \in 0..Len(longer)
  BY <1>1
<1>4. /\ more \in Seq(Items) /\ Len(more) = Len(longer) - from
      /\ \A i \in 1..(Len(longer) - from) : more[i] = longer[from + i]
  BY <1>1, <1>3, RestOfLog
<1> HIDE DEF n, rest, more, set
<1>5. /\ Append(rest, item) \in Seq(Items) /\ Len(Append(rest, item)) = Len(rest) + 1
      /\ \A i \in 1..Len(rest) : Append(rest, item)[i] = rest[i]
      /\ Append(rest, item)[Len(rest) + 1] = item
  BY <1>2
<1>6. Len(more) = n + 1 - from /\ Len(Append(rest, item)) = n + 1 - from
  BY <1>1, <1>2, <1>4, <1>5
<1>7. ASSUME NEW i \in 1..Len(more) PROVE more[i] = Append(rest, item)[i]
  <2>1. more[i] = longer[from + i]
    BY <1>4, <1>7
  <2>2. i \in Int /\ (i \in 1..(n - from) \/ i = n - from + 1)
    BY <1>1, <1>6
  <2>3. CASE i \in 1..(n - from)
    <3>1. from + i \in 1..n
      BY <1>1, <2>3
    <3> QED BY <1>1, <1>2, <1>5, <2>1, <2>3, <3>1
  <2>4. CASE i = n - from + 1
    <3>1. from + i = n + 1
      BY <1>1, <2>4
    <3> QED BY <1>1, <1>2, <1>5, <2>1, <2>4, <3>1
  <2> QED BY <2>2, <2>3, <2>4
<1>8. more = Append(rest, item)
  BY <1>4, <1>5, <1>6, <1>7, SeqEqual
<1>9. Those(Append(rest, item), set) =
          IF item \in set THEN Append(Those(rest, set), item) ELSE Those(rest, set)
  BY <1>2, ThoseOfAppend
<1>10. /\ ExpectedOf(rules, longer, from, is_resolved) = Those(more, set)
       /\ ExpectedOf(rules, log, from, is_resolved) = Those(rest, set)
  BY DEF ExpectedOf, more, rest, set, n
<1>11. ExpectedOf(rules, longer, from, is_resolved) =
          IF item \in set THEN Append(ExpectedOf(rules, log, from, is_resolved), item)
          ELSE ExpectedOf(rules, log, from, is_resolved)
  BY <1>8, <1>9, <1>10
<1> QED BY <1>11 DEF longer, set

\* Expected is that, of the log and the subscription there are.
LEMMA ExpectedIs ==
    \A is_resolved \in BOOLEAN :
        Expected(is_resolved) = ExpectedOf(filters, published, live_from, is_resolved)
BY DEF Expected, ExpectedOf

-----------------------------------------------------------------------------
(* Messages and kinds.                                                     *)

\* The kind under which an observation travels.
KindOf(is_resolved) == IF is_resolved THEN "canonical" ELSE "unresolved"

\* An observation travels under its kind, the end under none.
LEMMA KindsOfMessages ==
    /\ \A item \in Items :
          /\ item.tx.resolved \in BOOLEAN
          /\ Message(item) \in Messages
          /\ Message(item).item = item
          /\ Message(item).kind = KindOf(item.tx.resolved)
          /\ \A b \in BOOLEAN :
                Message(item) \in OfKind(KindOf(b)) <=> item.tx.resolved = b
    /\ \A end \in Stream!Ends :
          /\ End(end) \in Messages /\ End(end).kind = "end" /\ End(end).end = end
          /\ \A b \in BOOLEAN : End(end) \notin OfKind(KindOf(b))
<1>1. ASSUME NEW item \in Items
      PROVE  /\ item.tx.resolved \in BOOLEAN
             /\ Message(item) \in Messages
             /\ Message(item).item = item
             /\ Message(item).kind = KindOf(item.tx.resolved)
             /\ \A b \in BOOLEAN :
                   Message(item) \in OfKind(KindOf(b)) <=> item.tx.resolved = b
  <2>1. item.tx.resolved \in BOOLEAN
    <3>1. item.tx \in Observations
      BY ProgramAssumption DEF Items
    <3> QED BY <3>1 DEF Observations
  <2>2. /\ Message(item).item = item
        /\ Message(item).kind = KindOf(item.tx.resolved)
        /\ Message(item) \in [kind : {KindOf(item.tx.resolved)}, item : Items]
    BY DEF Message, KindOf
  <2>3. ASSUME NEW b \in BOOLEAN
        PROVE  Message(item) \in OfKind(KindOf(b)) <=> item.tx.resolved = b
    <3>1. Message(item) \in OfKind(KindOf(b)) => Message(item).kind = KindOf(b)
      BY DEF OfKind
    <3>2. KindOf(b) = KindOf(item.tx.resolved) => item.tx.resolved = b
      BY <2>1 DEF KindOf
    <3> QED BY <2>2, <3>1, <3>2 DEF OfKind
  <2> QED BY <2>1, <2>2, <2>3 DEF Messages
<1>2. ASSUME NEW end \in Stream!Ends
      PROVE  /\ End(end) \in Messages /\ End(end).kind = "end" /\ End(end).end = end
             /\ \A b \in BOOLEAN : End(end) \notin OfKind(KindOf(b))
  <2>1. End(end).kind = "end" /\ End(end).end = end
    BY DEF End
  <2>2. \A b \in BOOLEAN : End(end) \in OfKind(KindOf(b)) => End(end).kind = KindOf(b)
    BY DEF OfKind
  <2>3. \A b \in BOOLEAN : KindOf(b) # "end"
    BY DEF KindOf
  <2> QED BY <2>1, <2>2, <2>3 DEF Messages
<1> QED BY <1>1, <1>2

\* Every message is the one or the other.
LEMMA MessageCases ==
    ASSUME NEW message \in Messages
    PROVE  \/ \E end \in Stream!Ends : message = End(end)
           \/ message.item \in Items /\ message = Message(message.item)
<1>1. CASE \E item \in Items : message = Message(item)
  BY <1>1, KindsOfMessages
<1> QED BY <1>1 DEF Messages

\* What is under way, of the one kind and of the other.
LEMMA UnderWayIs ==
    /\ UnderWay("canonical") = Those(ready \o wire, OfKind(KindOf(TRUE)))
    /\ UnderWay("unresolved") = Those(ready \o wire, OfKind(KindOf(FALSE)))
BY DEF UnderWay, OfKind, KindOf

\* What is taken of one kind from a queue of messages is of that kind.
LEMMA UnderWayType ==
    ASSUME NEW q \in Seq(Messages), NEW kind
    PROVE  Those(q, OfKind(kind)) \in Seq(OfKind(kind))
<1> DEFINE u == Those(q, OfKind(kind))
<1>1. u \in Seq(Messages) /\ \A i \in 1..Len(u) : u[i] \in OfKind(kind)
  BY ThoseType
<1> HIDE DEF u
<1>2. Len(u) \in Nat /\ u \in [1..Len(u) -> OfKind(kind)]
  BY <1>1
<1>3. u \in Seq(OfKind(kind))
  BY <1>2, SeqDef
<1> QED BY <1>3 DEF u

-----------------------------------------------------------------------------
(* The filter.                                                             *)

\* In match-all mode everything is selected.
LEMMA MatchAllSelects ==
    ASSUME NEW rules \in Seq(Filter!Rules), Filter!ModeOf(rules) = "MatchAll",
           NEW item \in Items
    PROVE  SelectedBy(rules, item)
<1> DEFINE tx == [vote |-> item.tx.vote,
                  keys |-> item.tx.static \cup (IF item.tx.resolved THEN item.tx.loaded ELSE {})]
<1>1. /\ Filter!Rules = FilterProofs!Rules
      /\ Filter!ObservedTransactions = FilterProofs!ObservedTransactions
      /\ Filter!ModeOf(rules) = FilterProofs!ModeOf(rules)
      /\ Filter!Matches(rules, tx) <=> FilterProofs!Matches(rules, tx)
  BY DEF Filter!Rules, FilterProofs!Rules, Filter!ObservedTransactions,
         FilterProofs!ObservedTransactions, Filter!ModeOf, FilterProofs!ModeOf,
         Filter!Unrestricted, FilterProofs!Unrestricted, Filter!Matches, FilterProofs!Matches,
         Filter!Admits, FilterProofs!Admits, Filter!Range, FilterProofs!Range
<1>2. tx \in FilterProofs!ObservedTransactions
  <2>1. item.tx \in Observations
    BY ProgramAssumption DEF Items
  <2>2. item.tx.vote \in BOOLEAN /\ item.tx.static \subseteq Keys /\ item.tx.loaded \subseteq Keys
    BY <2>1 DEF Observations
  <2> QED BY <2>2 DEF FilterProofs!ObservedTransactions
<1> HIDE DEF tx
<1>3. rules \in Seq(FilterProofs!Rules) /\ FilterProofs!ModeOf(rules) = "MatchAll"
  BY <1>1
<1>4. FilterProofs!Matches(rules, tx)
  BY <1>2, <1>3, FilterProofs!MatchAllSelectsEverything, ProgramAssumption
<1> QED BY <1>1, <1>4 DEF SelectedBy, tx

\* The mode is one of the two that there are.
LEMMA ModeType == \A rules : Filter!ModeOf(rules) \in Modes
BY DEF Filter!ModeOf, Modes

-----------------------------------------------------------------------------
(* The two validators and what the producer sends.                         *)

\* A canonical frame that both validators accept is handed over.
LEMMA CanonicalIsHandedOver ==
    ASSUME NEW frame \in Frames, Stream!ReceiveCanonical(frame),
           ValidateError(canonical, frame) = "Ok", epoch \in {None, frame.producer_epoch}
    PROVE  /\ awaiting' = FALSE /\ failed' = FALSE /\ returned' = "Ok"
           /\ canonical' = ValidateResolved(canonical, frame)
           /\ epoch' = frame.producer_epoch
           /\ resolved' = Append(resolved, TransactionOf(frame))
           /\ UNCHANGED <<structural_sequence, unresolved>>
<1>1. /\ Stream!ValidateError(canonical, frame) = ValidateError(canonical, frame)
      /\ Stream!ValidateResolved(canonical, frame) = ValidateResolved(canonical, frame)
      /\ Stream!TransactionOf(frame) = TransactionOf(frame)
  BY DEF Stream!ValidateError, ValidateError, Stream!ValidateResolved, ValidateResolved,
         Stream!TransactionOf, TransactionOf, Stream!ObserveError, ObserveError,
         Stream!EpochChanged, EpochChanged, Stream!Exhausted, Exhausted,
         Stream!Regressed, Regressed, Stream!Gap, Gap,
         Stream!RequiredFlags, RequiredFlags
<1>2. Stream!CanonicalError(frame) = "Ok"
  BY <1>1 DEF Stream!CanonicalError, Stream!EpochDiffers
<1> QED BY <1>1, <1>2 DEF Stream!ReceiveCanonical, Stream!Return

\* An unresolved observation that the outer validator accepts is handed over.
LEMMA UnresolvedIsHandedOver ==
    ASSUME NEW item \in Items, Stream!ReceiveUnresolved(RawOf(item)),
           structural_sequence \in Nat, item.sequence > structural_sequence,
           epoch \in {None, item.epoch}
    PROVE  /\ awaiting' = FALSE /\ failed' = FALSE /\ returned' = "Ok"
           /\ structural_sequence' = item.sequence
           /\ epoch' = item.epoch
           /\ unresolved' = Append(unresolved, IdOf(item))
           /\ UNCHANGED <<canonical, resolved>>
<1> DEFINE raw == RawOf(item)
<1>1. /\ raw.producer_epoch = item.epoch /\ raw.structural_sequence = item.sequence
      /\ raw.reason_len = MaxReasonBytes /\ raw.parses = TRUE
  BY DEF RawOf
<1>2. /\ item.epoch \in Nat /\ item.epoch # 0 /\ item.sequence \in Nat /\ item.sequence # 0
      /\ MaxReasonBytes \in Nat /\ MaxReasonBytes # 0
  <2>1. item.epoch \in 1..MaxU64 /\ item.sequence \in 1..MaxU64
    BY EpochAssumption DEF Items
  <2> QED BY <2>1, WidthAssumption, ProgramAssumption
<1> HIDE DEF raw
<1>3. ~(item.sequence <= structural_sequence) /\ ~(MaxReasonBytes > MaxReasonBytes)
  BY <1>2
<1>4. Stream!UnresolvedError(raw) = "Ok"
  BY <1>1, <1>2, <1>3 DEF Stream!UnresolvedError, Stream!InvalidIdentity, Stream!EpochDiffers
<1>5. Stream!Raw(raw) = IdOf(item)
  BY <1>1 DEF Stream!Raw, IdOf
<1>6. Stream!ReceiveUnresolved(raw)
  BY DEF raw
<1> QED BY <1>1, <1>4, <1>5, <1>6 DEF Stream!ReceiveUnresolved, Stream!Return

\* The frame of an observation.
LEMMA FrameOfItem ==
    ASSUME NEW item \in Items
    PROVE  /\ FrameOf(item) \in Frames
           /\ FrameOf(item).producer_epoch = item.epoch
           /\ FrameOf(item).canonical_sequence = item.sequence
           /\ TransactionOf(FrameOf(item)) = IdOf(item)
BY DEF FrameOf, Frames, TransactionOf, IdOf, Items

\* The validator accepts what follows the last sequence number it knows.
LEMMA FollowerIsAccepted ==
    ASSUME NEW v \in Validators, NEW item \in Items,
           v.producer_epoch \in {None, item.epoch},
           v.last_sequence # None => Follows(TRUE, v.mode, v.last_sequence, item.sequence)
    PROVE  /\ ValidateError(v, FrameOf(item)) = "Ok"
           /\ ValidateResolved(v, FrameOf(item)) \in Validators
           /\ ValidateResolved(v, FrameOf(item)).mode = v.mode
           /\ ValidateResolved(v, FrameOf(item)).producer_epoch = item.epoch
           /\ ValidateResolved(v, FrameOf(item)).last_sequence = item.sequence
<1> DEFINE frame == FrameOf(item)
<1>1. /\ frame \in Frames
      /\ frame.producer_epoch = item.epoch /\ frame.canonical_sequence = item.sequence
      /\ frame.parses = TRUE /\ frame.trailing = FALSE /\ frame.flags = RequiredFlags
  BY FrameOfItem DEF FrameOf
<1> HIDE DEF frame
<1>2. item.sequence \in Nat /\ item.sequence <= MaxU64 /\ MaxU64 \in Nat
  BY WidthAssumption DEF Items
<1>3. v.last_sequence # None => v.last_sequence \in Nat
  BY WidthAssumption DEF Validators
<1>4. v.last_sequence # None =>
          ~Exhausted(v) /\ ~Regressed(v, item.sequence) /\ ~Gap(v, item.sequence)
  BY <1>2, <1>3 DEF Follows, Exhausted, Regressed, Gap
<1>5. ~EpochChanged(v, item.epoch)
  BY DEF EpochChanged
<1>6. ObserveError(v, item.epoch, item.sequence) = "Ok"
  BY <1>4, <1>5 DEF ObserveError
<1>7. ValidateError(v, frame) = "Ok"
  BY <1>1, <1>6 DEF ValidateError
<1>8. /\ ValidateResolved(v, frame) \in Validators
      /\ ValidateResolved(v, frame).mode = v.mode
      /\ ValidateResolved(v, frame).producer_epoch = frame.producer_epoch
      /\ ValidateResolved(v, frame).last_sequence = frame.canonical_sequence
  BY <1>1, <1>7, ValidateResolvedType, AcceptedFrameIsRecorded
<1> QED BY <1>1, <1>7, <1>8 DEF frame

\* connect() accepts no cap on decoded messages below the longest message of
\* the contract.
LEMMA AcceptedCapFits ==
    ASSUME NEW chosen \in Configs, NEW tx \in Traffic, Refused(chosen, tx.length)
    PROVE  /\ InvalidConfig(chosen)
           /\ chosen.max_message_bytes < CanonicalMessageLength(12288)
<1>1. /\ chosen.max_message_bytes \in Nat /\ tx.length \in Nat
      /\ tx.length <= CanonicalMessageLength(12288)
      /\ tx.length > chosen.max_message_bytes
  <2>1. tx \in Observations
    BY ProgramAssumption
  <2> QED BY <2>1, ProgramAssumption DEF Configs, Observations, Refused
<1>2. CanonicalMessageLength(12288) = 12291
  BY DEF CanonicalMessageLength, FieldLength, VarintLength
<1>3. chosen.max_message_bytes < 12300
  BY <1>1, <1>2
<1> QED BY <1>1, <1>2, <1>3 DEF InvalidConfig

-----------------------------------------------------------------------------
(* What a step does to the invariant, by what it leaves alone.             *)

\* The queue, what is under way and what is expected have their types.
LEMMA StateTypes ==
    ASSUME Typed
    PROVE  /\ ready \o wire \in Seq(Messages)
           /\ UnderWay("canonical") \in Seq(OfKind("canonical"))
           /\ UnderWay("unresolved") \in Seq(OfKind("unresolved"))
           /\ \A b \in BOOLEAN :
                 /\ Expected(b) \in Seq(Items)
                 /\ Len(Expected(b)) \in Nat /\ Len(Expected(b)) <= Len(published)
                 /\ \A i \in 1..Len(Expected(b)) : Expected(b)[i] \in Wanted(filters, b)
<1>1. ready \o wire \in Seq(Messages)
  BY DEF Typed
<1>2. /\ UnderWay("canonical") \in Seq(OfKind("canonical"))
      /\ UnderWay("unresolved") \in Seq(OfKind("unresolved"))
  BY <1>1, UnderWayType, UnderWayIs DEF KindOf
<1>3. ASSUME NEW b \in BOOLEAN
      PROVE  /\ Expected(b) \in Seq(Items)
             /\ Len(Expected(b)) \in Nat /\ Len(Expected(b)) <= Len(published)
             /\ \A i \in 1..Len(Expected(b)) : Expected(b)[i] \in Wanted(filters, b)
  <2>1. published \in Seq(Items) /\ live_from \in 0..Len(published)
    BY DEF Typed
  <2> QED BY <2>1, ExpectedType, ExpectedIs
<1> QED BY <1>1, <1>2, <1>3

\* What is expected depends on the filter, the log and where it was joined.
LEMMA ExpectedStays ==
    UNCHANGED <<filters, published, live_from>> =>
        Expected(TRUE)' = Expected(TRUE) /\ Expected(FALSE)' = Expected(FALSE)
BY DEF Expected

\* The counts stay right if neither they nor what they count changes.
LEMMA CountsStay ==
    ASSUME Counted, UNCHANGED <<resolved, unresolved, counts>>,
           Expected(FALSE)' = Expected(FALSE)
    PROVE  Counted'
BY DEF Counted, counts

\* The record stays right likewise.
LEMMA RecordStays ==
    ASSUME Recorded, phase' \in {"run", "parked"} => phase \in {"run", "parked"},
           UNCHANGED <<canonical, epoch, structural_sequence, resolved, unresolved, filters>>
    PROVE  Recorded'
BY DEF Recorded

\* What is expected stays in order as long as neither it nor what may come
\* next changes.
LEMMA OrderStays ==
    ASSUME Orderly, UNCHANGED <<filters, published, live_from, epoch>>,
           Attached' => Attached,
           open' => open /\ producer_epoch' = producer_epoch
    PROVE  Orderly'
<1>1. Expected(TRUE)' = Expected(TRUE) /\ Expected(FALSE)' = Expected(FALSE)
  BY ExpectedStays
<1> SUFFICES ASSUME Attached' PROVE (Sequenced(TRUE) /\ Sequenced(FALSE) /\ OfOneEpoch)'
  BY DEF Orderly
<1>2. Sequenced(TRUE) /\ Sequenced(FALSE) /\ OfOneEpoch
  BY DEF Orderly
<1>3. Sequenced(TRUE)' /\ Sequenced(FALSE)'
  BY <1>1, <1>2 DEF Sequenced
<1>4. OfOneEpoch'
  BY <1>1, <1>2 DEF OfOneEpoch
<1> QED BY <1>3, <1>4

\* A step that leaves the queue and the subscription alone.
LEMMA QuietStep ==
    ASSUME IInv, ready' \o wire' = ready \o wire, Attached' => Attached,
           UNCHANGED <<filters, producer, live_from, open, epoch, resolved, unresolved, counts>>
    PROVE  Orderly' /\ Flowing' /\ Counted'
<1>1. UNCHANGED <<filters, published, producer_epoch, live_from, open, epoch>>
  BY DEF producer
<1>2. Expected(TRUE)' = Expected(TRUE) /\ Expected(FALSE)' = Expected(FALSE)
  BY <1>1, ExpectedStays
<1>3. Orderly'
  BY <1>1, OrderStays DEF IInv
<1>4. Counted'
  BY <1>2, CountsStay DEF IInv
<1>5. UnderWay("canonical")' = UnderWay("canonical")
      /\ UnderWay("unresolved")' = UnderWay("unresolved")
  BY DEF UnderWay
<1>6. Flowing'
  BY <1>1, <1>2, <1>5 DEF IInv, Flowing
<1> QED BY <1>3, <1>4, <1>6

\* A step with which the program ends.
LEMMA LeavingStep ==
    ASSUME IInv, phase' = "done", open' = FALSE, wire' = <<>>, ready' = <<>>,
           UNCHANGED <<filters, published, live_from, resolved, unresolved, counts>>
    PROVE  Orderly' /\ Flowing' /\ Recorded' /\ Counted'
<1>1. ~Attached' /\ Orderly' /\ Recorded'
  BY DEF Attached, Orderly, Recorded
<1>2. Expected(TRUE)' = Expected(TRUE) /\ Expected(FALSE)' = Expected(FALSE)
  BY ExpectedStays
<1>3. Counted'
  BY <1>2, CountsStay DEF IInv
<1>4. UnderWay("canonical")' = <<>> /\ UnderWay("unresolved")' = <<>>
  <2>1. ready' \o wire' = <<>>
    OBVIOUS
  <2> QED BY <2>1, ThoseOfEmpty DEF UnderWay
<1>5. \A kind : <<>> \in Seq(OfKind(kind))
  OBVIOUS
<1>6. ASSUME NEW kind, NEW h \in Seq(Transactions), NEW u \in Seq(OfKind(kind)),
             NEW e \in Seq(Items), Flows(h, u, e, open)
      PROVE  Flows(h, <<>>, e, FALSE)
  <2> DEFINE v == <<>>
  <2>1. v \in Seq(OfKind(kind)) /\ Begins(v, u)
    BY <1>5 DEF Begins
  <2>2. open \in BOOLEAN
    BY DEF IInv, Typed
  <2> HIDE DEF v
  <2>3. Flows(h, v, e, FALSE)
    BY <1>6, <2>1, <2>2, FlowIsCut
  <2> QED BY <2>3 DEF v
<1>7. Flows(resolved, <<>>, Expected(TRUE), FALSE)
      /\ Flows(unresolved, <<>>, Expected(FALSE), FALSE)
  BY <1>6, StateTypes DEF IInv, Typed, Flowing
<1>8. Flowing'
  BY <1>2, <1>4, <1>7 DEF Flowing
<1> QED BY <1>1, <1>3, <1>8

\* A step with which the subscription ends, perhaps with the loss of what the
\* server sent last.
LEMMA ClosingStep ==
    ASSUME IInv, NEW end \in Stream!Ends, NEW kept \in 0..Len(wire),
           open' = FALSE, wire' = Append(SubSeq(wire, 1, kept), End(end)),
           UNCHANGED <<filters, published, live_from, resolved, unresolved, counts,
                       epoch, ready, phase>>
    PROVE  wire' \in Seq(Messages) /\ Orderly' /\ Flowing' /\ Counted'
<1> DEFINE left == SubSeq(wire, 1, kept)
<1>1. wire \in Seq(Messages) /\ ready \in Seq(Messages) /\ open \in BOOLEAN
      /\ resolved \in Seq(Transactions) /\ unresolved \in Seq(Transactions)
  BY DEF IInv, Typed
<1>2. Expected(TRUE)' = Expected(TRUE) /\ Expected(FALSE)' = Expected(FALSE)
  BY ExpectedStays
<1>3. Counted'
  BY <1>2, CountsStay DEF IInv
<1>4. Orderly'
  <2>1. Attached' => Attached
    BY DEF Attached
  <2> QED BY <2>1, OrderStays DEF IInv
<1>5. left \in Seq(Messages) /\ Begins(ready \o left, ready \o wire)
  BY <1>1, QueueIsCut
<1>6. End(end) \in Messages
  BY KindsOfMessages
<1> HIDE DEF left
<1>7. wire' = Append(left, End(end)) /\ wire' \in Seq(Messages)
  BY <1>5, <1>6 DEF left
<1>8. ready' \o wire' = Append(ready \o left, End(end))
  <2> DEFINE x == End(end)
             T == Messages
  <2>1. ready \in Seq(T) /\ left \in Seq(T) /\ x \in T
    BY <1>1, <1>5, <1>6
  <2>2. ready' = ready /\ wire' = Append(left, x)
    BY <1>7
  <2> HIDE DEF x, T
  <2>3. ready \o Append(left, x) = Append(ready \o left, x)
    BY <2>1, QueueGrows
  <2> QED BY <2>2, <2>3 DEF x
<1>9. ready \o left \in Seq(Messages) /\ ready \o wire \in Seq(Messages)
  BY <1>1, <1>5
<1>10. ASSUME NEW b \in BOOLEAN, NEW h \in Seq(Transactions), NEW e \in Seq(Items),
              Flows(h, Those(ready \o wire, OfKind(KindOf(b))), e, open)
       PROVE  Flows(h, Those(ready' \o wire', OfKind(KindOf(b))), e, FALSE)
  <2> DEFINE kind == KindOf(b)
             u == Those(ready \o wire, OfKind(kind))
             v == Those(ready \o left, OfKind(kind))
  <2>1. End(end) \notin OfKind(kind)
    BY KindsOfMessages
  <2>2. Those(ready' \o wire', OfKind(kind)) = v
    <3> DEFINE x == End(end)
               q == ready \o left
               T == Messages
               set == OfKind(kind)
    <3>1. q \in Seq(T) /\ x \in T /\ x \notin set
      BY <1>6, <1>9, <2>1
    <3> HIDE DEF x, q, T, set
    <3>2. Those(Append(q, x), set) = Those(q, set)
      BY <3>1, ThoseOfAppend
    <3> QED BY <1>8, <3>2 DEF x, q, set
  <2>3. u \in Seq(OfKind(kind)) /\ v \in Seq(OfKind(kind))
    BY <1>9, UnderWayType
  <2>4. Begins(v, u)
    BY <1>5, <1>9, ThoseOfPrefix
  <2>5. Flows(h, u, e, open)
    BY <1>10
  <2> HIDE DEF u, v, kind
  <2>6. Flows(h, v, e, FALSE)
    BY <1>1, <2>3, <2>4, <2>5, FlowIsCut
  <2> QED BY <2>2, <2>6 DEF kind
<1>11. Flowing'
  <2>1. /\ Flows(resolved, Those(ready \o wire, OfKind(KindOf(TRUE))), Expected(TRUE), open)
        /\ Flows(unresolved, Those(ready \o wire, OfKind(KindOf(FALSE))), Expected(FALSE), open)
    BY UnderWayIs DEF IInv, Flowing
  <2>2. Expected(TRUE) \in Seq(Items) /\ Expected(FALSE) \in Seq(Items)
    BY StateTypes DEF IInv
  <2>3. /\ Flows(resolved, Those(ready' \o wire', OfKind(KindOf(TRUE))), Expected(TRUE), FALSE)
        /\ Flows(unresolved, Those(ready' \o wire', OfKind(KindOf(FALSE))), Expected(FALSE),
                 FALSE)
    BY <1>1, <1>10, <2>1, <2>2
  <2>4. /\ UnderWay("canonical")' = Those(ready' \o wire', OfKind(KindOf(TRUE)))
        /\ UnderWay("unresolved")' = Those(ready' \o wire', OfKind(KindOf(FALSE)))
    BY DEF UnderWay, OfKind, KindOf
  <2> QED BY <1>2, <2>3, <2>4 DEF Flowing
<1> QED BY <1>3, <1>4, <1>7, <1>11

-----------------------------------------------------------------------------
(* The producer.                                                           *)

\* What the producer adds keeps what is expected in order, and so does what
\* it may add next.
LEMMA OrderGrows ==
    ASSUME NEW rules \in Seq(Filter!Rules), NEW log \in Seq(Items), NEW from \in 0..Len(log),
           NEW item \in Items, NEW b \in BOOLEAN,
           item.sequence = NextNumber(log, item.epoch, item.tx.resolved),
           Chained(b, Filter!ModeOf(rules), ExpectedOf(rules, log, from, b)),
           Continues(b, Filter!ModeOf(rules), ExpectedOf(rules, log, from, b),
                     NextNumber(log, item.epoch, b))
    PROVE  /\ Chained(b, Filter!ModeOf(rules), ExpectedOf(rules, Append(log, item), from, b))
           /\ Continues(b, Filter!ModeOf(rules), ExpectedOf(rules, Append(log, item), from, b),
                        NextNumber(Append(log, item), item.epoch, b))
<1> DEFINE mode == Filter!ModeOf(rules)
           e == ExpectedOf(rules, log, from, b)
           d == ExpectedOf(rules, Append(log, item), from, b)
           m == NextNumber(log, item.epoch, b)
           n == NextNumber(Append(log, item), item.epoch, b)
<1>1. d = IF item \in Wanted(rules, b) THEN Append(e, item) ELSE e
  BY ExpectedGrows
<1>2. n = IF b => item.tx.resolved THEN m + 1 ELSE m
  BY NextNumberGrows
<1>3. e \in Seq(Items) /\ Len(e) \in Nat
  BY ExpectedType
<1>4. m \in Nat
  <2>1. m \in 1..(Len(log) + 1) /\ Len(log) \in Nat
    BY NextNumberBound
  <2> HIDE DEF m
  <2> QED BY <2>1
<1>5. item.tx.resolved \in BOOLEAN
  BY KindsOfMessages
<1>6. item \in Wanted(rules, b) <=> SelectedBy(rules, item) /\ item.tx.resolved = b
  BY DEF Wanted
<1>7. mode = "MatchAll" => SelectedBy(rules, item)
  BY MatchAllSelects
<1>8. item.tx.resolved = b => item.sequence = m
  OBVIOUS
<1>9. Chained(b, mode, e) /\ Continues(b, mode, e, m)
  OBVIOUS
<1> HIDE DEF mode, e, d, m, n
<1>10. CASE item \in Wanted(rules, b)
  <2>1. d = Append(e, item) /\ n = m + 1 /\ item.sequence = m
    BY <1>1, <1>2, <1>6, <1>8, <1>10
  <2>2. Chained(b, mode, d)
    BY <1>3, <1>9, <2>1, ChainGrows
  <2>3. Len(d) = Len(e) + 1 /\ d[Len(e) + 1] = item
    BY <1>3, <2>1
  <2>4. d[Len(d)].sequence = m
    BY <2>1, <2>3
  <2>5. Continues(b, mode, d, n)
    BY <1>4, <2>1, <2>4 DEF Continues, Follows
  <2> QED BY <2>2, <2>5 DEF d, n, mode
<1>11. CASE item \notin Wanted(rules, b)
  <2>1. d = e
    BY <1>1, <1>11
  <2>2. ASSUME e # <<>> PROVE Follows(b, mode, e[Len(e)].sequence, n)
    <3> DEFINE last == e[Len(e)].sequence
    <3>1. Follows(b, mode, last, m)
      BY <1>9, <2>2 DEF Continues
    <3>2. last \in Nat
      <4>1. Len(e) \in 1..Len(e)
        BY <1>3, <2>2
      <4>2. e[Len(e)] \in Items
        BY <1>3, <4>1
      <4> HIDE DEF last
      <4>3. \A x \in Items : x.sequence \in Nat
        BY WidthAssumption DEF Items
      <4> QED BY <4>2, <4>3 DEF last
    <3> HIDE DEF last
    <3>3. CASE n = m
      BY <3>1, <3>3 DEF last
    <3>4. CASE n # m
      <4>1. n = m + 1 /\ (b => item.tx.resolved)
        BY <1>2, <3>4
      <4>2. ~(b /\ mode = "MatchAll")
        BY <1>5, <1>6, <1>7, <1>11, <4>1
      <4>3. Follows(b, mode, last, n)
        BY <1>4, <3>1, <3>2, <4>1, <4>2 DEF Follows
      <4> QED BY <4>3 DEF last
    <3> QED BY <3>3, <3>4
  <2>3. Continues(b, mode, e, n)
    BY <2>2 DEF Continues
  <2> QED BY <1>9, <2>1, <2>3 DEF d, n, mode
<1> QED BY <1>10, <1>11

\* A standing subscription brings what the producer adds and the filter
\* selects.
LEMMA FlowFollows ==
    ASSUME NEW rules, NEW log \in Seq(Items), NEW from \in 0..Len(log),
           NEW item \in Items, NEW b \in BOOLEAN, NEW q \in Seq(Messages),
           NEW h \in Seq(Transactions), SelectedBy(rules, item),
           Flows(h, Those(q, OfKind(KindOf(b))), ExpectedOf(rules, log, from, b), TRUE)
    PROVE  Flows(h, Those(Append(q, Message(item)), OfKind(KindOf(b))),
                 ExpectedOf(rules, Append(log, item), from, b), TRUE)
<1> DEFINE kind == KindOf(b)
           T == Messages
           set == OfKind(kind)
           message == Message(item)
           u == Those(q, set)
           v == Those(Append(q, message), set)
           e == ExpectedOf(rules, log, from, b)
           d == ExpectedOf(rules, Append(log, item), from, b)
<1>1. message \in T /\ q \in Seq(T) /\ message.item = item
      /\ (message \in set <=> item.tx.resolved = b)
  BY KindsOfMessages
<1>2. item \in Wanted(rules, b) <=> item.tx.resolved = b
  BY DEF Wanted
<1>3. d = IF item \in Wanted(rules, b) THEN Append(e, item) ELSE e
  BY ExpectedGrows
<1>4. e \in Seq(Items)
  BY ExpectedType
<1>5. u \in Seq(OfKind(kind))
  BY UnderWayType
<1>6. Flows(h, u, e, TRUE)
  OBVIOUS
<1> HIDE DEF T, message, set
<1>7. v = IF message \in set THEN Append(u, message) ELSE u
  BY <1>1, ThoseOfAppend
<1> HIDE DEF u, v, e, d, kind
<1>8. CASE item.tx.resolved = b
  <2>1. message \in OfKind(kind)
    BY <1>1, <1>8 DEF set
  <2>2. Flows(h, Append(u, message), Append(e, message.item), TRUE)
    BY <1>4, <1>5, <1>6, <2>1, FlowGrows
  <2>3. Flows(h, v, d, TRUE)
    BY <1>1, <1>2, <1>3, <1>7, <1>8, <2>2
  <2> QED BY <2>3 DEF v, d, set, kind, message
<1>9. CASE item.tx.resolved # b
  <2>1. Flows(h, v, d, TRUE)
    BY <1>1, <1>2, <1>3, <1>6, <1>7, <1>9
  <2> QED BY <2>1 DEF v, d, set, kind, message
<1> QED BY <1>8, <1>9

\* What the producer adds is one item with the next number.
LEMMA PublishedItem ==
    ASSUME IInv, NEW tx \in Traffic, Publish(tx)
    PROVE  \E item \in Items :
              /\ item.epoch = producer_epoch
              /\ item.sequence = NextNumber(published, producer_epoch, item.tx.resolved)
              /\ published' = Append(published, item)
              /\ Len(published) + 1 <= MaxPublished
              /\ wire' = IF open /\ SelectedBy(filters, item)
                         THEN Append(wire, Message(item)) ELSE wire
<1> DEFINE item == [epoch |-> producer_epoch, sequence |-> NextSequence(tx), tx |-> tx]
<1>1. NextSequence(tx) = NextNumber(published, producer_epoch, tx.resolved)
  BY DEF NextSequence, NextNumber, Numbered
<1>2. published \in Seq(Items) /\ producer_epoch \in Epochs /\ Len(published) \in Nat
  BY DEF IInv, Typed
<1>3. Len(published) + 1 <= MaxPublished /\ MaxPublished <= MaxU64
  <2>1. Len(published) < MaxPublished
    BY DEF Publish
  <2> QED BY <1>2, <2>1, ProgramAssumption, WidthAssumption
<1>4. NextNumber(published, producer_epoch, tx.resolved) \in 1..MaxU64
  <2>1. NextNumber(published, producer_epoch, tx.resolved) \in 1..(Len(published) + 1)
    BY <1>2, NextNumberBound
  <2> QED BY <1>2, <1>3, <2>1, ProgramAssumption, WidthAssumption
<1>5. item \in Items
  BY <1>1, <1>2, <1>4 DEF Items
<1>6. /\ published' = Append(published, item)
      /\ wire' = IF open /\ SelectedBy(filters, item) THEN Append(wire, Message(item)) ELSE wire
  BY DEF Publish
<1>7. /\ item.epoch = producer_epoch /\ item.tx = tx
      /\ item.sequence = NextNumber(published, producer_epoch, tx.resolved)
  BY <1>1
<1> HIDE DEF item
<1> QED BY <1>3, <1>5, <1>6, <1>7

\* Those that were counted stay the same when more is expected.
LEMMA UnderStays ==
    ASSUME NEW e \in Seq(Items), NEW x \in Items, NEW n \in Nat, n <= Len(e)
    PROVE  \A reason : Under(Append(e, x), n, reason) = Under(e, n, reason)
<1> DEFINE d == Append(e, x)
<1>1. \A i \in 1..n : i \in 1..Len(e)
  OBVIOUS
<1>2. \A i \in 1..Len(e) : d[i] = e[i]
  OBVIOUS
<1> HIDE DEF d
<1>3. \A reason : Under(d, n, reason) = Under(e, n, reason)
  BY <1>1, <1>2 DEF Under
<1> QED BY <1>3 DEF d

\* The step of the producer keeps the invariant.
LEMMA PublishStep ==
    ASSUME IInv, NEW tx \in Traffic, Publish(tx)
    PROVE  IInv'
<1>1. PICK item \in Items :
          /\ item.epoch = producer_epoch
          /\ item.sequence = NextNumber(published, producer_epoch, item.tx.resolved)
          /\ published' = Append(published, item)
          /\ Len(published) + 1 <= MaxPublished
          /\ wire' = IF open /\ SelectedBy(filters, item)
                     THEN Append(wire, Message(item)) ELSE wire
  BY PublishedItem
<1>2. UNCHANGED <<stream, phase, outcome, setup, deadline_passed, counts, producer_epoch,
                  open, live_from, ready>>
  BY DEF Publish
<1>3. /\ published \in Seq(Items) /\ Len(published) \in Nat /\ live_from \in 0..Len(published)
      /\ wire \in Seq(Messages) /\ ready \in Seq(Messages) /\ filters \in Seq(Filter!Rules)
      /\ open \in BOOLEAN
      /\ resolved \in Seq(Transactions) /\ unresolved \in Seq(Transactions)
  BY DEF IInv, Typed
<1>4. Message(item) \in Messages
  BY KindsOfMessages
<1>5. UNCHANGED <<canonical, epoch, structural_sequence, failed, awaiting, returned,
                  resolved, unresolved, accounts, filters, config, checked>>
  BY <1>2 DEF stream, setup
<1>6. Typed'
  <2>1. wire' \in Seq(Messages)
    BY <1>1, <1>3, <1>4
  <2>2. /\ published' \in Seq(Items) /\ Len(published') = Len(published) + 1
        /\ live_from' \in 0..Len(published')
    BY <1>1, <1>2, <1>3
  <2> QED BY <1>1, <1>2, <1>5, <2>1, <2>2 DEF IInv, Typed
<1>7. Staged'
  <2>1. phase = "subscribe" \/ open
    BY DEF Publish
  <2>2. phase \in {"subscribe", "run", "parked"}
    BY <2>1 DEF IInv, Staged
  <2> QED BY <1>2, <1>5, <2>2 DEF IInv, Staged
<1>8. Recorded'
  BY <1>2, <1>5, RecordStays DEF IInv
<1>9. NoAlarm'
  BY <1>2, <1>5 DEF IInv, NoAlarm, NoFalseAlarm, LegalMessageFits
<1> DEFINE e(b) == ExpectedOf(filters, published, live_from, b)
           d(b) == ExpectedOf(filters, Append(published, item), live_from, b)
           q == ready \o wire
           u(b) == Those(q, OfKind(KindOf(b)))
           v(b) == Those(ready' \o wire', OfKind(KindOf(b)))
<1>10. /\ Expected(TRUE) = e(TRUE) /\ Expected(FALSE) = e(FALSE)
       /\ Expected(TRUE)' = d(TRUE) /\ Expected(FALSE)' = d(FALSE)
       /\ UnderWay("canonical") = u(TRUE) /\ UnderWay("unresolved") = u(FALSE)
       /\ UnderWay("canonical")' = v(TRUE) /\ UnderWay("unresolved")' = v(FALSE)
  <2>1. Expected(TRUE) = e(TRUE) /\ Expected(FALSE) = e(FALSE)
    BY ExpectedIs
  <2>2. Expected(TRUE)' = d(TRUE) /\ Expected(FALSE)' = d(FALSE)
    BY <1>1, <1>2, <1>5 DEF Expected, ExpectedOf
  <2>3. UnderWay("canonical")' = v(TRUE) /\ UnderWay("unresolved")' = v(FALSE)
    BY DEF UnderWay, OfKind, KindOf
  <2>4. UnderWay("canonical") = u(TRUE) /\ UnderWay("unresolved") = u(FALSE)
    BY DEF UnderWay, OfKind, KindOf
  <2> HIDE DEF e, d, u, v
  <2> QED BY <2>1, <2>2, <2>3, <2>4
<1>11. \A b \in BOOLEAN : e(b) \in Seq(Items) /\ Len(e(b)) \in Nat
  BY <1>3, ExpectedType
<1>12. \A b \in BOOLEAN :
          d(b) = IF item \in Wanted(filters, b) THEN Append(e(b), item) ELSE e(b)
  <2> SUFFICES ASSUME NEW b \in BOOLEAN
               PROVE  d(b) = IF item \in Wanted(filters, b) THEN Append(e(b), item) ELSE e(b)
    OBVIOUS
  <2>1. published \in Seq(Items) /\ live_from \in 0..Len(published)
    BY <1>3
  <2> QED BY <2>1, ExpectedGrows
<1>13. q \in Seq(Messages) /\ \A b \in BOOLEAN : u(b) \in Seq(OfKind(KindOf(b)))
  <2>1. q \in Seq(Messages)
    BY <1>3
  <2> HIDE DEF q
  <2> QED BY <2>1, UnderWayType
<1>14. Flows(resolved, u(TRUE), e(TRUE), open) /\ Flows(unresolved, u(FALSE), e(FALSE), open)
  BY <1>10 DEF IInv, Flowing
<1>15. Counted'
  <2>1. Len(unresolved) \in Nat /\ Len(unresolved) <= Len(e(FALSE))
    <3> DEFINE kind == KindOf(FALSE)
               handed == u(FALSE)
               all == e(FALSE)
    <3>1. /\ handed \in Seq(OfKind(kind)) /\ all \in Seq(Items)
          /\ Flows(unresolved, handed, all, open)
      BY <1>11, <1>13, <1>14
    <3> HIDE DEF kind, handed, all
    <3>2. Len(unresolved) \in Nat /\ Len(handed) \in Nat /\ Len(all) \in Nat
          /\ Len(unresolved) + Len(handed) <= Len(all)
      BY <1>3, <3>1, FlowLengths
    <3>3. Len(unresolved) \in Nat /\ Len(unresolved) <= Len(all)
      BY <3>2
    <3> QED BY <3>3 DEF all
  <2>2. \A reason : Under(d(FALSE), Len(unresolved), reason)
                    = Under(e(FALSE), Len(unresolved), reason)
    <3> DEFINE all == e(FALSE)
               n == Len(unresolved)
    <3>1. n \in Nat /\ n <= Len(all) /\ all \in Seq(Items)
          /\ (d(FALSE) = Append(all, item) \/ d(FALSE) = all)
      BY <1>11, <1>12, <2>1
    <3> HIDE DEF all, n
    <3>2. \A reason : Under(Append(all, item), n, reason) = Under(all, n, reason)
      BY <3>1, UnderStays
    <3> QED BY <3>1, <3>2 DEF all, n
  <2>3. Counted
    BY DEF IInv
  <2> HIDE DEF e, d
  <2>4. \A reason \in Reasons :
            reasons[reason] = Cardinality(Under(d(FALSE), Len(unresolved), reason))
    BY <1>10, <2>2, <2>3 DEF Counted
  <2> QED BY <1>2, <1>5, <1>10, <2>3, <2>4 DEF Counted, counts
<1>16. Orderly'
  <2> SUFFICES ASSUME Attached' PROVE (Sequenced(TRUE) /\ Sequenced(FALSE) /\ OfOneEpoch)'
    BY DEF Orderly
  <2>1. open
    <3>1. phase = "subscribe" \/ open
      BY DEF Publish
    <3> QED BY <1>2, <3>1 DEF Attached
  <2>2. Sequenced(TRUE) /\ Sequenced(FALSE) /\ OfOneEpoch
    BY <2>1 DEF IInv, Orderly, Attached
  <2>3. ASSUME NEW b \in BOOLEAN,
               Chained(b, Filter!ModeOf(filters), e(b)),
               Continues(b, Filter!ModeOf(filters), e(b), NextNumber(published, producer_epoch, b))
        PROVE  /\ Chained(b, Filter!ModeOf(filters), d(b))
               /\ Continues(b, Filter!ModeOf(filters), d(b),
                            NextNumber(Append(published, item), producer_epoch, b))
    BY <1>1, <1>3, <2>3, OrderGrows
  <2>4. \A b \in BOOLEAN : Expected(b) = e(b) /\ Expected(b)' = d(b)
    BY <1>10
  <2> HIDE DEF e, d
  <2>5. Sequenced(TRUE)'
    <3>1. /\ Chained(TRUE, Filter!ModeOf(filters), e(TRUE))
          /\ Continues(TRUE, Filter!ModeOf(filters), e(TRUE),
                       NextNumber(published, producer_epoch, TRUE))
      BY <1>10, <2>1, <2>2 DEF Sequenced
    <3>2. /\ Chained(TRUE, Filter!ModeOf(filters), d(TRUE))
          /\ Continues(TRUE, Filter!ModeOf(filters), d(TRUE),
                       NextNumber(Append(published, item), producer_epoch, TRUE))
      BY <2>3, <3>1
    <3> QED BY <1>1, <1>2, <1>5, <1>10, <3>2 DEF Sequenced
  <2>6. Sequenced(FALSE)'
    <3> DEFINE b == FALSE
    <3>1. /\ Chained(b, Filter!ModeOf(filters), e(b))
          /\ Continues(b, Filter!ModeOf(filters), e(b), NextNumber(published, producer_epoch, b))
      BY <1>10, <2>1, <2>2 DEF Sequenced
    <3>2. b \in BOOLEAN
      OBVIOUS
    <3> HIDE DEF b
    <3>3. /\ Chained(b, Filter!ModeOf(filters), d(b))
          /\ Continues(b, Filter!ModeOf(filters), d(b),
                       NextNumber(Append(published, item), producer_epoch, b))
      BY <2>3, <3>1, <3>2
    <3> QED BY <1>1, <1>2, <1>5, <1>10, <3>3 DEF Sequenced, b
  <2>7. OfOneEpoch'
    <3>1. PICK n \in Epochs :
             /\ producer_epoch = n /\ epoch \in {None, n}
             /\ AllOf(e(TRUE), n) /\ AllOf(e(FALSE), n)
      BY <1>10, <2>1, <2>2 DEF OfOneEpoch
    <3>2. AllOf(d(TRUE), n) /\ AllOf(d(FALSE), n)
      BY <1>1, <1>11, <1>12, <3>1, AllOfGrows
    <3> QED BY <1>2, <1>5, <1>10, <3>1, <3>2 DEF OfOneEpoch
  <2> QED BY <2>5, <2>6, <2>7
<1>17. Flowing'
  <2>1. CASE open /\ SelectedBy(filters, item)
    <3>1. ready' \o wire' = Append(q, Message(item))
      <4> DEFINE x == Message(item)
                 T == Messages
      <4>1. ready \in Seq(T) /\ wire \in Seq(T) /\ x \in T
        BY <1>3, <1>4
      <4>2. ready' = ready /\ wire' = Append(wire, x)
        BY <1>1, <1>2, <2>1
      <4> HIDE DEF x, T
      <4>3. ready \o Append(wire, x) = Append(ready \o wire, x)
        BY <4>1, QueueGrows
      <4> QED BY <4>2, <4>3 DEF x
    <3> HIDE DEF q
    <3>2. ASSUME NEW b \in BOOLEAN, NEW h \in Seq(Transactions), Flows(h, u(b), e(b), TRUE)
          PROVE  Flows(h, v(b), d(b), TRUE)
      BY <1>3, <1>13, <2>1, <3>1, <3>2, FlowFollows
    <3>3. open = TRUE
      BY <1>3, <2>1
    <3>4. Flows(resolved, v(TRUE), d(TRUE), TRUE) /\ Flows(unresolved, v(FALSE), d(FALSE), TRUE)
      BY <1>3, <1>14, <3>2, <3>3
    <3> QED BY <1>2, <1>5, <1>10, <3>3, <3>4 DEF Flowing
  <2>2. CASE ~(open /\ SelectedBy(filters, item))
    <3>1. ready' \o wire' = q
      BY <1>1, <1>2, <2>2
    <3>2. ASSUME NEW b \in BOOLEAN, NEW h \in Seq(Transactions), Flows(h, u(b), e(b), open)
          PROVE  Flows(h, u(b), d(b), open)
      <4>1. CASE open
        <5>1. item \notin Wanted(filters, b)
          BY <2>2, <4>1 DEF Wanted
        <5> QED BY <1>12, <3>2, <5>1
      <4>2. CASE ~open
        <5> DEFINE kind == KindOf(b)
        <5>1. open = FALSE /\ e(b) \in Seq(Items) /\ u(b) \in Seq(OfKind(kind))
              /\ d(b) = IF item \in Wanted(filters, b) THEN Append(e(b), item) ELSE e(b)
          BY <1>3, <1>11, <1>12, <1>13, <4>2
        <5>2. Flows(h, u(b), e(b), FALSE)
          BY <3>2, <5>1
        <5> HIDE DEF e, d, u, kind
        <5>3. Flows(h, u(b), Append(e(b), item), FALSE)
          BY <5>1, <5>2, FlowFallsBehind
        <5> QED BY <5>1, <5>2, <5>3
      <4> QED BY <4>1, <4>2
    <3>3. v(TRUE) = u(TRUE) /\ v(FALSE) = u(FALSE)
      BY <3>1
    <3>4. Flows(resolved, u(TRUE), d(TRUE), open) /\ Flows(unresolved, u(FALSE), d(FALSE), open)
      BY <1>3, <1>14, <3>2
    <3> HIDE DEF e, d, u, v
    <3> QED BY <1>2, <1>5, <1>10, <3>3, <3>4 DEF Flowing
  <2> QED BY <2>1, <2>2
<1> QED BY <1>6, <1>7, <1>8, <1>9, <1>15, <1>16, <1>17 DEF IInv

-----------------------------------------------------------------------------
(* The server and the connection.                                          *)

\* Nothing has been counted yet where nothing has been handed over.
LEMMA NothingCounted ==
    \A items, reason : Under(items, Len(<<>>), reason) = {}
BY DEF Under

\* A subscription begins with nothing expected and nothing under way.
LEMMA ServerAcceptsStep ==
    ASSUME IInv, ServerAccepts
    PROVE  IInv'
<1>1. /\ phase = "subscribe" /\ open' = TRUE /\ live_from' = Len(published) /\ wire' = <<>>
      /\ UNCHANGED <<stream, phase, outcome, setup, deadline_passed, counts, producer, ready>>
  BY DEF ServerAccepts
<1>2. UNCHANGED <<canonical, epoch, structural_sequence, failed, awaiting, returned,
                  resolved, unresolved, accounts, filters, config, checked,
                  producer_epoch, published>>
  BY <1>1 DEF stream, setup, producer
<1>3. /\ published \in Seq(Items) /\ Len(published) \in 0..Len(published)
      /\ resolved = <<>> /\ unresolved = <<>> /\ ready = <<>> /\ epoch = None
      /\ producer_epoch \in Epochs
  BY <1>1 DEF IInv, Typed, Staged
<1>4. Typed'
  <2>1. <<>> \in Seq(Messages)
    OBVIOUS
  <2> QED BY <1>1, <1>2, <1>3, <2>1 DEF IInv, Typed
<1>5. Staged' /\ Recorded' /\ NoAlarm'
  <2>1. Staged'
    BY <1>1, <1>2, <1>3 DEF IInv, Staged
  <2>2. Recorded'
    BY <1>1, <1>2, RecordStays DEF IInv
  <2>3. NoAlarm'
    BY <1>1, <1>2 DEF IInv, NoAlarm, NoFalseAlarm, LegalMessageFits
  <2> QED BY <2>1, <2>2, <2>3
<1>6. Expected(TRUE)' = <<>> /\ Expected(FALSE)' = <<>>
  <2>1. \A b \in BOOLEAN : ExpectedOf(filters, published, Len(published), b) = <<>>
    BY <1>3, ExpectedOfNothing
  <2>2. /\ Expected(TRUE)' = ExpectedOf(filters', published', live_from', TRUE)
        /\ Expected(FALSE)' = ExpectedOf(filters', published', live_from', FALSE)
    BY DEF Expected, ExpectedOf
  <2> QED BY <1>1, <1>2, <2>1, <2>2
<1>7. UnderWay("canonical")' = <<>> /\ UnderWay("unresolved")' = <<>>
  <2>1. ready' \o wire' = <<>>
    BY <1>1, <1>3
  <2> QED BY <2>1, ThoseOfEmpty DEF UnderWay
<1>8. Flowing'
  <2>1. Flows(<<>>, <<>>, <<>>, TRUE)
    BY DEF Flows
  <2> QED BY <1>1, <1>2, <1>3, <1>6, <1>7, <2>1 DEF Flowing
<1>9. Orderly'
  <2>1. \A b, mode : Chained(b, mode, <<>>)
    BY DEF Chained
  <2>2. \A b, mode, next : Continues(b, mode, <<>>, next)
    BY DEF Continues
  <2>3. \A e : AllOf(<<>>, e)
    BY DEF AllOf
  <2>4. Sequenced(TRUE)' /\ Sequenced(FALSE)'
    BY <1>6, <2>1, <2>2 DEF Sequenced
  <2>5. OfOneEpoch'
    BY <1>2, <1>3, <1>6, <2>3 DEF OfOneEpoch
  <2> QED BY <2>4, <2>5 DEF Orderly
<1>10. Counted'
  <2>1. Counted
    BY DEF IInv
  <2> QED BY <1>1, <1>2, <1>3, <2>1, NothingCounted DEF Counted, counts
<1> QED BY <1>4, <1>5, <1>8, <1>9, <1>10 DEF IInv

\* The end of a subscription keeps the invariant.
LEMMA SubscriptionEndsStep ==
    ASSUME IInv, NEW end \in Stream!Ends, NEW kept \in 0..Len(wire),
           SubscriptionEnds(end, kept)
    PROVE  IInv'
<1>1. /\ phase \in {"run", "parked"}
      /\ open' = FALSE /\ wire' = Append(SubSeq(wire, 1, kept), End(end))
      /\ UNCHANGED <<stream, phase, outcome, setup, deadline_passed, counts, producer,
                     live_from, ready>>
  BY DEF SubscriptionEnds
<1>2. UNCHANGED <<canonical, epoch, structural_sequence, failed, awaiting, returned,
                  resolved, unresolved, accounts, filters, config, checked,
                  producer_epoch, published>>
  BY <1>1 DEF stream, setup, producer
<1>3. wire' \in Seq(Messages) /\ Orderly' /\ Flowing' /\ Counted'
  BY <1>1, <1>2, ClosingStep
<1>4. Typed'
  BY <1>1, <1>2, <1>3 DEF IInv, Typed
<1>5. Staged'
  BY <1>1, <1>2 DEF IInv, Staged
<1>6. Recorded'
  BY <1>1, <1>2, RecordStays DEF IInv
<1>7. NoAlarm'
  BY <1>1, <1>2 DEF IInv, NoAlarm, NoFalseAlarm, LegalMessageFits
<1> QED BY <1>3, <1>4, <1>5, <1>6, <1>7 DEF IInv

\* So does a restart of the producer.
LEMMA ProducerRestartsStep ==
    ASSUME IInv, ProducerRestarts
    PROVE  IInv'
<1>1. PICK code \in Codes :
          /\ phase = "subscribe" \/ open
          /\ producer_epoch' = producer_epoch + 1 /\ producer_epoch' \in Epochs
          /\ open' = FALSE
          /\ wire' = IF open THEN Append(wire, End(code)) ELSE wire
          /\ UNCHANGED <<stream, phase, outcome, setup, deadline_passed, counts, published,
                         live_from, ready>>
  BY DEF ProducerRestarts
<1>2. UNCHANGED <<canonical, epoch, structural_sequence, failed, awaiting, returned,
                  resolved, unresolved, accounts, filters, config, checked>>
  BY <1>1 DEF stream, setup
<1>3. wire \in Seq(Messages) /\ ready \in Seq(Messages) /\ open \in BOOLEAN
  BY DEF IInv, Typed
<1>4. wire' \in Seq(Messages) /\ Orderly' /\ Flowing' /\ Counted'
  <2>1. CASE open
    <3>1. SubSeq(wire, 1, Len(wire)) = wire /\ Len(wire) \in 0..Len(wire)
      BY <1>3
    <3>2. code \in Stream!Ends
      BY DEF Stream!Ends
    <3>3. wire' = Append(SubSeq(wire, 1, Len(wire)), End(code))
      BY <1>1, <2>1, <3>1
    <3> QED BY <1>1, <1>2, <3>1, <3>2, <3>3, ClosingStep
  <2>2. CASE ~open
    <3>1. wire' = wire /\ open' = open /\ phase' = "subscribe"
      BY <1>1, <1>3, <2>2
    <3>2. ~Attached'
      BY <1>1, <3>1 DEF Attached
    <3>3. Expected(TRUE)' = Expected(TRUE) /\ Expected(FALSE)' = Expected(FALSE)
      BY <1>1, <1>2, ExpectedStays
    <3>4. Flowing'
      <4>1. /\ UnderWay("canonical")' = UnderWay("canonical")
            /\ UnderWay("unresolved")' = UnderWay("unresolved")
        BY <1>1, <3>1 DEF UnderWay
      <4> QED BY <1>2, <3>1, <3>3, <4>1 DEF IInv, Flowing
    <3>5. Counted'
      BY <1>1, <1>2, <3>3, CountsStay DEF IInv
    <3> QED BY <1>3, <3>1, <3>2, <3>4, <3>5 DEF Orderly
  <2> QED BY <2>1, <2>2
<1>5. Typed'
  BY <1>1, <1>2, <1>4 DEF IInv, Typed
<1>6. Staged'
  <2>1. phase \in {"subscribe", "run", "parked"}
    BY <1>1 DEF IInv, Staged
  <2> QED BY <1>1, <1>2, <2>1 DEF IInv, Staged
<1>7. Recorded'
  BY <1>1, <1>2, RecordStays DEF IInv
<1>8. NoAlarm'
  BY <1>1, <1>2 DEF IInv, NoAlarm, NoFalseAlarm, LegalMessageFits
<1> QED BY <1>4, <1>5, <1>6, <1>7, <1>8 DEF IInv

\* The connection task moves a message within the queue.
LEMMA ConnectionReadsStep ==
    ASSUME IInv, ConnectionReads
    PROVE  IInv'
<1>1. /\ phase = "parked" /\ wire # <<>>
      /\ ready' = Append(ready, Head(wire)) /\ wire' = Tail(wire)
      /\ UNCHANGED <<stream, phase, outcome, setup, deadline_passed, counts, producer,
                     open, live_from>>
  BY DEF ConnectionReads
<1>2. UNCHANGED <<canonical, epoch, structural_sequence, failed, awaiting, returned,
                  resolved, unresolved, accounts, filters, config, checked,
                  producer_epoch, published>>
  BY <1>1 DEF stream, setup, producer
<1>3. wire \in Seq(Messages) /\ ready \in Seq(Messages)
  BY DEF IInv, Typed
<1>4. ready' \o wire' = ready \o wire
  BY <1>1, <1>3, QueueShifts
<1>5. Orderly' /\ Flowing' /\ Counted'
  <2>1. Attached' => Attached
    BY <1>1 DEF Attached
  <2> QED BY <1>1, <1>2, <1>4, <2>1, QuietStep
<1>6. Typed'
  <2>1. wire' \in Seq(Messages) /\ ready' \in Seq(Messages)
    <3> DEFINE T == Messages
    <3>1. wire \in Seq(T) /\ ready \in Seq(T) /\ wire # <<>>
      BY <1>1, <1>3
    <3> HIDE DEF T
    <3>2. Head(wire) \in T /\ Tail(wire) \in Seq(T)
      BY <3>1
    <3>3. Append(ready, Head(wire)) \in Seq(T)
      BY <3>1, <3>2
    <3> QED BY <1>1, <3>2, <3>3 DEF T
  <2> QED BY <1>1, <1>2, <2>1 DEF IInv, Typed
<1>7. Staged'
  BY <1>1, <1>2 DEF IInv, Staged
<1>8. Recorded'
  BY <1>1, <1>2, RecordStays DEF IInv
<1>9. NoAlarm'
  BY <1>1, <1>2 DEF IInv, NoAlarm, NoFalseAlarm, LegalMessageFits
<1> QED BY <1>5, <1>6, <1>7, <1>8, <1>9 DEF IInv

-----------------------------------------------------------------------------
(* The program.                                                            *)

\* What main may end with here.
Harmless ==
    Outcomes \ ({"None", "StreamEnded", "InvalidObservation", RefusedStatus} \cup StreamErrors)

\* The one case in which a message may be refused.
Undersized == ~checked /\ config.max_message_bytes < CanonicalMessageLength(12288)

\* A step of the program beside the stream.
LEMMA AsideStep ==
    ASSUME IInv, Staged', phase' \in Phases,
           failed' \in BOOLEAN, awaiting' \in BOOLEAN, deadline_passed' \in BOOLEAN,
           phase' \in {"run", "parked"} => phase \in {"run", "parked"},
           UNCHANGED <<canonical, epoch, structural_sequence, returned, resolved, unresolved,
                       counts, setup, producer, subscription, outcome>>
    PROVE  IInv'
<1>1. UNCHANGED <<accounts, filters, config, checked, producer_epoch, published, open, live_from,
                  wire, ready>>
  BY DEF setup, producer, subscription
<1>2. Attached' => Attached
  BY <1>1 DEF Attached
<1>3. Orderly' /\ Flowing' /\ Counted'
  BY <1>1, <1>2, QuietStep
<1>4. Typed'
  BY <1>1 DEF IInv, Typed
<1>5. Recorded'
  BY <1>1, RecordStays DEF IInv
<1>6. NoAlarm'
  BY <1>1 DEF IInv, NoAlarm, NoFalseAlarm, LegalMessageFits
<1> QED BY <1>3, <1>4, <1>5, <1>6 DEF IInv

\* A step with which main returns.
LEMMA ExitStep ==
    ASSUME IInv, NEW result, Exit(result),
           result \in Harmless \/ (result = RefusedStatus /\ Undersized),
           failed' \in BOOLEAN, awaiting' = FALSE, returned' \in {"Ok"} \cup Outcomes,
           UNCHANGED <<canonical, epoch, structural_sequence, resolved, unresolved,
                       counts, setup, deadline_passed, producer, live_from>>
    PROVE  IInv'
<1>1. UNCHANGED <<accounts, filters, config, checked, producer_epoch, published>>
  BY DEF setup, producer
<1>2. phase' = "done" /\ outcome' = result /\ open' = FALSE /\ wire' = <<>> /\ ready' = <<>>
  BY DEF Exit
<1>3. Orderly' /\ Flowing' /\ Recorded' /\ Counted'
  <2>1. UNCHANGED <<filters, published, live_from, resolved, unresolved, counts>>
    BY <1>1
  <2> QED BY <1>2, <2>1, LeavingStep
<1>4. RefusedStatus \in Outcomes /\ RefusedStatus \notin StreamErrors
      /\ RefusedStatus \notin {"None", "StreamEnded", "InvalidObservation"}
  BY DEF Outcomes, RefusedStatus, StreamErrors
<1>5. /\ result \in Outcomes /\ result # "None"
      /\ result \notin StreamErrors \cup {"InvalidObservation", "StreamEnded"}
      /\ result = RefusedStatus => Undersized
  BY <1>4 DEF Harmless
<1>6. Typed'
  <2>1. <<>> \in Seq(Messages)
    OBVIOUS
  <2>2. Typed
    BY DEF IInv
  <2>3. phase' \in Phases /\ outcome' \in Outcomes /\ open' \in BOOLEAN
        /\ failed' \in BOOLEAN /\ awaiting' \in BOOLEAN /\ returned' \in {"Ok"} \cup Outcomes
        /\ wire' \in Seq(Messages) /\ ready' \in Seq(Messages)
    BY <1>2, <1>5, <2>1 DEF Phases
  <2>4. UNCHANGED <<canonical, epoch, structural_sequence, resolved, unresolved,
                    deadline_passed, live_from>>
    OBVIOUS
  <2> QED BY <1>1, <2>2, <2>3, <2>4 DEF Typed
<1>7. Staged'
  BY <1>1, <1>2, <1>5 DEF IInv, Staged
<1>8. NoAlarm'
  BY <1>1, <1>2, <1>5 DEF NoAlarm, NoFalseAlarm, LegalMessageFits, Undersized
<1> QED BY <1>3, <1>6, <1>7, <1>8 DEF IInv

\* A server's status, or the end of the stream, is no false alarm.
LEMMA EndsAreHarmless == Stream!Ends \subseteq Harmless /\ "Ok" \notin Stream!Ends
<1>1. "EndOfStream" \notin {"Ok", "None", "StreamEnded", "InvalidObservation", RefusedStatus}
                           \cup StreamErrors
  BY DEF RefusedStatus, StreamErrors
<1>2. \A code \in Codes :
          code \notin {"Ok", "None", "StreamEnded", "InvalidObservation", RefusedStatus}
                      \cup StreamErrors
  BY ProgramAssumption
<1> QED BY <1>1, <1>2 DEF Stream!Ends, Harmless, Outcomes

\* Nor is any error of the program that it meets before it has a stream.
LEMMA EarlyErrorsAreHarmless ==
    {"Help", "InvalidArguments", "InvalidEndpoint", "InvalidConfig", "Transport",
     "InvalidFilter", "SubscribeTimeout", "Completed"} \subseteq Harmless
BY DEF Harmless, Outcomes, RefusedStatus, StreamErrors

\* main() reads its arguments.
LEMMA ReadArgumentsStep ==
    ASSUME IInv, ReadArguments PROVE IInv'
<1>1. phase = "start" /\ UNCHANGED <<stream, setup, deadline_passed, counts, producer, live_from>>
  BY DEF ReadArguments
<1>2. UNCHANGED <<canonical, epoch, structural_sequence, failed, awaiting, returned,
                  resolved, unresolved>>
  BY <1>1 DEF stream
<1>3. awaiting = FALSE /\ failed \in BOOLEAN /\ deadline_passed \in BOOLEAN
      /\ returned \in {"Ok"} \cup Outcomes
  BY <1>1 DEF IInv, Typed, Staged
<1>4. CASE phase' = "connect" /\ UNCHANGED <<outcome, open, wire, ready>>
  <2>1. Staged'
    <3>1. Staged
      BY DEF IInv
    <3>2. UNCHANGED <<published, checked, config>>
      BY <1>1 DEF producer, setup
    <3>3. phase' \notin {"done", "run", "parked", "subscribe"} /\ phase' \in {"start", "connect"}
      BY <1>4
    <3> QED BY <1>1, <1>2, <1>4, <3>1, <3>2, <3>3 DEF Staged
  <2>2. UNCHANGED subscription
    BY <1>1, <1>4 DEF subscription
  <2> QED BY <1>1, <1>2, <1>3, <1>4, <2>1, <2>2, AsideStep DEF Phases
<1>5. CASE \E result \in {"Help", "InvalidArguments"} : Exit(result)
  <2>1. PICK result \in {"Help", "InvalidArguments"} : Exit(result)
    BY <1>5
  <2>2. result \in Harmless
    BY EarlyErrorsAreHarmless
  <2> QED BY <1>1, <1>2, <1>3, <2>1, <2>2, ExitStep
<1> QED BY <1>4, <1>5 DEF ReadArguments

\* connect() or from_channel(), with any outcome.
LEMMA ConnectStep ==
    ASSUME IInv, NEW endpoint \in Endpoints, Connect(endpoint) PROVE IInv'
<1> DEFINE verdict == IF checked THEN ConnectError(endpoint, config) ELSE "Ok"
<1>1. phase = "connect"
      /\ UNCHANGED <<stream, setup, deadline_passed, counts, producer, live_from>>
  BY DEF Connect
<1>2. UNCHANGED <<canonical, epoch, structural_sequence, failed, awaiting, returned,
                  resolved, unresolved>>
  BY <1>1 DEF stream
<1>3. awaiting = FALSE /\ failed \in BOOLEAN /\ deadline_passed \in BOOLEAN
      /\ returned \in {"Ok"} \cup Outcomes
  BY <1>1 DEF IInv, Typed, Staged
<1>4. IF verdict = "Ok" THEN phase' = "filter" /\ UNCHANGED <<outcome, open, wire, ready>>
      ELSE Exit(verdict)
  BY DEF Connect
<1>5. CASE verdict = "Ok"
  <2>1. checked => ~InvalidConfig(config)
    BY <1>5 DEF ConnectError
  <2> HIDE DEF verdict
  <2>2. phase' = "filter" /\ UNCHANGED <<outcome, open, wire, ready>>
    BY <1>4, <1>5
  <2>3. Staged'
    <3>1. Staged
      BY DEF IInv
    <3>2. UNCHANGED <<published, checked, config>>
      BY <1>1 DEF producer, setup
    <3>3. (~InvalidConfig(config))' = ~InvalidConfig(config)
      BY <3>2
    <3> QED BY <1>1, <1>2, <2>1, <2>2, <3>1, <3>2, <3>3 DEF Staged
  <2>4. UNCHANGED subscription
    BY <1>1, <2>2 DEF subscription
  <2> QED BY <1>1, <1>2, <1>3, <2>2, <2>3, <2>4, AsideStep DEF Phases
<1>6. CASE verdict # "Ok"
  <2>1. verdict \in {"InvalidEndpoint", "InvalidConfig", "Transport"}
    BY <1>6 DEF ConnectError
  <2>2. verdict \in Harmless
    BY <2>1, EarlyErrorsAreHarmless
  <2> HIDE DEF verdict
  <2>3. Exit(verdict)
    BY <1>4, <1>6
  <2> QED BY <1>1, <1>2, <1>3, <2>2, <2>3, ExitStep
<1> QED BY <1>5, <1>6

\* The request for the subscription fails.
LEMMA SubscribeFailsStep ==
    ASSUME IInv, NEW error \in {"SubscribeTimeout"} \cup Codes, SubscribeFails(error)
    PROVE  IInv'
<1>1. phase = "subscribe" /\ Exit(error)
      /\ UNCHANGED <<stream, setup, deadline_passed, counts, producer, live_from>>
  BY DEF SubscribeFails
<1>2. UNCHANGED <<canonical, epoch, structural_sequence, failed, awaiting, returned,
                  resolved, unresolved>>
  BY <1>1 DEF stream
<1>3. awaiting = FALSE /\ failed \in BOOLEAN /\ returned \in {"Ok"} \cup Outcomes
  BY <1>1 DEF IInv, Typed, Staged
<1>4. error \in Harmless
  BY EndsAreHarmless, EarlyErrorsAreHarmless DEF Stream!Ends
<1> QED BY <1>1, <1>2, <1>3, <1>4, ExitStep

\* A call of next() up to its await.
LEMMA CallNextStep ==
    ASSUME IInv, CallNext PROVE IInv'
<1>1. phase = "run" /\ ~failed
  BY DEF CallNext, IInv, Staged
<1>2. /\ Stream!CallNext
      /\ UNCHANGED <<phase, outcome, open, wire, ready>>
      /\ UNCHANGED <<setup, deadline_passed, counts, producer, live_from>>
  BY <1>1 DEF CallNext
<1>3. /\ awaiting' = TRUE
      /\ UNCHANGED <<canonical, epoch, structural_sequence, failed, returned,
                     resolved, unresolved>>
  BY <1>2 DEF Stream!CallNext, Stream!validator
<1>4. failed \in BOOLEAN /\ deadline_passed \in BOOLEAN /\ phase \in Phases
  BY DEF IInv, Typed
<1>5. Staged'
  <2>1. Staged
    BY DEF IInv
  <2>2. UNCHANGED <<published, checked, config>>
    BY <1>2 DEF producer, setup
  <2> QED BY <1>1, <1>2, <1>3, <2>1, <2>2 DEF Staged
<1>6. UNCHANGED subscription
  BY <1>2 DEF subscription
<1> QED BY <1>1, <1>2, <1>3, <1>4, <1>5, <1>6, AsideStep

\* While main is parked nothing is handed over.
LEMMA WaitingStep ==
    ASSUME IInv, DeadlinePasses \/ Park \/ Wake PROVE IInv'
<1>1. /\ phase \in {"run", "parked"} /\ phase' \in {"run", "parked"}
      /\ deadline_passed' \in {deadline_passed, TRUE}
      /\ UNCHANGED <<stream, outcome, setup, counts, producer, subscription>>
  BY DEF DeadlinePasses, Park, Wake
<1>2. UNCHANGED <<canonical, epoch, structural_sequence, failed, awaiting, returned,
                  resolved, unresolved>>
  BY <1>1 DEF stream
<1>3. failed \in BOOLEAN /\ awaiting \in BOOLEAN /\ deadline_passed \in BOOLEAN
  BY DEF IInv, Typed
<1>4. Staged'
  <2>1. Staged
    BY DEF IInv
  <2>2. UNCHANGED <<published, checked, config, open, wire, ready>>
    BY <1>1 DEF producer, setup, subscription
  <2> QED BY <1>1, <1>2, <2>1, <2>2 DEF Staged
<1> QED BY <1>1, <1>2, <1>3, <1>4, AsideStep DEF Phases

\* The deadline drops the future of next() and ends the loop.
LEMMA TimeoutElapsesStep ==
    ASSUME IInv, TimeoutElapses PROVE IInv'
<1>1. /\ Stream!DropNext /\ Exit("Completed")
      /\ UNCHANGED <<setup, deadline_passed, counts, producer, live_from>>
  BY DEF TimeoutElapses
<1>2. /\ awaiting' = FALSE
      /\ UNCHANGED <<canonical, epoch, structural_sequence, failed, returned,
                     resolved, unresolved>>
  BY <1>1 DEF Stream!DropNext, Stream!validator
<1>3. failed \in BOOLEAN /\ returned \in {"Ok"} \cup Outcomes
  BY DEF IInv, Typed
<1> DEFINE result == "Completed"
<1>4. result \in Harmless /\ Exit(result)
  BY <1>1, EarlyErrorsAreHarmless
<1> HIDE DEF result
<1> QED BY <1>1, <1>2, <1>3, <1>4, ExitStep

\* Arguments that rule() accepts are keys.
LEMMA AcceptedAccounts ==
    ASSUME NEW list \in Filter!KeyLists, ~Filter!InvalidRule(list, <<>>, <<>>)
    PROVE  list \in Seq(Keys)
<1>1. ~Filter!Contains(list, Malformed)
  BY DEF Filter!InvalidRule, Filter!InvalidKeys
<1>2. PICK m \in 0..MaxList : list \in [1..m -> Keys \cup {Malformed}]
  BY DEF Filter!KeyLists, Filter!SeqOf
<1>3. m \in Nat
  OBVIOUS
<1>4. list \in Seq(Keys \cup {Malformed}) /\ Len(list) = m
  BY <1>2, <1>3, FunctionIsSequence
<1>5. \A i \in 1..m : list[i] \in Keys
  BY <1>1, <1>2, <1>4 DEF Filter!Contains
<1>6. list \in [1..m -> Keys]
  BY <1>2, <1>5
<1> QED BY <1>3, <1>6, FunctionIsSequence

\* The filter of the arguments, which rule() may reject.
LEMMA BuildFilterStep ==
    ASSUME IInv, BuildFilter PROVE IInv'
<1>1. /\ phase = "filter"
      /\ UNCHANGED <<stream, accounts, config, checked, deadline_passed, counts, producer,
                     live_from>>
  BY DEF BuildFilter
<1>2. UNCHANGED <<canonical, epoch, structural_sequence, failed, awaiting, returned,
                  resolved, unresolved, producer_epoch, published>>
  BY <1>1 DEF stream, producer
<1>3. awaiting = FALSE /\ failed \in BOOLEAN /\ returned \in {"Ok"} \cup Outcomes
  BY <1>1 DEF IInv, Typed, Staged
<1>4. CASE accounts # <<>> /\ Filter!InvalidRule(accounts, <<>>, <<>>)
  <2> DEFINE result == "InvalidFilter"
  <2>1. Exit(result) /\ filters' = filters
    BY <1>4 DEF BuildFilter
  <2>2. result \in Harmless
    BY EarlyErrorsAreHarmless
  <2>3. UNCHANGED setup
    BY <1>1, <2>1 DEF setup
  <2> HIDE DEF result
  <2> QED BY <1>1, <1>2, <1>3, <2>1, <2>2, <2>3, ExitStep
<1>5. CASE ~(accounts # <<>> /\ Filter!InvalidRule(accounts, <<>>, <<>>))
  <2> DEFINE rule == [vote |-> Unset, account_include |-> accounts,
                      account_exclude |-> <<>>, account_required |-> <<>>]
  <2>1. /\ phase' = "subscribe"
        /\ filters' = IF accounts = <<>> THEN <<>> ELSE <<rule>>
        /\ UNCHANGED <<outcome, open, wire, ready>>
    BY <1>5 DEF BuildFilter
  <2>2. filters' \in Seq(Filter!Rules)
    <3>1. CASE accounts = <<>>
      BY <2>1, <3>1
    <3>2. CASE accounts # <<>>
      <4>1. accounts \in Filter!KeyLists
        BY DEF IInv, Typed
      <4>2. accounts \in Seq(Keys)
        BY <1>5, <3>2, <4>1, AcceptedAccounts
      <4>3. <<>> \in Seq(Keys)
        OBVIOUS
      <4>4. rule \in Filter!Rules
        BY <4>2, <4>3 DEF Filter!Rules
      <4> HIDE DEF rule
      <4>5. <<rule>> \in Seq(Filter!Rules)
        BY <4>4
      <4> QED BY <2>1, <3>2, <4>5
    <3> QED BY <3>1, <3>2
  <2> HIDE DEF rule
  <2>3. /\ published = <<>> /\ resolved = <<>> /\ unresolved = <<>> /\ live_from = 0
        /\ wire = <<>> /\ ready = <<>> /\ epoch = None /\ open = FALSE
    <3>1. published = <<>> /\ live_from \in 0..Len(published) /\ open \in BOOLEAN
      BY <1>1 DEF IInv, Typed, Staged
    <3>2. Len(published) = 0
      BY <3>1
    <3> QED BY <1>1, <3>1, <3>2 DEF IInv, Staged
  <2>4. Expected(TRUE)' = <<>> /\ Expected(FALSE)' = <<>>
    <3>1. /\ Expected(TRUE)' = ExpectedOf(filters', published', live_from', TRUE)
          /\ Expected(FALSE)' = ExpectedOf(filters', published', live_from', FALSE)
      BY DEF Expected, ExpectedOf
    <3>2. <<>> \in Seq(Items) /\ Len(<<>>) = 0
      OBVIOUS
    <3>3. \A rules : ExpectedOf(rules, <<>>, 0, TRUE) = <<>> /\ ExpectedOf(rules, <<>>, 0, FALSE) = <<>>
      BY <3>2, ExpectedOfNothing
    <3> QED BY <1>1, <1>2, <2>3, <3>1, <3>3
  <2>5. UnderWay("canonical")' = <<>> /\ UnderWay("unresolved")' = <<>>
    <3>1. ready' \o wire' = <<>>
      BY <2>1, <2>3
    <3> QED BY <3>1, ThoseOfEmpty DEF UnderWay
  <2>6. Flowing'
    <3>1. Flows(<<>>, <<>>, <<>>, FALSE)
      BY DEF Flows
    <3> QED BY <1>2, <2>1, <2>3, <2>4, <2>5, <3>1 DEF Flowing
  <2>7. Orderly' /\ Recorded'
    BY <2>1, <2>3 DEF Orderly, Attached, Recorded
  <2>8. Counted'
    <3>1. Counted
      BY DEF IInv
    <3> QED BY <1>1, <1>2, <2>3, <3>1, NothingCounted DEF Counted, counts
  <2>9. Typed'
    BY <1>1, <1>2, <2>1, <2>2 DEF IInv, Typed, Phases
  <2>10. Staged'
    BY <1>1, <1>2, <2>1, <2>3 DEF IInv, Staged
  <2>11. NoAlarm'
    BY <1>1, <2>1 DEF IInv, NoAlarm, NoFalseAlarm, LegalMessageFits
  <2> QED BY <2>6, <2>7, <2>8, <2>9, <2>10, <2>11 DEF IInv
<1> QED BY <1>4, <1>5

\* The new stream starts with fresh validators in the filter's mode.
LEMMA SubscribeSucceedsStep ==
    ASSUME IInv, SubscribeSucceeds PROVE IInv'
<1>1. /\ phase = "subscribe" /\ open /\ phase' = "run"
      /\ canonical' = NewValidator(Filter!ModeOf(filters))
      /\ UNCHANGED <<epoch, structural_sequence, failed, awaiting, returned, resolved,
                     unresolved, outcome, setup, deadline_passed, counts, producer,
                     subscription>>
  BY DEF SubscribeSucceeds
<1>2. UNCHANGED <<accounts, filters, config, checked, producer_epoch, published, open, live_from,
                  wire, ready>>
  BY <1>1 DEF setup, producer, subscription
<1>3. resolved = <<>> /\ unresolved = <<>> /\ epoch = None /\ structural_sequence = 0
  BY <1>1 DEF IInv, Staged
<1>4. /\ canonical' \in Validators /\ canonical'.mode = Filter!ModeOf(filters)
      /\ canonical'.producer_epoch = None /\ canonical'.last_sequence = None
  <2>1. Filter!ModeOf(filters) \in Modes
    BY ModeType
  <2> QED BY <1>1, <2>1 DEF NewValidator, Validators
<1>5. Typed'
  BY <1>1, <1>2, <1>4 DEF IInv, Typed, Phases
<1>6. Staged'
  BY <1>1, <1>2 DEF IInv, Staged
<1>7. Orderly' /\ Flowing' /\ Counted'
  <2>1. Attached
    BY <1>1 DEF Attached
  <2> QED BY <1>1, <1>2, <2>1, QuietStep
<1>8. Recorded'
  BY <1>1, <1>2, <1>3, <1>4 DEF Recorded, LastOf
<1>9. NoAlarm'
  BY <1>1, <1>2 DEF IInv, NoAlarm, NoFalseAlarm, LegalMessageFits
<1> QED BY <1>5, <1>6, <1>7, <1>8, <1>9 DEF IInv

\* The program starts with nothing observed and nothing under way.
LEMMA InitEstablishes ==
    ASSUME Init PROVE IInv
<1>1. /\ accounts \in Filter!KeyLists /\ filters = <<>> /\ config \in Settings
      /\ checked \in BOOLEAN /\ phase = "start" /\ outcome = "None" /\ deadline_passed = FALSE
      /\ resolved_count = 0 /\ unresolved_count = 0 /\ reasons = [r \in Reasons |-> 0]
      /\ producer_epoch = 1 /\ published = <<>> /\ open = FALSE /\ live_from = 0
      /\ wire = <<>> /\ ready = <<>>
  BY DEF Init
<1>2. /\ epoch = None /\ structural_sequence = 0 /\ failed = FALSE /\ awaiting = FALSE
      /\ returned = "None" /\ resolved = <<>> /\ unresolved = <<>>
      /\ \E mode \in Modes : canonical = NewValidator(mode)
  BY DEF Init, Stream!Init, Stream!Modes, Modes, Stream!NewValidator, NewValidator
<1>3. canonical \in Validators
  BY <1>2 DEF NewValidator, Validators
<1>4. Typed
  <2>1. 0 \in U64
    BY WidthAssumption DEF U64
  <2>2. Len(<<>>) = 0 /\ 0 \in 0..Len(<<>>) /\ 0 <= MaxPublished
    BY ProgramAssumption
  <2>3. <<>> \in Seq(Transactions) /\ <<>> \in Seq(Filter!Rules) /\ <<>> \in Seq(Items)
        /\ <<>> \in Seq(Messages)
    OBVIOUS
  <2>4. "start" \in Phases /\ "None" \in Outcomes
    BY DEF Phases, Outcomes
  <2>5. 1 \in Epochs
    BY ProgramAssumption
  <2> QED BY <1>1, <1>2, <1>3, <2>1, <2>2, <2>3, <2>4, <2>5 DEF Typed
<1>5. Staged
  BY <1>1, <1>2 DEF Staged
<1>6. Orderly /\ Recorded
  BY <1>1 DEF Orderly, Attached, Recorded
<1>7. Expected(TRUE) = <<>> /\ Expected(FALSE) = <<>>
  <2>1. <<>> \in Seq(Items) /\ Len(<<>>) = 0
    OBVIOUS
  <2>2. /\ ExpectedOf(filters, <<>>, 0, TRUE) = <<>>
        /\ ExpectedOf(filters, <<>>, 0, FALSE) = <<>>
    BY <2>1, ExpectedOfNothing
  <2> QED BY <1>1, <2>2, ExpectedIs
<1>8. UnderWay("canonical") = <<>> /\ UnderWay("unresolved") = <<>>
  <2>1. ready \o wire = <<>>
    BY <1>1
  <2> QED BY <2>1, ThoseOfEmpty DEF UnderWay
<1>9. Flowing
  <2>1. Flows(<<>>, <<>>, <<>>, FALSE)
    BY DEF Flows
  <2> QED BY <1>1, <1>2, <1>7, <1>8, <2>1 DEF Flowing
<1>10. Counted
  <2>1. Cardinality({}) = 0
    BY FS_EmptySet
  <2>2. Len(<<>>) = 0
    OBVIOUS
  <2> QED BY <1>1, <1>2, <2>1, <2>2, NothingCounted DEF Counted
<1>11. NoAlarm
  BY <1>1 DEF NoAlarm, NoFalseAlarm, LegalMessageFits, StreamErrors, RefusedStatus
<1> QED BY <1>4, <1>5, <1>6, <1>9, <1>10, <1>11 DEF IInv

-----------------------------------------------------------------------------
(* What next() hands over.                                                 *)

\* One more of those with a reason, if the next item has it.
LEMMA UnderGrows ==
    ASSUME NEW e \in Seq(Items), NEW n \in Nat, n + 1 <= Len(e), NEW reason
    PROVE  /\ Cardinality(Under(e, n, reason)) \in Nat
           /\ Cardinality(Under(e, n + 1, reason)) =
                  Cardinality(Under(e, n, reason)) + (IF e[n + 1].tx.reason = reason THEN 1 ELSE 0)
<1> DEFINE old == Under(e, n, reason)
           new == Under(e, n + 1, reason)
<1>1. 1..(n + 1) = (1..n) \cup {n + 1} /\ n + 1 \notin 1..n
  OBVIOUS
<1>2. old \subseteq 1..n
  BY DEF Under
<1>3. new = IF e[n + 1].tx.reason = reason THEN old \cup {n + 1} ELSE old
  BY <1>1 DEF Under
<1>4. n + 1 \notin old
  BY <1>1, <1>2
<1> HIDE DEF old, new
<1>5. IsFiniteSet(1..n)
  BY FS_Interval
<1>6. IsFiniteSet(old) /\ Cardinality(old) \in Nat
  BY <1>2, <1>5, FS_Subset, FS_CardinalityType
<1>7. Cardinality(old \cup {n + 1}) = Cardinality(old) + 1
  BY <1>4, <1>6, FS_AddElement
<1>8. Cardinality(new) = Cardinality(old) + (IF e[n + 1].tx.reason = reason THEN 1 ELSE 0)
  BY <1>3, <1>6, <1>7
<1> QED BY <1>6, <1>8 DEF old, new

\* The message at the head of the queue is the next of its kind, ...
LEMMA HeadMoves ==
    ASSUME NEW b \in BOOLEAN, NEW q \in Seq(Messages), q # <<>>, NEW item \in Items,
           Head(q) = Message(item), item.tx.resolved = b, NEW h \in Seq(Transactions),
           NEW e \in Seq(Items), NEW complete \in BOOLEAN,
           Flows(h, Those(q, OfKind(KindOf(b))), e, complete)
    PROVE  /\ Len(h) + 1 \in 1..Len(e)
           /\ item = e[Len(h) + 1]
           /\ Flows(Append(h, IdOf(item)), Those(Tail(q), OfKind(KindOf(b))), e, complete)
<1> DEFINE kind == KindOf(b)
           set == OfKind(kind)
           T == Messages
           message == Message(item)
           u == Those(q, set)
           v == Those(Tail(q), set)
<1>1. message \in set /\ message.item = item
  BY KindsOfMessages
<1>2. u \in Seq(OfKind(kind))
  BY UnderWayType
<1>3. Tail(q) \in Seq(Messages)
  OBVIOUS
<1>4. v \in Seq(OfKind(kind))
  <2> DEFINE rest == Tail(q)
  <2>1. rest \in Seq(Messages)
    BY <1>3
  <2> HIDE DEF rest
  <2>2. Those(rest, OfKind(kind)) \in Seq(OfKind(kind))
    BY <2>1, UnderWayType
  <2> QED BY <2>2 DEF rest
<1>5. q \in Seq(T) /\ Head(q) = message /\ Flows(h, u, e, complete)
  OBVIOUS
<1> HIDE DEF T, message, set
<1>6. u = <<message>> \o v
  BY <1>1, <1>5, ThoseOfHead
<1> HIDE DEF u, v, kind
<1>7. u # <<>> /\ Head(u) = message /\ Tail(u) = v
  <2> DEFINE S == OfKind(kind)
  <2>1. v \in Seq(S) /\ message \in S
    BY <1>1, <1>4 DEF set
  <2> HIDE DEF S
  <2> QED BY <1>6, <2>1
<1>8. /\ Len(h) + 1 \in 1..Len(e)
      /\ Head(u).item = e[Len(h) + 1]
      /\ Flows(Append(h, IdOf(Head(u).item)), Tail(u), e, complete)
  BY <1>2, <1>5, <1>7, FlowMoves
<1>9. /\ item = e[Len(h) + 1]
      /\ Flows(Append(h, IdOf(item)), v, e, complete)
  BY <1>1, <1>7, <1>8
<1> QED BY <1>8, <1>9 DEF v, set, kind

\* ... and what is under way of the other kind stays.
LEMMA OtherKindStays ==
    ASSUME NEW b \in BOOLEAN, NEW q \in Seq(Messages), q # <<>>, NEW item \in Items,
           Head(q) = Message(item), item.tx.resolved # b
    PROVE  Those(q, OfKind(KindOf(b))) = Those(Tail(q), OfKind(KindOf(b)))
<1> DEFINE set == OfKind(KindOf(b))
           T == Messages
<1>1. Message(item) \notin set
  BY KindsOfMessages
<1>2. q \in Seq(T)
  OBVIOUS
<1> HIDE DEF set, T
<1>3. Those(q, set) = Those(Tail(q), set)
  BY <1>1, <1>2, ThoseOfHead
<1> QED BY <1>3 DEF set

\* What is expected next follows what was handed over last.
LEMMA NextFollows ==
    ASSUME NEW b, NEW mode, NEW e \in Seq(Items), NEW h \in Seq(Transactions), h # <<>>,
           Chained(b, mode, e), Len(h) + 1 \in 1..Len(e), h[Len(h)] = IdOf(e[Len(h)])
    PROVE  Follows(b, mode, h[Len(h)].sequence, e[Len(h) + 1].sequence)
<1>1. Len(h) \in Nat /\ Len(h) # 0 /\ Len(e) \in Nat
  OBVIOUS
<1>2. Len(h) \in 1..(Len(e) - 1)
  BY <1>1
<1>3. h[Len(h)].sequence = e[Len(h)].sequence
  BY DEF IdOf
<1> QED BY <1>2, <1>3 DEF Chained

\* An item that is expected next is of the epoch that the validators know.
LEMMA NextIsOfTheEpoch ==
    ASSUME IInv, Attached, NEW b \in BOOLEAN, NEW n \in 1..Len(Expected(b))
    PROVE  /\ epoch \in {None, Expected(b)[n].epoch}
           /\ phase \in {"run", "parked"} =>
                 canonical.producer_epoch \in {None, Expected(b)[n].epoch}
<1>1. PICK m \in Epochs :
         /\ epoch \in {None, m}
         /\ AllOf(Expected(TRUE), m) /\ AllOf(Expected(FALSE), m)
  BY DEF IInv, Orderly, OfOneEpoch
<1>2. AllOf(Expected(b), m)
  BY <1>1
<1>3. Expected(b)[n].epoch = m
  BY <1>2 DEF AllOf
<1>4. phase \in {"run", "parked"} => canonical.producer_epoch \in {None, epoch}
  BY DEF IInv, Recorded
<1> QED BY <1>1, <1>3, <1>4

\* The message that main takes is the head of the queue, and the rest of the
\* queue stays.
LEMMA HeadOfQueue ==
    ASSUME IInv, ready # <<>>
    PROVE  /\ ready \o wire \in Seq(Messages) /\ ready \o wire # <<>>
           /\ Head(ready \o wire) = Head(ready) /\ Head(ready) \in Messages
           /\ Tail(ready \o wire) = Tail(ready) \o wire
           /\ Tail(ready) \in Seq(Messages)
<1> DEFINE T == Messages
<1>1. ready \in Seq(T) /\ wire \in Seq(T)
  BY DEF IInv, Typed
<1> HIDE DEF T
<1>2. /\ ready \o wire \in Seq(T) /\ ready \o wire # <<>>
      /\ Head(ready \o wire) = Head(ready) /\ Head(ready) \in T
      /\ Tail(ready \o wire) = Tail(ready) \o wire
      /\ Tail(ready) \in Seq(T)
  BY <1>1, QueueHead
<1> QED BY <1>2 DEF T

\* A canonical observation is accepted and counted.
LEMMA CanonicalHeadStep ==
    ASSUME IInv, ReceiveHead, NEW item \in Items, Head(ready) = Message(item),
           Message(item).kind = "canonical", ~Refused(config, item.tx.length)
    PROVE  IInv'
<1> DEFINE q == ready \o wire
           e == Expected(TRUE)
           u(b) == Those(q, OfKind(KindOf(b)))
           v(b) == Those(Tail(q), OfKind(KindOf(b)))
           frame == FrameOf(item)
<1>1. /\ phase = "run" /\ ready # <<>>
      /\ Receive(Message(item))
      /\ Count(Message(item).kind,
               IF Message(item).kind = "end" THEN "None" ELSE Message(item).item.tx.reason,
               returned')
      /\ IF returned' = "Ok"
         THEN ready' = Tail(ready) /\ UNCHANGED <<phase, outcome, open, wire>>
         ELSE Exit(returned')
      /\ UNCHANGED <<setup, deadline_passed, producer, live_from>>
  BY DEF ReceiveHead
<1>2. /\ Message(item).kind = "canonical" /\ Message(item).item = item
      /\ item.tx.resolved = TRUE
  BY KindsOfMessages DEF KindOf
<1>3. Stream!ReceiveCanonical(frame)
  BY <1>1, <1>2 DEF Receive
<1>4. /\ q \in Seq(Messages) /\ q # <<>> /\ Head(q) = Message(item)
      /\ Tail(q) = Tail(ready) \o wire /\ Tail(ready) \in Seq(Messages)
  BY <1>1, HeadOfQueue
<1>5. /\ e \in Seq(Items) /\ Len(e) \in Nat
      /\ canonical \in Validators /\ resolved \in Seq(Transactions) /\ open \in BOOLEAN
  BY StateTypes DEF IInv, Typed
<1>6. UnderWay("canonical") = u(TRUE) /\ UnderWay("unresolved") = u(FALSE)
      /\ UnderWay("canonical")' = Those(ready' \o wire', OfKind(KindOf(TRUE)))
      /\ UnderWay("unresolved")' = Those(ready' \o wire', OfKind(KindOf(FALSE)))
  BY UnderWayIs DEF UnderWay, OfKind, KindOf
<1>7. Flows(resolved, u(TRUE), e, open)
  BY <1>6 DEF IInv, Flowing
<1> HIDE DEF q, e, frame
<1>8. /\ Len(resolved) + 1 \in 1..Len(e)
      /\ item = e[Len(resolved) + 1]
      /\ Flows(Append(resolved, IdOf(item)), v(TRUE), e, open)
  <2>1. /\ q \in Seq(Messages) /\ q # <<>> /\ Head(q) = Message(item)
        /\ resolved \in Seq(Transactions) /\ e \in Seq(Items) /\ open \in BOOLEAN
    BY <1>4, <1>5
  <2>2. ASSUME NEW b \in BOOLEAN, item.tx.resolved = b,
               Flows(resolved, Those(q, OfKind(KindOf(b))), e, open)
        PROVE  /\ Len(resolved) + 1 \in 1..Len(e)
               /\ item = e[Len(resolved) + 1]
               /\ Flows(Append(resolved, IdOf(item)), Those(Tail(q), OfKind(KindOf(b))), e,
                        open)
    BY <2>1, <2>2, HeadMoves
  <2> QED BY <1>2, <1>7, <2>2
<1>9. u(FALSE) = v(FALSE)
  <2> DEFINE b == FALSE
  <2>1. b \in BOOLEAN /\ item.tx.resolved # b
    BY <1>2
  <2> HIDE DEF b
  <2>2. Those(q, OfKind(KindOf(b))) = Those(Tail(q), OfKind(KindOf(b)))
    BY <1>4, <2>1, OtherKindStays
  <2> QED BY <2>2 DEF b
<1>10. Attached
  BY <1>1 DEF Attached
<1>11. epoch \in {None, item.epoch} /\ canonical.producer_epoch \in {None, item.epoch}
  <2>1. \A n \in 1..Len(Expected(TRUE)) :
           /\ epoch \in {None, Expected(TRUE)[n].epoch}
           /\ canonical.producer_epoch \in {None, Expected(TRUE)[n].epoch}
    BY <1>1, <1>10, NextIsOfTheEpoch
  <2> QED BY <1>8, <2>1 DEF e
<1>12. /\ canonical.mode = Filter!ModeOf(filters)
       /\ canonical.last_sequence = LastOf(resolved, None)
       /\ structural_sequence = LastOf(unresolved, 0)
  BY <1>1 DEF IInv, Recorded
<1>13. canonical.last_sequence # None =>
           Follows(TRUE, canonical.mode, canonical.last_sequence, item.sequence)
  <2> SUFFICES ASSUME resolved # <<>>
               PROVE  Follows(TRUE, canonical.mode, resolved[Len(resolved)].sequence,
                              item.sequence)
    BY <1>12 DEF LastOf
  <2>1. Chained(TRUE, canonical.mode, e)
    BY <1>10, <1>12 DEF IInv, Orderly, Sequenced, e
  <2>2. resolved[Len(resolved)] = IdOf(e[Len(resolved)])
    <3>1. Len(resolved) \in 1..Len(resolved)
      BY <1>5
    <3>2. \A i \in 1..Len(resolved) : resolved[i] = IdOf(e[i])
      BY <1>7 DEF Flows
    <3> QED BY <3>1, <3>2
  <2> QED BY <1>5, <1>8, <2>1, <2>2, NextFollows
<1>14. /\ ValidateError(canonical, frame) = "Ok"
       /\ ValidateResolved(canonical, frame) \in Validators
       /\ ValidateResolved(canonical, frame).mode = canonical.mode
       /\ ValidateResolved(canonical, frame).producer_epoch = item.epoch
       /\ ValidateResolved(canonical, frame).last_sequence = item.sequence
  BY <1>5, <1>11, <1>13, FollowerIsAccepted DEF frame
<1>15. frame \in Frames /\ frame.producer_epoch = item.epoch
       /\ TransactionOf(frame) = IdOf(item)
  BY FrameOfItem DEF frame
<1>16. /\ awaiting' = FALSE /\ failed' = FALSE /\ returned' = "Ok"
       /\ canonical' = ValidateResolved(canonical, frame)
       /\ epoch' = item.epoch
       /\ resolved' = Append(resolved, IdOf(item))
       /\ UNCHANGED <<structural_sequence, unresolved>>
  BY <1>3, <1>11, <1>14, <1>15, CanonicalIsHandedOver
<1>17. /\ ready' = Tail(ready)
       /\ UNCHANGED <<phase, outcome, open, wire, accounts, filters, config, checked,
                      producer_epoch, published, deadline_passed, live_from>>
  BY <1>1, <1>16 DEF setup, producer
<1>18. resolved_count' = resolved_count + 1 /\ UNCHANGED <<unresolved_count, reasons>>
  BY <1>1, <1>2, <1>16 DEF Count
<1>19. Expected(TRUE)' = e /\ Expected(FALSE)' = Expected(FALSE)
  BY <1>17, ExpectedStays DEF e
<1>20. IdOf(item) \in Transactions /\ item.epoch \in Epochs
  BY DEF IdOf, Items, Transactions
<1>21. /\ resolved' \in Seq(Transactions) /\ Len(resolved') = Len(resolved) + 1
       /\ resolved' # <<>> /\ resolved'[Len(resolved')].sequence = item.sequence
  <2> DEFINE x == IdOf(item)
  <2>1. x \in Transactions /\ x.sequence = item.sequence
    BY <1>20 DEF IdOf
  <2>2. resolved' = Append(resolved, x)
    BY <1>16
  <2> HIDE DEF x
  <2> QED BY <1>5, <2>1, <2>2
<1>22. Typed'
  <2>1. Typed /\ epoch' \in Epochs \cup {None} /\ returned' \in {"Ok"} \cup Outcomes
        /\ canonical' \in Validators /\ awaiting' \in BOOLEAN /\ failed' \in BOOLEAN
    BY <1>14, <1>16, <1>20 DEF IInv
  <2> QED BY <1>4, <1>16, <1>17, <1>21, <2>1 DEF Typed
<1>23. Staged'
  <2>1. Staged
    BY DEF IInv
  <2> QED BY <1>1, <1>16, <1>17, <2>1 DEF Staged
<1>24. Orderly'
  <2>1. Sequenced(TRUE) /\ Sequenced(FALSE) /\ OfOneEpoch
    BY <1>10 DEF IInv, Orderly
  <2>2. Sequenced(TRUE)' /\ Sequenced(FALSE)'
    BY <1>17, <1>19, <2>1 DEF Sequenced, e
  <2>3. OfOneEpoch'
    <3>1. PICK m \in Epochs :
             /\ open => producer_epoch = m
             /\ AllOf(e, m) /\ AllOf(Expected(FALSE), m)
      BY <2>1 DEF OfOneEpoch, e
    <3>2. item.epoch = m
      BY <1>8, <3>1 DEF AllOf
    <3> QED BY <1>16, <1>17, <1>19, <3>1, <3>2 DEF OfOneEpoch
  <2> QED BY <2>2, <2>3 DEF Orderly
<1>25. ready' \o wire' = Tail(q)
  BY <1>4, <1>17
<1>26. Flowing'
  <2>1. Flows(unresolved, v(FALSE), Expected(FALSE), open)
    BY <1>6, <1>9 DEF IInv, Flowing
  <2>2. UnderWay("canonical")' = v(TRUE) /\ UnderWay("unresolved")' = v(FALSE)
    BY <1>6, <1>25
  <2> HIDE DEF u, v
  <2> QED BY <1>8, <1>16, <1>17, <1>19, <2>1, <2>2 DEF Flowing
<1>27. Recorded'
  <2>1. filters' = filters
    BY <1>17
  <2> QED BY <1>12, <1>14, <1>16, <1>21, <2>1 DEF Recorded, LastOf
<1>28. Counted'
  <2>1. Counted
    BY DEF IInv
  <2>2. resolved_count' = Len(resolved')
    BY <1>18, <1>21, <2>1 DEF Counted
  <2> QED BY <1>16, <1>18, <1>19, <2>1, <2>2 DEF Counted
<1>29. NoAlarm'
  BY <1>17 DEF IInv, NoAlarm, NoFalseAlarm, LegalMessageFits
<1> QED BY <1>22, <1>23, <1>24, <1>26, <1>27, <1>28, <1>29 DEF IInv

\* An unresolved observation likewise, under its reason.
LEMMA UnresolvedHeadStep ==
    ASSUME IInv, ReceiveHead, NEW item \in Items, Head(ready) = Message(item),
           Message(item).kind = "unresolved", ~Refused(config, item.tx.length)
    PROVE  IInv'
<1> DEFINE q == ready \o wire
           e == Expected(FALSE)
           u(b) == Those(q, OfKind(KindOf(b)))
           v(b) == Those(Tail(q), OfKind(KindOf(b)))
           n == Len(unresolved)
<1>1. /\ phase = "run" /\ ready # <<>>
      /\ Receive(Message(item))
      /\ Count(Message(item).kind,
               IF Message(item).kind = "end" THEN "None" ELSE Message(item).item.tx.reason,
               returned')
      /\ IF returned' = "Ok"
         THEN ready' = Tail(ready) /\ UNCHANGED <<phase, outcome, open, wire>>
         ELSE Exit(returned')
      /\ UNCHANGED <<setup, deadline_passed, producer, live_from>>
  BY DEF ReceiveHead
<1>2. /\ Message(item).kind = "unresolved" /\ Message(item).item = item
      /\ item.tx.resolved = FALSE
  BY KindsOfMessages DEF KindOf
<1>3. Stream!ReceiveUnresolved(RawOf(item))
  BY <1>1, <1>2 DEF Receive
<1>4. /\ q \in Seq(Messages) /\ q # <<>> /\ Head(q) = Message(item)
      /\ Tail(q) = Tail(ready) \o wire /\ Tail(ready) \in Seq(Messages)
  BY <1>1, HeadOfQueue
<1>5. /\ e \in Seq(Items) /\ Len(e) \in Nat
      /\ unresolved \in Seq(Transactions) /\ open \in BOOLEAN /\ n \in Nat
      /\ structural_sequence \in Nat
  <2>1. structural_sequence \in U64
    BY DEF IInv, Typed
  <2>2. structural_sequence \in Nat
    BY <2>1, WidthAssumption DEF U64
  <2>3. unresolved \in Seq(Transactions) /\ open \in BOOLEAN
    BY DEF IInv, Typed
  <2>4. n \in Nat
    BY <2>3
  <2>5. e \in Seq(Items) /\ Len(e) \in Nat
    <3> DEFINE b == FALSE
    <3>1. b \in BOOLEAN
      OBVIOUS
    <3> HIDE DEF b
    <3>2. Expected(b) \in Seq(Items) /\ Len(Expected(b)) \in Nat
      BY <3>1, StateTypes DEF IInv
    <3> QED BY <3>2 DEF b
  <2> QED BY <2>2, <2>3, <2>4, <2>5
<1>6. UnderWay("canonical") = u(TRUE) /\ UnderWay("unresolved") = u(FALSE)
      /\ UnderWay("canonical")' = Those(ready' \o wire', OfKind(KindOf(TRUE)))
      /\ UnderWay("unresolved")' = Those(ready' \o wire', OfKind(KindOf(FALSE)))
  BY UnderWayIs DEF UnderWay, OfKind, KindOf
<1>7. Flows(unresolved, u(FALSE), e, open)
  BY <1>6 DEF IInv, Flowing
<1> HIDE DEF q, e
<1>8. /\ n + 1 \in 1..Len(e)
      /\ item = e[n + 1]
      /\ Flows(Append(unresolved, IdOf(item)), v(FALSE), e, open)
  <2> DEFINE b == FALSE
  <2>1. /\ b \in BOOLEAN /\ item.tx.resolved = b
        /\ Flows(unresolved, Those(q, OfKind(KindOf(b))), e, open)
    BY <1>2, <1>7
  <2> HIDE DEF b
  <2>2. /\ Len(unresolved) + 1 \in 1..Len(e)
        /\ item = e[Len(unresolved) + 1]
        /\ Flows(Append(unresolved, IdOf(item)), Those(Tail(q), OfKind(KindOf(b))), e, open)
    BY <1>4, <1>5, <2>1, HeadMoves
  <2> QED BY <2>2 DEF b
<1>9. u(TRUE) = v(TRUE)
  <2> DEFINE b == TRUE
  <2>1. b \in BOOLEAN /\ item.tx.resolved # b
    BY <1>2
  <2> HIDE DEF b
  <2>2. Those(q, OfKind(KindOf(b))) = Those(Tail(q), OfKind(KindOf(b)))
    BY <1>4, <2>1, OtherKindStays
  <2> QED BY <2>2 DEF b
<1>10. Attached
  BY <1>1 DEF Attached
<1>11. epoch \in {None, item.epoch} /\ canonical.producer_epoch \in {None, item.epoch}
  <2> DEFINE b == FALSE
  <2>1. b \in BOOLEAN
    OBVIOUS
  <2> HIDE DEF b
  <2>2. \A i \in 1..Len(Expected(b)) :
           /\ epoch \in {None, Expected(b)[i].epoch}
           /\ canonical.producer_epoch \in {None, Expected(b)[i].epoch}
    BY <1>1, <1>10, <2>1, NextIsOfTheEpoch
  <2> QED BY <1>8, <2>2 DEF e, b
<1>12. /\ canonical.mode = Filter!ModeOf(filters)
       /\ canonical.producer_epoch \in {None, epoch}
       /\ canonical.last_sequence = LastOf(resolved, None)
       /\ structural_sequence = LastOf(unresolved, 0)
  BY <1>1 DEF IInv, Recorded
<1>13. item.sequence > structural_sequence
  <2>1. item.sequence \in Nat /\ item.sequence > 0
    BY WidthAssumption DEF Items
  <2>2. CASE unresolved = <<>>
    BY <1>12, <2>1, <2>2 DEF LastOf
  <2>3. CASE unresolved # <<>>
    <3> DEFINE mode == Filter!ModeOf(filters)
               b == FALSE
    <3>1. Chained(b, mode, e)
      BY <1>10 DEF IInv, Orderly, Sequenced, e
    <3>2. unresolved[n] = IdOf(e[n])
      <4>1. n \in 1..n
        BY <1>5, <2>3
      <4>2. \A i \in 1..n : unresolved[i] = IdOf(e[i])
        BY <1>7 DEF Flows
      <4> QED BY <4>1, <4>2
    <3> HIDE DEF mode, b
    <3>3. Follows(b, mode, unresolved[n].sequence, e[n + 1].sequence)
      BY <1>5, <1>8, <2>3, <3>1, <3>2, NextFollows
    <3> QED BY <1>8, <1>12, <2>3, <3>3 DEF Follows, LastOf
  <2> QED BY <2>2, <2>3
<1>14. /\ awaiting' = FALSE /\ failed' = FALSE /\ returned' = "Ok"
       /\ structural_sequence' = item.sequence
       /\ epoch' = item.epoch
       /\ unresolved' = Append(unresolved, IdOf(item))
       /\ UNCHANGED <<canonical, resolved>>
  BY <1>3, <1>5, <1>11, <1>13, UnresolvedIsHandedOver
<1>15. /\ ready' = Tail(ready)
       /\ UNCHANGED <<phase, outcome, open, wire, accounts, filters, config, checked,
                      producer_epoch, published, deadline_passed, live_from>>
  BY <1>1, <1>14 DEF setup, producer
<1>16. /\ unresolved_count' = unresolved_count + 1
       /\ reasons' = [reasons EXCEPT ![item.tx.reason] = @ + 1]
       /\ UNCHANGED resolved_count
  BY <1>1, <1>2, <1>14 DEF Count
<1>17. Expected(TRUE)' = Expected(TRUE) /\ Expected(FALSE)' = e
  BY <1>15, ExpectedStays DEF e
<1>18. IdOf(item) \in Transactions /\ item.epoch \in Epochs /\ item.sequence \in U64
  <2>1. item.sequence \in U64
    BY WidthAssumption DEF Items, U64
  <2> QED BY <2>1 DEF IdOf, Items, Transactions
<1>19. /\ unresolved' \in Seq(Transactions) /\ Len(unresolved') = n + 1
       /\ unresolved' # <<>> /\ unresolved'[Len(unresolved')].sequence = item.sequence
  <2> DEFINE x == IdOf(item)
  <2>1. x \in Transactions /\ x.sequence = item.sequence
    BY <1>18 DEF IdOf
  <2>2. unresolved' = Append(unresolved, x)
    BY <1>14
  <2> HIDE DEF x
  <2> QED BY <1>5, <2>1, <2>2
<1>20. Typed'
  <2>1. Typed /\ epoch' \in Epochs \cup {None} /\ returned' \in {"Ok"} \cup Outcomes
        /\ structural_sequence' \in U64 /\ awaiting' \in BOOLEAN /\ failed' \in BOOLEAN
    BY <1>14, <1>18 DEF IInv
  <2> QED BY <1>4, <1>14, <1>15, <1>19, <2>1 DEF Typed
<1>21. Staged'
  <2>1. Staged
    BY DEF IInv
  <2> QED BY <1>1, <1>14, <1>15, <2>1 DEF Staged
<1>22. Orderly'
  <2>1. Sequenced(TRUE) /\ Sequenced(FALSE) /\ OfOneEpoch
    BY <1>10 DEF IInv, Orderly
  <2>2. Sequenced(TRUE)' /\ Sequenced(FALSE)'
    BY <1>15, <1>17, <2>1 DEF Sequenced, e
  <2>3. OfOneEpoch'
    <3>1. PICK m \in Epochs :
             /\ open => producer_epoch = m
             /\ AllOf(Expected(TRUE), m) /\ AllOf(e, m)
      BY <2>1 DEF OfOneEpoch, e
    <3>2. item.epoch = m
      BY <1>8, <3>1 DEF AllOf
    <3> QED BY <1>14, <1>15, <1>17, <3>1, <3>2 DEF OfOneEpoch
  <2> QED BY <2>2, <2>3 DEF Orderly
<1>23. ready' \o wire' = Tail(q)
  BY <1>4, <1>15
<1>24. Flowing'
  <2>1. Flows(resolved, v(TRUE), Expected(TRUE), open)
    BY <1>6, <1>9 DEF IInv, Flowing
  <2>2. UnderWay("canonical")' = v(TRUE) /\ UnderWay("unresolved")' = v(FALSE)
    BY <1>6, <1>23
  <2> HIDE DEF u, v
  <2> QED BY <1>8, <1>14, <1>15, <1>17, <2>1, <2>2 DEF Flowing
<1>25. Recorded'
  <2>1. filters' = filters
    BY <1>15
  <2>2. canonical'.producer_epoch \in {None, epoch'}
    BY <1>11, <1>14
  <2> QED BY <1>12, <1>14, <1>19, <2>1, <2>2 DEF Recorded, LastOf
<1>26. Counted'
  <2>1. Counted
    BY DEF IInv
  <2>2. unresolved_count' = Len(unresolved')
    BY <1>16, <1>19, <2>1 DEF Counted
  <2>3. /\ reasons \in [Reasons -> Nat]
        /\ \A reason \in Reasons : reasons[reason] = Cardinality(Under(e, n, reason))
    BY <2>1 DEF Counted, e
  <2>4. item.tx.reason \in Reasons
    BY DEF Items, Reasons
  <2>5. n + 1 <= Len(e)
    BY <1>5, <1>8
  <2> HIDE DEF n
  <2>6. \A reason \in Reasons :
           reasons'[reason] = reasons[reason] + (IF item.tx.reason = reason THEN 1 ELSE 0)
    BY <1>16, <2>3
  <2>7. reasons' \in [Reasons -> Nat]
    BY <1>16, <2>3, <2>4
  <2>8. ASSUME NEW reason \in Reasons
        PROVE  reasons'[reason] = Cardinality(Under(e, n + 1, reason))
    <3>1. Cardinality(Under(e, n + 1, reason)) =
              Cardinality(Under(e, n, reason)) + (IF e[n + 1].tx.reason = reason THEN 1 ELSE 0)
      BY <1>5, <2>5, UnderGrows
    <3> QED BY <1>8, <2>3, <2>6, <3>1
  <2> QED BY <1>14, <1>16, <1>17, <1>19, <2>1, <2>2, <2>7, <2>8 DEF Counted
<1>27. NoAlarm'
  BY <1>15 DEF IInv, NoAlarm, NoFalseAlarm, LegalMessageFits
<1> QED BY <1>20, <1>21, <1>22, <1>24, <1>25, <1>26, <1>27 DEF IInv

\* main takes a message, whatever it is.
LEMMA ReceiveHeadStep ==
    ASSUME IInv, ReceiveHead PROVE IInv'
<1> DEFINE message == Head(ready)
<1>1. /\ phase = "run" /\ ready # <<>>
      /\ Receive(message)
      /\ Count(message.kind, IF message.kind = "end" THEN "None" ELSE message.item.tx.reason,
               returned')
      /\ IF returned' = "Ok"
         THEN ready' = Tail(ready) /\ UNCHANGED <<phase, outcome, open, wire>>
         ELSE Exit(returned')
      /\ UNCHANGED <<setup, deadline_passed, producer, live_from>>
  BY DEF ReceiveHead
<1>2. message \in Messages
  BY <1>1, HeadOfQueue
<1> HIDE DEF message
<1>3. ASSUME NEW end, Stream!ReceiveEnd(end), end # "Ok",
             end \in Harmless \/ (end = RefusedStatus /\ Undersized)
      PROVE  IInv'
  <2>1. /\ awaiting' = FALSE /\ failed' = TRUE /\ returned' = end
        /\ UNCHANGED <<canonical, epoch, structural_sequence, resolved, unresolved>>
    BY <1>3 DEF Stream!ReceiveEnd, Stream!validator
  <2>2. UNCHANGED counts /\ Exit(end)
    BY <1>1, <1>3, <2>1 DEF Count
  <2>3. end \in Outcomes
    BY <1>3 DEF Harmless, Outcomes
  <2> QED BY <1>1, <1>3, <2>1, <2>2, <2>3, ExitStep
<1>4. CASE \E end \in Stream!Ends : message = End(end)
  <2>1. PICK end \in Stream!Ends : message = End(end)
    BY <1>4
  <2>2. message.kind = "end" /\ message.end = end
    BY <2>1, KindsOfMessages
  <2>3. Stream!ReceiveEnd(end)
    BY <1>1, <2>2 DEF Receive
  <2>4. end \in Harmless /\ end # "Ok"
    BY EndsAreHarmless
  <2> QED BY <1>3, <2>3, <2>4
<1>5. CASE message.item \in Items /\ message = Message(message.item)
  <2> DEFINE item == message.item
  <2>1. item \in Items /\ Head(ready) = Message(item) /\ item.tx.resolved \in BOOLEAN
        /\ message.kind = KindOf(item.tx.resolved)
    BY <1>5, KindsOfMessages DEF message
  <2>2. CASE Refused(config, item.tx.length)
    <3> DEFINE end == RefusedStatus
    <3>1. message.kind # "end"
      BY <2>1 DEF KindOf
    <3>2. Stream!ReceiveEnd(end)
      BY <1>1, <2>2, <3>1 DEF Receive
    <3>3. end # "Ok"
      BY DEF RefusedStatus
    <3>4. Undersized
      <4>1. config \in Configs /\ item.tx \in Traffic
        <5>1. config \in Settings
          BY DEF IInv, Typed
        <5> QED BY <2>1, <5>1, ProgramAssumption DEF Items
      <4>2. InvalidConfig(config) /\ config.max_message_bytes < CanonicalMessageLength(12288)
        BY <2>2, <4>1, AcceptedCapFits
      <4>3. checked \in BOOLEAN /\ (checked => ~InvalidConfig(config))
        BY <1>1 DEF IInv, Typed, Staged
      <4> QED BY <4>2, <4>3 DEF Undersized
    <3> HIDE DEF end
    <3> QED BY <1>3, <3>2, <3>3, <3>4 DEF end
  <2>3. CASE ~Refused(config, item.tx.length)
    <3> HIDE DEF item
    <3>1. /\ Message(item).kind = KindOf(item.tx.resolved)
          /\ KindOf(item.tx.resolved) \in {"canonical", "unresolved"}
      BY <2>1, KindsOfMessages DEF KindOf
    <3>2. CASE Message(item).kind = "canonical"
      BY <2>1, <2>3, <3>2, CanonicalHeadStep
    <3>3. CASE Message(item).kind = "unresolved"
      BY <2>1, <2>3, <3>3, UnresolvedHeadStep
    <3> QED BY <3>1, <3>2, <3>3
  <2> QED BY <2>2, <2>3
<1> QED BY <1>2, <1>4, <1>5, MessageCases

-----------------------------------------------------------------------------
(* The theorems.                                                           *)

\* The program, its producer, its server and its connection keep the
\* invariant: what was handed over and what is under way is what the filter
\* selects of what the producer observed, in order, and the validators stand
\* where the two domains have come to.
THEOREM Invariance == Spec => []IInv
<1>1. Init => IInv
  BY InitEstablishes
<1>2. IInv /\ [Next]_vars => IInv'
  <2> SUFFICES ASSUME IInv, [Next]_vars PROVE IInv'
    OBVIOUS
  <2>1. ASSUME NEW tx \in Traffic, Publish(tx) PROVE IInv'
    BY <2>1, PublishStep
  <2>2. CASE ServerAccepts
    BY <2>2, ServerAcceptsStep
  <2>3. ASSUME NEW end \in Stream!Ends, NEW kept \in 0..Len(wire), SubscriptionEnds(end, kept)
        PROVE  IInv'
    BY <2>3, SubscriptionEndsStep
  <2>4. CASE ProducerRestarts
    BY <2>4, ProducerRestartsStep
  <2>5. CASE ConnectionReads
    BY <2>5, ConnectionReadsStep
  <2>6. CASE DeadlinePasses \/ Park \/ Wake
    BY <2>6, WaitingStep
  <2>7. CASE ReadArguments
    BY <2>7, ReadArgumentsStep
  <2>8. ASSUME NEW endpoint \in Endpoints, Connect(endpoint) PROVE IInv'
    BY <2>8, ConnectStep
  <2>9. CASE BuildFilter
    BY <2>9, BuildFilterStep
  <2>10. CASE SubscribeSucceeds
    BY <2>10, SubscribeSucceedsStep
  <2>11. ASSUME NEW error \in {"SubscribeTimeout"} \cup Codes, SubscribeFails(error)
         PROVE  IInv'
    BY <2>11, SubscribeFailsStep
  <2>12. CASE CallNext
    BY <2>12, CallNextStep
  <2>13. CASE ReceiveHead
    BY <2>13, ReceiveHeadStep
  <2>14. CASE TimeoutElapses
    BY <2>14, TimeoutElapsesStep
  <2>15. CASE UNCHANGED vars
    <3>1. UNCHANGED <<canonical, epoch, structural_sequence, failed, awaiting, returned,
                      resolved, unresolved, phase, outcome, accounts, filters, config, checked,
                      deadline_passed, counts, setup, producer, subscription, published, open,
                      ready, wire>>
      BY <2>15 DEF vars, stream, setup, producer, subscription
    <3>2. Staged'
      BY <3>1 DEF IInv, Staged
    <3>3. phase' \in Phases /\ failed' \in BOOLEAN /\ awaiting' \in BOOLEAN
          /\ deadline_passed' \in BOOLEAN
      BY <3>1 DEF IInv, Typed
    <3> QED BY <3>1, <3>2, <3>3, AsideStep
  <2> QED BY <2>1, <2>2, <2>3, <2>4, <2>5, <2>6, <2>7, <2>8, <2>9, <2>10, <2>11, <2>12,
             <2>13, <2>14, <2>15 DEF Next, Done
<1> QED BY <1>1, <1>2, PTL DEF Spec

\* The counts are no more than there are transactions.
LEMMA CountsAreBounded ==
    ASSUME IInv
    PROVE  /\ resolved_count \in 0..MaxPublished /\ unresolved_count \in 0..MaxPublished
           /\ reasons \in [Reasons -> 0..MaxPublished]
<1> DEFINE m == Len(resolved)
           n == Len(unresolved)
           a == Len(Expected(TRUE))
           b == Len(Expected(FALSE))
           k == Len(UnderWay("canonical"))
           l == Len(UnderWay("unresolved"))
           p == Len(published)
           same(reason) == Under(Expected(FALSE), n, reason)
<1>1. MaxPublished \in Nat
  BY ProgramAssumption, WidthAssumption
<1>2. p \in Nat /\ p <= MaxPublished
  BY DEF IInv, Typed
<1>3. m \in Nat /\ n \in Nat
  BY DEF IInv, Typed
<1>4. a \in Nat /\ b \in Nat /\ a <= p /\ b <= p
  <2>1. \A kind \in BOOLEAN : Len(Expected(kind)) \in Nat /\ Len(Expected(kind)) <= Len(published)
    BY StateTypes DEF IInv
  <2> QED BY <2>1
<1>5. k \in Nat /\ l \in Nat
  BY StateTypes DEF IInv
<1>6. m + k <= a /\ n + l <= b
  BY DEF IInv, Flowing, Flows
<1>7. /\ resolved_count = m /\ unresolved_count = n /\ reasons \in [Reasons -> Nat]
      /\ \A reason \in Reasons : reasons[reason] = Cardinality(same(reason))
  BY DEF IInv, Counted
<1>8. \A reason \in Reasons : same(reason) \subseteq 1..n
  BY DEF Under
<1> HIDE DEF m, n, a, b, k, l, p, same
<1>9. m <= MaxPublished /\ n <= MaxPublished
  BY <1>1, <1>2, <1>3, <1>4, <1>5, <1>6
<1>10. m \in 0..MaxPublished /\ n \in 0..MaxPublished
  BY <1>1, <1>3, <1>9
<1>11. IsFiniteSet(1..n) /\ Cardinality(1..n) = n
  <2>1. n \in Int /\ 1 \in Int
    BY <1>3
  <2>2. /\ IsFiniteSet(1..n)
        /\ Cardinality(1..n) = IF 1 > n THEN 0 ELSE n - 1 + 1
    BY <2>1, FS_Interval
  <2>3. (IF 1 > n THEN 0 ELSE n - 1 + 1) = n
    BY <1>3
  <2> QED BY <2>2, <2>3
<1>12. ASSUME NEW reason \in Reasons PROVE reasons[reason] \in 0..MaxPublished
  <2>1. IsFiniteSet(same(reason)) /\ Cardinality(same(reason)) <= Cardinality(1..n)
    BY <1>8, <1>11, FS_Subset
  <2>2. Cardinality(same(reason)) \in Nat
    BY <2>1, FS_CardinalityType
  <2>3. reasons[reason] \in Nat /\ reasons[reason] <= n
    BY <1>7, <1>11, <2>1, <2>2
  <2> QED BY <1>1, <1>3, <1>9, <2>3
<1> QED BY <1>7, <1>10, <1>12

\* Every state of the program and its surroundings has the declared type, and
\* no count exceeds the number of transactions observed.
THEOREM TypeCorrect == Spec => []TypeOK
<1>1. IInv => TypeOK
  BY CountsAreBounded DEF IInv, Typed, Staged, TypeOK
<1> QED BY <1>1, Invariance, PTL

\* Whatever the filter, the traffic and the interleaving of the two kinds, and
\* wherever the connection breaks, a correct producer and server are never
\* reported for corruption or loss (observations.rs, validate(), and the ? of
\* the example's loop).
THEOREM NoFalseAlarms == Spec => []NoFalseAlarm
<1>1. IInv => NoFalseAlarm
  BY DEF IInv, NoAlarm
<1> QED BY <1>1, Invariance, PTL

\* Whatever settings connect() accepts, it leaves room for every message of
\* the contract (lib.rs, TransportConfig::is_valid and the decoding limit).
THEOREM LegalMessagesFit == Spec => []LegalMessageFits
<1>1. IInv => LegalMessageFits
  BY DEF IInv, NoAlarm
<1> QED BY <1>1, Invariance, PTL

\* What the summary counts is, for every filter and every traffic, a prefix of
\* what the producer observed and the filter selects, each observation once
\* and under its own reason (main.rs, the loop and the summary).
THEOREM EachCountedOnce == Spec => []EachObservedOnce
<1>1. ASSUME IInv PROVE EachObservedOnce
  <2> DEFINE c == UnderWay("canonical")
             u == UnderWay("unresolved")
             d == Expected(TRUE)
             e == Expected(FALSE)
  <2>1. /\ c \in Seq(OfKind("canonical")) /\ u \in Seq(OfKind("unresolved"))
        /\ resolved \in Seq(Transactions) /\ unresolved \in Seq(Transactions)
        /\ open \in BOOLEAN
    BY <1>1, StateTypes DEF IInv, Typed
  <2>2. d \in Seq(Items) /\ e \in Seq(Items)
    <3>1. \A b \in BOOLEAN : Expected(b) \in Seq(Items)
      BY <1>1, StateTypes DEF IInv
    <3> QED BY <3>1
  <2>3. Flows(resolved, c, d, open) /\ Flows(unresolved, u, e, open)
    BY <1>1 DEF IInv, Flowing
  <2>4. /\ resolved_count = Len(resolved) /\ unresolved_count = Len(unresolved)
        /\ \A reason \in Reasons :
              reasons[reason] =
                  Cardinality({i \in 1..Len(unresolved) : e[i].tx.reason = reason})
    BY <1>1 DEF IInv, Counted, Under
  <2> HIDE DEF c, u, d, e
  <2>5. /\ IsPrefix(resolved, Ids(d))
        /\ open => resolved \o Ids(ItemsOf(c)) = Ids(d)
    BY <2>1, <2>2, <2>3, FlowIsPrefix
  <2>6. /\ IsPrefix(unresolved, Ids(e))
        /\ open => unresolved \o Ids(ItemsOf(u)) = Ids(e)
    BY <2>1, <2>2, <2>3, FlowIsPrefix
  <2> QED BY <2>4, <2>5, <2>6 DEF EachObservedOnce, c, u, d, e
<1> QED BY <1>1, Invariance, PTL
=============================================================================

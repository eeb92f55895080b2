------------------------- MODULE LiveSessionProofs -------------------------
(***************************************************************************)
(* Proofs about a whole session: the client of LiveSession is the one of   *)
(* ReconnectingStream, so that everything proved there holds here, and     *)
(* together with a correct producer and server it raises no false alarm    *)
(* and hands over an exact prefix of what was published.                   *)
(***************************************************************************)
EXTENDS LiveSession, CanonicalStreamValidatorProofs, FiniteSetTheorems

ClientProofs == INSTANCE ReconnectingStreamProofs
FilterProofs == INSTANCE ResolvedFilterProofs WITH status <- "requested"

-----------------------------------------------------------------------------
(* Identities in order: of what the client has been handed, then of what   *)
(* is under way.                                                           *)

PipelineOf(handed, transit) == handed \o [i \in 1..Len(transit) |-> IdOf(transit[i])]

Begins(s, t) == Len(s) <= Len(t) /\ \A i \in 1..Len(s) : s[i] = t[i]

\* The identity of a published transaction is what a frame delivers.
LEMMA IdentityType == \A item \in Published : IdOf(item) \in Transactions
BY DEF Published, IdOf, Transactions

\* The elements of a pipeline.
LEMMA PipelineElements ==
    ASSUME NEW h \in Seq(Transactions), NEW w \in Seq(Published)
    PROVE  /\ PipelineOf(h, w) \in Seq(Transactions)
           /\ Len(PipelineOf(h, w)) = Len(h) + Len(w)
           /\ \A i \in 1..(Len(h) + Len(w)) :
                 PipelineOf(h, w)[i] =
                     IF i <= Len(h) THEN h[i] ELSE IdOf(w[i - Len(h)])
<1> DEFINE ids == [i \in 1..Len(w) |-> IdOf(w[i])]
<1>1. Len(w) \in Nat /\ Len(h) \in Nat /\ \A i \in 1..Len(w) : w[i] \in Published
  OBVIOUS
<1>2. ids \in [1..Len(w) -> Transactions]
  BY <1>1, IdentityType
<1>3. \A i \in 1..Len(w) : ids[i] = IdOf(w[i])
  OBVIOUS
<1>4. PipelineOf(h, w) = h \o ids
  BY DEF PipelineOf
<1> HIDE DEF ids
<1>5. ids \in Seq(Transactions) /\ Len(ids) = Len(w)
  BY <1>1, <1>2, FunctionIsSequence
<1>6. /\ h \o ids \in Seq(Transactions)
      /\ Len(h \o ids) = Len(h) + Len(ids)
      /\ \A i \in 1..(Len(h) + Len(ids)) :
            (h \o ids)[i] = IF i <= Len(h) THEN h[i] ELSE ids[i - Len(h)]
  BY <1>5, ConcatProperties
<1>7. \A i \in 1..(Len(h) + Len(w)) : ~(i <= Len(h)) => i - Len(h) \in 1..Len(w)
  BY <1>1
<1> QED BY <1>3, <1>4, <1>5, <1>6, <1>7

\* Handing over the head of what is under way leaves the pipeline as it was.
LEMMA PipelineMoves ==
    ASSUME NEW h \in Seq(Transactions), NEW w \in Seq(Published), w # <<>>
    PROVE  PipelineOf(Append(h, IdOf(Head(w))), Tail(w)) = PipelineOf(h, w)
<1> DEFINE g == Append(h, IdOf(Head(w)))
           v == Tail(w)
<1>1. Head(w) \in Published /\ Head(w) = w[1] /\ IdOf(Head(w)) \in Transactions
  <2>1. Head(w) \in Published /\ Head(w) = w[1]
    OBVIOUS
  <2> QED BY <2>1, IdentityType
<1>2. /\ v \in Seq(Published) /\ Len(v) = Len(w) - 1
      /\ \A i \in 1..Len(v) : v[i] = w[i + 1]
  BY HeadTailProperties
<1>3. /\ g \in Seq(Transactions) /\ Len(g) = Len(h) + 1
      /\ \A i \in 1..Len(h) : g[i] = h[i]
      /\ g[Len(h) + 1] = IdOf(w[1])
  BY <1>1
<1>4. Len(h) \in Nat /\ Len(w) \in Nat
  OBVIOUS
<1> HIDE DEF g, v
<1> DEFINE p == PipelineOf(g, v)
           q == PipelineOf(h, w)
<1>5. /\ p \in Seq(Transactions) /\ Len(p) = Len(h) + Len(w)
      /\ \A i \in 1..(Len(h) + Len(w)) :
            p[i] = IF i <= Len(h) + 1 THEN g[i] ELSE IdOf(v[i - (Len(h) + 1)])
  <2>1. Len(g) + Len(v) = Len(h) + Len(w)
    BY <1>2, <1>3, <1>4
  <2>2. /\ p \in Seq(Transactions) /\ Len(p) = Len(g) + Len(v)
        /\ \A i \in 1..(Len(g) + Len(v)) :
              p[i] = IF i <= Len(g) THEN g[i] ELSE IdOf(v[i - Len(g)])
    BY <1>2, <1>3, PipelineElements
  <2> HIDE DEF p
  <2> QED BY <1>3, <2>1, <2>2
<1>6. /\ q \in Seq(Transactions) /\ Len(q) = Len(h) + Len(w)
      /\ \A i \in 1..(Len(h) + Len(w)) :
            q[i] = IF i <= Len(h) THEN h[i] ELSE IdOf(w[i - Len(h)])
  BY PipelineElements
<1> HIDE DEF p, q
<1>7. ASSUME NEW i \in 1..(Len(h) + Len(w)) PROVE p[i] = q[i]
  <2>1. CASE i <= Len(h)
    BY <1>3, <1>4, <1>5, <1>6, <2>1
  <2>2. CASE i = Len(h) + 1
    BY <1>3, <1>4, <1>5, <1>6, <2>2
  <2>3. CASE i > Len(h) + 1
    <3> DEFINE k == i - (Len(h) + 1)
    <3>1. k \in 1..Len(v) /\ k + 1 = i - Len(h)
      BY <1>2, <1>4, <2>3
    <3>2. p[i] = IdOf(v[k]) /\ q[i] = IdOf(w[i - Len(h)])
      BY <1>4, <1>5, <1>6, <2>3
    <3> QED BY <1>2, <3>1, <3>2
  <2> QED BY <1>4, <2>1, <2>2, <2>3
<1>8. p = q
  BY <1>5, <1>6, <1>7, SeqEqual
<1> QED BY <1>8 DEF p, q, g, v

\* A transaction put on the wire is appended to the pipeline.
LEMMA PipelineGrows ==
    ASSUME NEW h \in Seq(Transactions), NEW w \in Seq(Published), NEW item \in Published
    PROVE  PipelineOf(h, Append(w, item)) = Append(PipelineOf(h, w), IdOf(item))
<1> DEFINE v == Append(w, item)
           p == PipelineOf(h, v)
           q == PipelineOf(h, w)
           r == Append(q, IdOf(item))
           n == Len(h) + Len(w)
<1>1. /\ v \in Seq(Published) /\ Len(v) = Len(w) + 1
      /\ \A i \in 1..Len(w) : v[i] = w[i]
      /\ v[Len(w) + 1] = item
  OBVIOUS
<1>2. Len(h) \in Nat /\ Len(w) \in Nat
  OBVIOUS
<1>3. /\ q \in Seq(Transactions) /\ Len(q) = n
      /\ \A i \in 1..n : q[i] = IF i <= Len(h) THEN h[i] ELSE IdOf(w[i - Len(h)])
  BY PipelineElements
<1>4. /\ p \in Seq(Transactions) /\ Len(p) = n + 1
      /\ \A i \in 1..(n + 1) : p[i] = IF i <= Len(h) THEN h[i] ELSE IdOf(v[i - Len(h)])
  <2> HIDE DEF v
  <2>1. Len(h) + Len(v) = n + 1
    BY <1>1, <1>2
  <2>2. /\ p \in Seq(Transactions) /\ Len(p) = Len(h) + Len(v)
        /\ \A i \in 1..(Len(h) + Len(v)) :
              p[i] = IF i <= Len(h) THEN h[i] ELSE IdOf(v[i - Len(h)])
    BY <1>1, PipelineElements
  <2> HIDE DEF p, n
  <2> QED BY <2>1, <2>2
<1>5. IdOf(item) \in Transactions
  BY IdentityType
<1> HIDE DEF v, p, q
<1>6. /\ r \in Seq(Transactions) /\ Len(r) = n + 1
      /\ \A i \in 1..n : r[i] = q[i]
      /\ r[n + 1] = IdOf(item)
  BY <1>3, <1>5
<1> HIDE DEF r
<1>7. ASSUME NEW i \in 1..(n + 1) PROVE p[i] = r[i]
  <2>1. CASE i <= Len(h)
    <3>1. i \in 1..n
      BY <1>2, <2>1
    <3> HIDE DEF n
    <3> QED BY <1>3, <1>4, <1>6, <2>1, <3>1
  <2>2. CASE i > Len(h) /\ i <= n
    <3>1. i - Len(h) \in 1..Len(w) /\ i \in 1..n /\ ~(i <= Len(h))
      BY <1>2, <2>2
    <3>2. p[i] = IdOf(v[i - Len(h)]) /\ r[i] = IdOf(w[i - Len(h)])
      BY <1>3, <1>4, <1>6, <3>1
    <3> QED BY <1>1, <3>1, <3>2
  <2>3. CASE i = n + 1
    <3>1. ~(i <= Len(h)) /\ i - Len(h) = Len(w) + 1
      BY <1>2, <2>3
    <3>2. p[i] = IdOf(v[i - Len(h)])
      BY <1>4, <3>1
    <3> QED BY <1>1, <1>6, <2>3, <3>1, <3>2
  <2> QED BY <1>2, <2>1, <2>2, <2>3
<1>8. p = r
  BY <1>4, <1>6, <1>7, SeqEqual
<1> QED BY <1>8 DEF p, q, r, v

\* What is lost with the connection is lost from the end of the pipeline.
LEMMA PipelineCut ==
    ASSUME NEW h \in Seq(Transactions), NEW w \in Seq(Published), NEW kept \in 0..Len(w)
    PROVE  /\ SubSeq(w, 1, kept) \in Seq(Published)
           /\ Begins(PipelineOf(h, SubSeq(w, 1, kept)), PipelineOf(h, w))
<1> DEFINE v == SubSeq(w, 1, kept)
<1>1. /\ v \in Seq(Published) /\ Len(v) = kept
      /\ \A i \in 1..kept : v[i] = w[i]
  <2>1. kept \in Int /\ 1 \in Int /\ \A i \in 1..kept : w[i] \in Published
    OBVIOUS
  <2>2. /\ v \in Seq(Published)
        /\ Len(v) = IF 1 <= kept THEN kept - 1 + 1 ELSE 0
        /\ \A i \in 1..(kept - 1 + 1) : v[i] = w[1 + i - 1]
    BY <2>1, SubSeqProperties
  <2>3. kept \in Nat /\ kept - 1 + 1 = kept /\ \A i \in 1..kept : 1 + i - 1 = i
    OBVIOUS
  <2> HIDE DEF v
  <2> QED BY <2>2, <2>3
<1>2. Len(h) \in Nat /\ Len(w) \in Nat /\ kept \in Nat /\ kept <= Len(w)
  OBVIOUS
<1> HIDE DEF v
<1>3. /\ Len(PipelineOf(h, w)) = Len(h) + Len(w)
      /\ \A i \in 1..(Len(h) + Len(w)) :
            PipelineOf(h, w)[i] = IF i <= Len(h) THEN h[i] ELSE IdOf(w[i - Len(h)])
  BY PipelineElements
<1>4. /\ Len(PipelineOf(h, v)) = Len(h) + Len(v)
      /\ \A i \in 1..(Len(h) + Len(v)) :
            PipelineOf(h, v)[i] = IF i <= Len(h) THEN h[i] ELSE IdOf(v[i - Len(h)])
  BY <1>1, PipelineElements
<1>5. ASSUME NEW i \in 1..(Len(h) + kept)
      PROVE  PipelineOf(h, v)[i] = PipelineOf(h, w)[i]
  <2>1. i \in 1..(Len(h) + Len(w)) /\ i \in 1..(Len(h) + Len(v))
    BY <1>1, <1>2
  <2>2. CASE i <= Len(h)
    BY <1>3, <1>4, <2>1, <2>2
  <2>3. CASE ~(i <= Len(h))
    <3>1. i - Len(h) \in 1..kept
      BY <1>2, <2>3
    <3> QED BY <1>1, <1>3, <1>4, <2>1, <2>3, <3>1
  <2> QED BY <2>2, <2>3
<1>6. Begins(PipelineOf(h, v), PipelineOf(h, w))
  BY <1>1, <1>2, <1>3, <1>4, <1>5 DEF Begins
<1> QED BY <1>1, <1>6 DEF v

-----------------------------------------------------------------------------
(* What the filter selects of the log of the producer.                     *)

\* One step of the recursion in Selection.
SelectStep(rules, log, from) ==
    [n \in Nat |-> [s \in Seq(Transactions) |->
        IF n + 1 \in (from + 1)..Len(log) /\ Filter!Matches(rules, log[n + 1].tx)
        THEN Append(s, IdOf(log[n + 1])) ELSE s]]

\* Selection is what the recursion has come to at the end of the log.
LEMMA SelectionUnrolls ==
    ASSUME NEW rules, NEW log \in Seq(Published), NEW from \in Nat
    PROVE  \E f : /\ SolvesAll(Seq(Transactions), <<>>, SelectStep(rules, log, from), f)
                  /\ Selection(rules, log, from) = f[Len(log)]
<1> DEFINE S == Seq(Transactions)
           step == SelectStep(rules, log, from)
           Chosen(n) == n \in (from + 1)..Len(log) /\ Filter!Matches(rules, log[n].tx)
           Body(g) == [n \in Nat |-> IF n = 0 THEN <<>>
                                     ELSE IF Chosen(n) THEN Append(g[n - 1], IdOf(log[n]))
                                     ELSE g[n - 1]]
<1>1. step \in Steps(S) /\ <<>> \in S
  <2>1. \A n \in Nat : n + 1 \in (from + 1)..Len(log) => n + 1 \in 1..Len(log)
    OBVIOUS
  <2>2. \A n \in Nat : n + 1 \in (from + 1)..Len(log) => IdOf(log[n + 1]) \in Transactions
    BY <2>1, IdentityType
  <2>3. \A s \in S, tx \in Transactions : Append(s, tx) \in S
    OBVIOUS
  <2> HIDE DEF S
  <2> QED BY <2>2, <2>3 DEF Steps, SelectStep, S
<1>2. PICK f : SolvesAll(S, <<>>, step, f)
  <2> HIDE DEF S, step
  <2> QED BY <1>1, RecursionDefines
<1>3. f \in [Nat -> S] /\ f[0] = <<>>
  BY <1>2 DEF SolvesAll
<1>4. ASSUME NEW n \in Nat
      PROVE  f[n + 1] = IF Chosen(n + 1) THEN Append(f[n], IdOf(log[n + 1])) ELSE f[n]
  <2>1. f[n + 1] = step[n][f[n]] /\ f[n] \in Seq(Transactions)
    BY <1>2 DEF SolvesAll
  <2> HIDE DEF S
  <2> QED BY <2>1 DEF SelectStep
<1> HIDE DEF S, step, Chosen
<1>5. \A n \in Nat : n + 1 \in Nat /\ n + 1 # 0 /\ n + 1 - 1 = n
  OBVIOUS
<1>6. f = Body(f)
  <2>1. \A n \in Nat : n # 0 => n - 1 \in Nat /\ n - 1 + 1 = n
    OBVIOUS
  <2>2. ASSUME NEW n \in Nat, n # 0
        PROVE  f[n] = IF Chosen(n) THEN Append(f[n - 1], IdOf(log[n])) ELSE f[n - 1]
    <3>1. n - 1 \in Nat /\ n - 1 + 1 = n
      BY <2>1, <2>2
    <3>2. f[n - 1 + 1] = IF Chosen(n - 1 + 1) THEN Append(f[n - 1], IdOf(log[n - 1 + 1]))
                         ELSE f[n - 1]
      BY <1>4, <3>1
    <3> QED BY <3>1, <3>2
  <2>3. f = [n \in Nat |-> f[n]]
    BY <1>3
  <2>4. \A n \in Nat : f[n] = Body(f)[n]
    BY <1>3, <2>2
  <2> QED BY <2>3, <2>4
<1> DEFINE G == CHOOSE g : g = Body(g)
<1>7. Selection(rules, log, from) = G[Len(log)]
  BY DEF Selection, Chosen
<1>8. G = Body(G)
  <2> HIDE DEF Body
  <2> QED BY <1>6
<1> DEFINE Same == {n \in Nat : G[n] = f[n]}
<1>9. 0 \in Same
  <2> HIDE DEF G
  <2>1. Body(G)[0] = <<>>
    OBVIOUS
  <2> HIDE DEF Body
  <2> QED BY <1>3, <1>8, <2>1
<1>10. ASSUME NEW n \in Same \cap Nat PROVE n + 1 \in Same
  <2>1. n \in Nat /\ G[n] = f[n]
    OBVIOUS
  <2> HIDE DEF G
  <2>2. Body(G)[n + 1] = IF Chosen(n + 1) THEN Append(G[n], IdOf(log[n + 1])) ELSE G[n]
    BY <1>5, <2>1
  <2> HIDE DEF Body
  <2>3. G[n + 1] = f[n + 1]
    BY <1>4, <1>8, <2>1, <2>2
  <2> QED BY <1>5, <2>1, <2>3
<1>11. Nat \subseteq Same
  <2> HIDE DEF Same
  <2> QED BY <1>9, <1>10, NaturalInduction
<1>12. Len(log) \in Nat
  OBVIOUS
<1> HIDE DEF G
<1>13. Selection(rules, log, from) = f[Len(log)]
  BY <1>7, <1>11, <1>12
<1> QED BY <1>2, <1>13 DEF S, step

\* Nothing is selected from the end of the log on.
LEMMA SelectionEmpty ==
    ASSUME NEW rules, NEW log \in Seq(Published)
    PROVE  Selection(rules, log, Len(log)) = <<>>
<1> DEFINE from == Len(log)
           step == SelectStep(rules, log, from)
<1>1. from \in Nat
  OBVIOUS
<1>2. PICK f : /\ SolvesAll(Seq(Transactions), <<>>, step, f)
               /\ Selection(rules, log, from) = f[from]
  BY <1>1, SelectionUnrolls
<1> HIDE DEF from
<1> DEFINE Empty == {n \in Nat : f[n] = <<>>}
<1>3. 0 \in Empty
  BY <1>2 DEF SolvesAll
<1>4. ASSUME NEW n \in Empty \cap Nat PROVE n + 1 \in Empty
  <2>1. n \in Nat /\ f[n] = <<>> /\ f[n + 1] = step[n][f[n]] /\ <<>> \in Seq(Transactions)
    BY <1>2 DEF SolvesAll
  <2>2. n + 1 \notin (from + 1)..Len(log)
    BY <1>1, <2>1 DEF from
  <2>3. step[n][<<>>] = <<>>
    BY <2>1, <2>2 DEF SelectStep
  <2> HIDE DEF step
  <2> QED BY <2>1, <2>3
<1>5. Nat \subseteq Empty
  <2> HIDE DEF Empty
  <2> QED BY <1>3, <1>4, NaturalInduction
<1> QED BY <1>1, <1>2, <1>5 DEF from

\* What is published later is selected later.
LEMMA SelectionGrows ==
    ASSUME NEW rules, NEW log \in Seq(Published), NEW from \in 0..Len(log),
           NEW item \in Published
    PROVE  /\ Selection(rules, log, from) \in Seq(Transactions)
           /\ Selection(rules, Append(log, item), from) =
                  IF Filter!Matches(rules, item.tx)
                  THEN Append(Selection(rules, log, from), IdOf(item))
                  ELSE Selection(rules, log, from)
<1> DEFINE longer == Append(log, item)
           n == Len(log)
           step == SelectStep(rules, log, from)
           other == SelectStep(rules, longer, from)
<1>1. /\ longer \in Seq(Published) /\ Len(longer) = n + 1 /\ n \in Nat /\ from \in Nat
      /\ \A i \in 1..n : longer[i] = log[i]
      /\ longer[n + 1] = item
  OBVIOUS
<1>2. PICK f : /\ SolvesAll(Seq(Transactions), <<>>, step, f)
               /\ Selection(rules, log, from) = f[n]
  BY <1>1, SelectionUnrolls
<1> HIDE DEF longer
<1>3. PICK g : /\ SolvesAll(Seq(Transactions), <<>>, other, g)
               /\ Selection(rules, longer, from) = g[n + 1]
  <2> HIDE DEF n
  <2>1. PICK g : /\ SolvesAll(Seq(Transactions), <<>>, other, g)
                 /\ Selection(rules, longer, from) = g[Len(longer)]
    BY <1>1, SelectionUnrolls
  <2> QED BY <1>1, <2>1
<1>4. ASSUME NEW i \in 0..(n - 1) PROVE step[i] = other[i]
  <2>1. i \in Nat /\ i + 1 \in 1..n /\ longer[i + 1] = log[i + 1]
    BY <1>1
  <2>2. i + 1 \in (from + 1)..Len(log) <=> i + 1 \in (from + 1)..Len(longer)
    BY <1>1, <2>1
  <2> HIDE DEF n
  <2> QED BY <2>1, <2>2 DEF SelectStep
<1> HIDE DEF step, other
<1>5. f[n] = g[n]
  <2> HIDE DEF n
  <2> QED BY <1>1, <1>2, <1>3, <1>4, RecursionsAgree
<1>6. f[n] \in Seq(Transactions) /\ g[n] \in Seq(Transactions) /\ g[n + 1] = other[n][g[n]]
  BY <1>1, <1>2, <1>3 DEF SolvesAll
<1>7. n + 1 \in (from + 1)..Len(longer)
  BY <1>1
<1>8. g[n + 1] = IF Filter!Matches(rules, item.tx)
                 THEN Append(g[n], IdOf(item)) ELSE g[n]
  <2> HIDE DEF n
  <2>1. other[n][g[n]] = IF Filter!Matches(rules, longer[n + 1].tx)
                         THEN Append(g[n], IdOf(longer[n + 1])) ELSE g[n]
    BY <1>1, <1>6, <1>7 DEF other, SelectStep
  <2> QED BY <1>1, <1>6, <2>1
<1> HIDE DEF n
<1> QED BY <1>2, <1>3, <1>5, <1>6, <1>8 DEF longer

-----------------------------------------------------------------------------
(* The client.  LiveSession and the proofs about ReconnectingStream each   *)
(* instantiate it; the two instances are the same.                         *)

LEMMA SameClient ==
    /\ Client!Init = ClientProofs!Init
    /\ Client!Next = ClientProofs!Next
    /\ Client!vars = ClientProofs!vars
    /\ Client!TypeOK = ClientProofs!TypeOK
<1>1. Client!Init = ClientProofs!Init
  BY DEF Client!Init, ClientProofs!Init, Client!Modes, ClientProofs!Modes,
         Client!NewValidator, ClientProofs!NewValidator
<1>2. Client!vars = ClientProofs!vars
  BY DEF Client!vars, ClientProofs!vars, Client!inner, ClientProofs!inner,
         Client!fields, ClientProofs!fields, Client!future, ClientProofs!future
<1>3. Client!TypeOK = ClientProofs!TypeOK
  BY DEF Client!TypeOK, ClientProofs!TypeOK, Client!Modes, ClientProofs!Modes,
         Client!Attachment!TypeOK, ClientProofs!Attachment!TypeOK,
         Client!Attachment!Validators, ClientProofs!Attachment!Validators,
         Client!Attachment!Modes, ClientProofs!Attachment!Modes,
         Client!Attachment!Ends, ClientProofs!Attachment!Ends,
         Client!Attachment!StreamErrors, ClientProofs!Attachment!StreamErrors,
         Client!Attachment!Transactions, ClientProofs!Attachment!Transactions
<1>4. Client!Next = ClientProofs!Next
  BY DEF Client!Next, ClientProofs!Next,
         Client!NextAfterTerminal, ClientProofs!NextAfterTerminal,
         Client!CallNextAttached, ClientProofs!CallNextAttached,
         Client!CallNextDetached, ClientProofs!CallNextDetached,
         Client!ReceiveTransaction, ClientProofs!ReceiveTransaction,
         Client!ReceiveInvalidFrame, ClientProofs!ReceiveInvalidFrame,
         Client!ReceiveEnd, ClientProofs!ReceiveEnd,
         Client!SleepElapses, ClientProofs!SleepElapses,
         Client!SubscribeSucceeds, ClientProofs!SubscribeSucceeds,
         Client!SubscribeFails, ClientProofs!SubscribeFails,
         Client!DropNext, ClientProofs!DropNext, Client!Pending, ClientProofs!Pending,
         Client!BeginAttempt, ClientProofs!BeginAttempt,
         Client!MustSleep, ClientProofs!MustSleep, Client!delay, ClientProofs!delay,
         Client!saturating_pow, ClientProofs!saturating_pow,
         Client!Min, ClientProofs!Min, Client!LastAttempt, ClientProofs!LastAttempt,
         Client!Finish, ClientProofs!Finish,
         Client!FinishWithError, ClientProofs!FinishWithError,
         Client!HandleError, ClientProofs!HandleError,
         Client!OpenAttachment, ClientProofs!OpenAttachment,
         Client!Retryable, ClientProofs!Retryable, Client!inner, ClientProofs!inner,
         Client!fields, ClientProofs!fields, Client!future, ClientProofs!future,
         Client!vars, ClientProofs!vars, Client!Log!Failure, ClientProofs!Log!Failure,
         Client!Log!Transaction, ClientProofs!Log!Transaction,
         Client!Log!StreamReset, ClientProofs!Log!StreamReset,
         Client!Attachment!CallNext, ClientProofs!Attachment!CallNext,
         Client!Attachment!ReceiveFrame, ClientProofs!Attachment!ReceiveFrame,
         Client!Attachment!ReceiveEnd, ClientProofs!Attachment!ReceiveEnd,
         Client!Attachment!Ends, ClientProofs!Attachment!Ends,
         Client!Attachment!ValidateError, ClientProofs!Attachment!ValidateError,
         Client!Attachment!ValidateResolved, ClientProofs!Attachment!ValidateResolved,
         Client!Attachment!TransactionOf, ClientProofs!Attachment!TransactionOf,
         Client!Attachment!ObserveError, ClientProofs!Attachment!ObserveError,
         Client!Attachment!EpochChanged, ClientProofs!Attachment!EpochChanged,
         Client!Attachment!Exhausted, ClientProofs!Attachment!Exhausted,
         Client!Attachment!Regressed, ClientProofs!Attachment!Regressed,
         Client!Attachment!Gap, ClientProofs!Attachment!Gap,
         Client!Attachment!RequiredFlags, ClientProofs!Attachment!RequiredFlags,
         Client!Frames, ClientProofs!Frames,
         Client!RequiredFlags, ClientProofs!RequiredFlags,
         Client!NewValidator, ClientProofs!NewValidator,
         Client!TransactionOf, ClientProofs!TransactionOf,
         Client!SubscribeFailures, ClientProofs!SubscribeFailures
<1> QED BY <1>1, <1>2, <1>3, <1>4

\* What the proofs about the client say in terms of this module.
LEMMA ClientFacts ==
    ASSUME ClientProofs!IInv
    PROVE  /\ validator \in Validators /\ validator.mode = mode /\ mode \in Modes
           /\ delivered \in Seq(Transactions) /\ attached \in BOOLEAN
           /\ awaiting => attached /\ ~failed
           /\ retry # "none" => ~attached
           /\ delivered = <<>> => /\ validator.producer_epoch = None
                                  /\ validator.last_sequence = None
           /\ delivered # <<>> =>
                 /\ validator.producer_epoch = delivered[Len(delivered)].epoch
                 /\ validator.last_sequence = delivered[Len(delivered)].sequence
<1>1. /\ validator \in Validators /\ validator.mode = mode /\ mode \in Modes
      /\ delivered \in Seq(Transactions) /\ attached \in BOOLEAN
  BY DEF ClientProofs!IInv, ClientProofs!TypeInv, ClientProofs!TypeOK, ClientProofs!Modes, Modes,
         ClientProofs!Attachment!TypeOK, ClientProofs!Attachment!Validators, Validators,
         ClientProofs!Attachment!Modes, ClientProofs!Attachment!Transactions, Transactions
<1>2. (awaiting => attached /\ ~failed) /\ (retry # "none" => ~attached)
  BY DEF ClientProofs!IInv, ClientProofs!Located
<1>3. /\ delivered = <<>> => /\ validator.producer_epoch = None
                             /\ validator.last_sequence = None
      /\ delivered # <<>> =>
            /\ validator.producer_epoch = delivered[Len(delivered)].epoch
            /\ validator.last_sequence = delivered[Len(delivered)].sequence
  BY DEF ClientProofs!IInv, ClientProofs!Attachment!ValidatorRecordsFeed
<1> QED BY <1>1, <1>2, <1>3

-----------------------------------------------------------------------------
(* The producer, its server and the connection, for themselves.            *)

ProducerInv ==
    /\ filters \in Filters
    /\ producer_epoch \in Epochs
    /\ published \in Seq(Published) /\ Len(published) <= MaxPublished
    /\ open \in BOOLEAN
    /\ live_from \in 0..Len(published)
    /\ wire \in Seq(Published)
    /\ ending \in Client!Attachment!Ends

\* The next sequence number is at most one more than what was published.
LEMMA NextSequenceBound ==
    ASSUME ProducerInv
    PROVE  /\ IsFiniteSet({i \in 1..Len(published) : published[i].epoch = producer_epoch})
           /\ NextSequence \in 1..(Len(published) + 1)
<1> DEFINE n == Len(published)
           same == {i \in 1..n : published[i].epoch = producer_epoch}
<1>1. n \in Nat /\ n \in Int /\ 1 \in Int
  BY DEF ProducerInv
<1> HIDE DEF n
<1>2. IsFiniteSet(1..n) /\ Cardinality(1..n) = n
  BY <1>1, FS_Interval
<1>3. same \in SUBSET (1..n)
  OBVIOUS
<1> HIDE DEF same
<1>4. IsFiniteSet(same) /\ Cardinality(same) <= n
  BY <1>2, <1>3, FS_Subset
<1>5. Cardinality(same) \in Nat
  BY <1>4, FS_CardinalityType
<1>6. NextSequence = 1 + Cardinality(same)
  BY DEF NextSequence, same, n
<1> QED BY <1>1, <1>4, <1>5, <1>6 DEF same, n

\* What publishing does: the item is well formed, and numbering goes on.
LEMMA PublishEffect ==
    ASSUME ProducerInv, NEW tx \in Traffic, Publish(tx)
    PROVE  LET item == [epoch |-> producer_epoch, sequence |-> NextSequence, tx |-> tx]
           IN  /\ item \in Published
               /\ published' = Append(published, item)
               /\ published' \in Seq(Published) /\ Len(published') = Len(published) + 1
               /\ Len(published') <= MaxPublished
               /\ NextSequence' = NextSequence + 1
<1> DEFINE item == [epoch |-> producer_epoch, sequence |-> NextSequence, tx |-> tx]
           n == Len(published)
           same == {i \in 1..n : published[i].epoch = producer_epoch}
<1>1. published \in Seq(Published) /\ n \in Nat /\ n < MaxPublished /\ MaxPublished <= MaxU64
  BY SessionAssumption, WidthAssumption DEF ProducerInv, Publish
<1>2. NextSequence \in 1..MaxU64 /\ IsFiniteSet(same) /\ Cardinality(same) \in Nat
  <2>1. NextSequence \in 1..(n + 1) /\ IsFiniteSet(same)
    BY NextSequenceBound
  <2>2. MaxPublished \in Nat /\ MaxU64 \in Nat
    BY SessionAssumption, WidthAssumption
  <2> HIDE DEF n, same
  <2> QED BY <1>1, <2>1, <2>2, FS_CardinalityType
<1>3. item \in Published
  BY <1>2 DEF ProducerInv, Published
<1>4. published' = Append(published, item) /\ producer_epoch' = producer_epoch
  BY DEF Publish
<1> HIDE DEF item
<1>5. /\ published' \in Seq(Published) /\ Len(published') = n + 1
      /\ \A i \in 1..n : published'[i] = published[i]
      /\ published'[n + 1] = item
  BY <1>1, <1>3, <1>4
<1>6. {i \in 1..(n + 1) : published'[i].epoch = producer_epoch} = same \cup {n + 1}
  <2>1. item.epoch = producer_epoch
    BY DEF item
  <2>2. 1..(n + 1) = (1..n) \cup {n + 1}
    BY <1>1
  <2> HIDE DEF n
  <2> QED BY <1>5, <2>1, <2>2
<1>7. n + 1 \notin same
  BY <1>1
<1> HIDE DEF same, n
<1>8. Cardinality(same \cup {n + 1}) = Cardinality(same) + 1
  BY <1>2, <1>7, FS_AddElement
<1>9. NextSequence' = 1 + Cardinality(same \cup {n + 1})
  BY <1>4, <1>5, <1>6 DEF NextSequence
<1>10. NextSequence = 1 + Cardinality(same)
  BY DEF NextSequence, same, n
<1>11. NextSequence' = NextSequence + 1
  BY <1>2, <1>8, <1>9, <1>10
<1>12. n + 1 <= MaxPublished
  BY <1>1, SessionAssumption
<1> QED BY <1>3, <1>4, <1>5, <1>11, <1>12 DEF item, n

\* Every step keeps the types of producer, server and connection.
LEMMA ProducerInvariant == Spec => []ProducerInv
<1>1. Init => ProducerInv
  <2> SUFFICES ASSUME Init PROVE ProducerInv
    OBVIOUS
  <2>1. <<>> \in Seq(Published) /\ Len(<<>>) = 0
    OBVIOUS
  <2>2. "EndOfStream" \in Client!Attachment!Ends
    BY DEF Client!Attachment!Ends
  <2>3. MaxPublished \in Nat /\ 1 \in Epochs /\ 0 \in 0..0
    BY SessionAssumption, WidthAssumption
  <2>4. /\ filters \in Filters /\ producer_epoch = 1 /\ published = <<>>
        /\ open = FALSE /\ live_from = 0 /\ wire = <<>> /\ ending = "EndOfStream"
    BY DEF Init
  <2>5. published \in Seq(Published) /\ Len(published) = 0 /\ wire \in Seq(Published)
    BY <2>1, <2>4
  <2>6. producer_epoch \in Epochs /\ open \in BOOLEAN /\ ending \in Client!Attachment!Ends
    BY <2>2, <2>3, <2>4
  <2>7. Len(published) <= MaxPublished /\ live_from \in 0..Len(published)
    BY <2>3, <2>4, <2>5
  <2> QED BY <2>4, <2>5, <2>6, <2>7 DEF ProducerInv
<1>2. ProducerInv /\ [Next]_vars => ProducerInv'
  <2> SUFFICES ASSUME ProducerInv, [Next]_vars PROVE ProducerInv'
    OBVIOUS
  <2> USE DEF ProducerInv
  <2>1. CASE UNCHANGED vars \/ CallNext \/ ReceiveEnding \/ SleepElapses \/ SubscribeSucceeds
    BY <2>1 DEF vars, producer, subscription, CallNext, ReceiveEnding, SleepElapses,
       SubscribeSucceeds
  <2>2. ASSUME NEW tx \in Traffic, Publish(tx) PROVE ProducerInv'
    <3> DEFINE item == [epoch |-> producer_epoch, sequence |-> NextSequence, tx |-> tx]
    <3>1. /\ item \in Published /\ published' \in Seq(Published)
          /\ Len(published') = Len(published) + 1 /\ Len(published') <= MaxPublished
      BY <2>2, PublishEffect
    <3>2. /\ UNCHANGED <<filters, producer_epoch, open, live_from, ending>>
          /\ wire' = Append(wire, item) \/ wire' = wire
      BY <2>2 DEF Publish
    <3> HIDE DEF item
    <3>3. wire' \in Seq(Published)
      <4>1. wire \in Seq(Published)
        OBVIOUS
      <4>2. item \in Published
        BY <3>1
      <4>3. Append(wire, item) \in Seq(Published)
        BY <4>1, <4>2
      <4> QED BY <3>2, <4>1, <4>3
    <3>4. live_from' \in 0..Len(published')
      BY <3>1, <3>2
    <3> QED BY <3>1, <3>2, <3>3, <3>4
  <2>3. CASE ServerAccepts
    BY <2>3 DEF ServerAccepts, producer
  <2>4. ASSUME NEW end \in Client!Attachment!Ends, NEW kept \in 0..Len(wire),
               SubscriptionEnds(end, kept)
        PROVE  ProducerInv'
    <3>1. SubSeq(wire, 1, kept) \in Seq(Published)
      <4>1. <<>> \in Seq(Transactions)
        OBVIOUS
      <4> QED BY <4>1, PipelineCut
    <3> QED BY <2>4, <3>1 DEF SubscriptionEnds, producer
  <2>5. CASE ProducerRestarts
    <3>1. "Unavailable" \in Client!Attachment!Ends
      BY SessionAssumption DEF Client!Attachment!Ends
    <3> QED BY <2>5, <3>1 DEF ProducerRestarts
  <2>6. CASE ReceiveHead
    BY <2>6 DEF ReceiveHead, producer
  <2>7. CASE SubscribeFails \/ DropNext
    <3>1. <<>> \in Seq(Published)
      OBVIOUS
    <3> QED BY <2>7, <3>1 DEF SubscribeFails, DropNext, Abandon, producer, subscription
  <2> QED BY <2>1, <2>2, <2>3, <2>4, <2>5, <2>6, <2>7 DEF Next
<1> QED BY <1>1, <1>2, PTL DEF Spec

\* The client of a session is the client of ReconnectingStream: no composed
\* step lets it do what it could not do alone.
THEOREM ClientIsReconnectingStream == Spec => Client!Spec
<1>1. Init => Client!Init
  BY DEF Init
<1>2. ProducerInv /\ [Next]_vars => [Client!Next]_(Client!vars)
  <2> SUFFICES ASSUME ProducerInv, [Next]_vars PROVE [Client!Next]_(Client!vars)
    OBVIOUS
  <2>1. CASE UNCHANGED client
    BY <2>1 DEF client, Client!vars, Client!inner, Client!fields, Client!future
  <2>2. CASE CallNext \/ SleepElapses \/ SubscribeSucceeds \/ SubscribeFails \/ DropNext
    BY <2>2 DEF CallNext, SleepElapses, SubscribeSucceeds, SubscribeFails, DropNext, Client!Next
  <2>3. CASE ReceiveHead
    <3>1. Head(wire) \in Published
      BY <2>3 DEF ReceiveHead, ProducerInv
    <3>2. FrameOf(Head(wire)) \in Client!Frames
      BY <3>1 DEF FrameOf, Published, Client!Frames, Client!RequiredFlags, RequiredFlags
    <3> QED BY <2>3, <3>2 DEF ReceiveHead, Client!Next
  <2>4. CASE ReceiveEnding
    BY <2>4 DEF ReceiveEnding, ProducerInv, Client!Next
  <2> QED BY <2>1, <2>2, <2>3, <2>4 DEF Next, vars, Publish, ServerAccepts, SubscriptionEnds,
            ProducerRestarts
<1> QED BY <1>1, <1>2, ProducerInvariant, PTL DEF Spec, Client!Spec

\* What is proved of the client alone holds of it in a session.
LEMMA ClientInvariant == Spec => []ClientProofs!IInv
<1>1. Client!Spec => ClientProofs!Spec
  <2>1. Client!Init => ClientProofs!Init
    BY SameClient
  <2>2. [Client!Next]_(Client!vars) => [ClientProofs!Next]_(ClientProofs!vars)
    BY SameClient DEF Client!vars, ClientProofs!vars, Client!inner, ClientProofs!inner,
       Client!fields, ClientProofs!fields, Client!future, ClientProofs!future
  <2> QED BY <2>1, <2>2, PTL DEF Client!Spec, ClientProofs!Spec
<1>2. ClientProofs!Spec => []ClientProofs!IInv
  BY ClientProofs!Invariance, ClientAssumption, WidthAssumption, EpochAssumption,
     NoneAssumption, PTL
<1> QED BY <1>1, <1>2, ClientIsReconnectingStream, PTL

-----------------------------------------------------------------------------
(* The session.  Whatever the client has been handed and whatever is under *)
(* way form one pipeline; its two ends and its middle are where client,    *)
(* connection and server could disagree.                                   *)

\* later may directly follow earlier, in the mode m.
Follows(m, earlier, later) ==
    /\ later.epoch = earlier.epoch
    /\ later.sequence > earlier.sequence
    /\ m = "MatchAll" => later.sequence = earlier.sequence + 1

Pipeline == PipelineOf(IF attached THEN delivered ELSE <<>>, wire)

\* What the producer publishes next may follow item.
Latest(item) ==
    Follows(mode, item, [epoch |-> producer_epoch, sequence |-> NextSequence])

\* A subscription that the client does not hold is one it is asking for.
Registered == open /\ ~attached => retry = "subscribe"

ModeIsOfFilter == mode = Filter!ModeOf(filters)

\* The pipeline has no gap that the validator would report, neither inside
\* nor, while the subscription stands, at the end where the producer adds.
Continuous ==
    attached \/ open =>
        /\ \A i \in 1..(Len(Pipeline) - 1) : Follows(mode, Pipeline[i], Pipeline[i + 1])
        /\ open /\ Pipeline # <<>> => Latest(Pipeline[Len(Pipeline)])

\* The pipeline holds what the filter selects, up to what a broken
\* connection has lost from its end.
Selective ==
    /\ attached => Begins(Pipeline, Expected)
    /\ open => Pipeline = Expected

SessionInv ==
    /\ Registered
    /\ ModeIsOfFilter
    /\ Continuous
    /\ Selective
    /\ NoFalseAlarm

\* The types of the pipeline and of what is expected in it.
PipelineTyped == Pipeline \in Seq(Transactions) /\ Expected \in Seq(Transactions)

LEMMA PipelineTypes ==
    ASSUME ProducerInv, ClientProofs!IInv
    PROVE  PipelineTyped
<1>1. (IF attached THEN delivered ELSE <<>>) \in Seq(Transactions)
  BY ClientFacts
<1>2. Pipeline \in Seq(Transactions)
  BY <1>1, PipelineElements DEF Pipeline, ProducerInv
<1>3. Expected \in Seq(Transactions)
  <2>1. live_from \in Nat /\ published \in Seq(Published) /\ Len(published) \in Nat
    BY DEF ProducerInv
  <2>2. PICK f : /\ SolvesAll(Seq(Transactions), <<>>,
                              SelectStep(filters, published, live_from), f)
                 /\ Expected = f[Len(published)]
    BY <2>1, SelectionUnrolls DEF Expected
  <2> QED BY <2>1, <2>2 DEF SolvesAll
<1> QED BY <1>2, <1>3 DEF PipelineTyped

\* The same after a step.
LEMMA PipelineTypesAfter == ProducerInv' /\ ClientProofs!IInv' => PipelineTyped'
<1>1. ProducerInv /\ ClientProofs!IInv => PipelineTyped
  BY PipelineTypes
<1> QED BY <1>1, PTL

\* A step that adds nothing to the pipeline, and takes nothing away from it
\* while the subscription stands, keeps it as it should be.
LEMMA PipelineKept ==
    ASSUME ProducerInv, ClientProofs!IInv, ClientProofs!IInv', ProducerInv',
           Continuous, Selective,
           UNCHANGED <<filters, published, live_from, mode>>,
           attached' \/ open' => (attached \/ open) /\ Begins(Pipeline', Pipeline),
           open' => open /\ Pipeline' = Pipeline /\ producer_epoch' = producer_epoch
    PROVE  Continuous' /\ Selective'
<1>1. /\ Pipeline \in Seq(Transactions) /\ Pipeline' \in Seq(Transactions)
      /\ Expected \in Seq(Transactions)
      /\ Len(Pipeline) \in Nat /\ Len(Pipeline') \in Nat
  BY PipelineTypes, PipelineTypesAfter DEF PipelineTyped
<1>2. Expected' = Expected
  BY DEF Expected
<1>3. CASE ~(attached' \/ open')
  BY <1>3 DEF Continuous, Selective
<1>4. CASE attached' \/ open'
  <2>1. (attached \/ open) /\ Begins(Pipeline', Pipeline)
    BY <1>4
  <2>2. ASSUME NEW i \in 1..(Len(Pipeline') - 1)
        PROVE  Follows(mode', Pipeline'[i], Pipeline'[i + 1])
    <3>1. /\ i \in 1..Len(Pipeline') /\ i + 1 \in 1..Len(Pipeline')
          /\ i \in 1..(Len(Pipeline) - 1)
      BY <1>1, <2>1 DEF Begins
    <3>2. Pipeline'[i] = Pipeline[i] /\ Pipeline'[i + 1] = Pipeline[i + 1]
      BY <2>1, <3>1 DEF Begins
    <3>3. Follows(mode, Pipeline[i], Pipeline[i + 1])
      BY <2>1, <3>1 DEF Continuous
    <3> QED BY <3>2, <3>3
  <2>3. ASSUME open', Pipeline' # <<>> PROVE Latest(Pipeline[Len(Pipeline)])'
    <3>1. /\ open /\ Pipeline' = Pipeline
          /\ NextSequence' = NextSequence /\ producer_epoch' = producer_epoch
      BY <2>3 DEF NextSequence
    <3>2. Latest(Pipeline[Len(Pipeline)])
      BY <2>3, <3>1 DEF Continuous
    <3> QED BY <3>1, <3>2 DEF Latest
  <2>4. Continuous'
    BY <2>2, <2>3 DEF Continuous
  <2>5. Begins(Pipeline, Expected)
    BY <1>1, <2>1 DEF Selective, Begins
  <2>6. Begins(Pipeline', Expected)
    <3>1. \A i \in 1..Len(Pipeline') : i \in 1..Len(Pipeline)
      BY <1>1, <2>1 DEF Begins
    <3> QED BY <1>1, <2>1, <2>5, <3>1 DEF Begins
  <2>7. Selective'
    BY <1>2, <2>6 DEF Selective
  <2> QED BY <2>4, <2>7
<1> QED BY <1>3, <1>4

\* In match-all mode the server leaves nothing out.
LEMMA MatchAllSelects ==
    ASSUME ProducerInv, ModeIsOfFilter, mode = "MatchAll", NEW tx \in Traffic
    PROVE  Filter!Matches(filters, tx)
<1>1. /\ Filter!Rules = FilterProofs!Rules
      /\ Filter!ObservedTransactions = FilterProofs!ObservedTransactions
      /\ \A rules : Filter!ModeOf(rules) = FilterProofs!ModeOf(rules)
      /\ \A rules, t : Filter!Matches(rules, t) <=> FilterProofs!Matches(rules, t)
  BY DEF Filter!Rules, FilterProofs!Rules, Filter!ObservedTransactions,
         FilterProofs!ObservedTransactions, Filter!ModeOf, FilterProofs!ModeOf,
         Filter!Unrestricted, FilterProofs!Unrestricted, Filter!Matches, FilterProofs!Matches,
         Filter!Admits, FilterProofs!Admits, Filter!Range, FilterProofs!Range
<1>2. /\ filters \in Seq(FilterProofs!Rules) /\ tx \in FilterProofs!ObservedTransactions
      /\ FilterProofs!ModeOf(filters) = "MatchAll"
  BY <1>1, SessionAssumption DEF ProducerInv, ModeIsOfFilter
<1>3. FilterProofs!Matches(filters, tx)
  BY <1>2, FilterProofs!MatchAllSelectsEverything, SessionAssumption
<1> QED BY <1>1, <1>3

\* Publishing extends the pipeline and what is expected in it alike.
LEMMA PublishKeepsPipeline ==
    ASSUME ProducerInv, ClientProofs!IInv, ModeIsOfFilter, Continuous, Selective,
           NEW tx \in Traffic, Publish(tx)
    PROVE  Continuous' /\ Selective'
<1> DEFINE item == [epoch |-> producer_epoch, sequence |-> NextSequence, tx |-> tx]
           id == [epoch |-> producer_epoch, sequence |-> NextSequence]
           handed == IF attached THEN delivered ELSE <<>>
           matches == Filter!Matches(filters, tx)
           n == Len(Pipeline)
<1>1. /\ item \in Published /\ IdOf(item) = id /\ item.tx = tx
      /\ published' = Append(published, item)
      /\ NextSequence' = NextSequence + 1
      /\ NextSequence \in Nat
  <2>1. NextSequence \in 1..(Len(published) + 1) /\ Len(published) \in Nat
    BY NextSequenceBound DEF ProducerInv
  <2> QED BY <2>1, PublishEffect DEF IdOf
<1>2. /\ UNCHANGED <<delivered, attached, mode, filters, producer_epoch, open, live_from>>
      /\ wire' = IF open /\ matches THEN Append(wire, item) ELSE wire
  BY DEF Publish, client
<1>3. /\ handed \in Seq(Transactions) /\ wire \in Seq(Published)
      /\ Pipeline \in Seq(Transactions) /\ Expected \in Seq(Transactions) /\ n \in Nat
      /\ mode \in Modes
  BY ClientFacts, PipelineTypes DEF ProducerInv, PipelineTyped
<1>4. Pipeline = PipelineOf(handed, wire) /\ Pipeline' = PipelineOf(handed, wire')
  BY <1>2 DEF Pipeline
<1>5. Pipeline' = IF open /\ matches THEN Append(Pipeline, id) ELSE Pipeline
  <2> HIDE DEF item, id, handed, matches
  <2>1. PipelineOf(handed, Append(wire, item)) = Append(PipelineOf(handed, wire), IdOf(item))
    BY <1>1, <1>3, PipelineGrows
  <2> QED BY <1>1, <1>2, <1>4, <2>1
<1>6. Expected' = IF matches THEN Append(Expected, id) ELSE Expected
  <2>1. published \in Seq(Published) /\ live_from \in 0..Len(published)
    BY DEF ProducerInv
  <2> HIDE DEF item, id
  <2>2. Selection(filters, Append(published, item), live_from) =
            IF Filter!Matches(filters, item.tx)
            THEN Append(Selection(filters, published, live_from), IdOf(item))
            ELSE Selection(filters, published, live_from)
    BY <1>1, <2>1, SelectionGrows
  <2> QED BY <1>1, <1>2, <2>2 DEF Expected
<1>7. mode = "MatchAll" => matches
  BY MatchAllSelects
<1>8. id \in Transactions
  BY <1>1, IdentityType
<1> DEFINE next == [epoch |-> producer_epoch', sequence |-> NextSequence']
<1>9. /\ next.epoch = id.epoch /\ next.sequence = id.sequence + 1
      /\ id.epoch = producer_epoch /\ id.sequence = NextSequence
      /\ id.sequence \in Nat /\ next.sequence \in Nat
  BY <1>1, <1>2
<1>10. \A x \in Transactions : x.sequence \in Nat
  BY TransactionNumbers
<1> HIDE DEF item, id, handed, matches, next
<1>11. \A i \in 1..n : Pipeline[i] \in Transactions
  BY <1>3
<1>12. CASE ~open
  <2>1. ~open' /\ Pipeline' = Pipeline
    BY <1>2, <1>5, <1>12
  <2>2. Continuous'
    BY <1>2, <2>1 DEF Continuous
  <2>3. Len(Expected) \in Nat /\ Len(Expected) <= Len(Expected')
        /\ \A i \in 1..Len(Expected) : Expected'[i] = Expected[i]
    BY <1>3, <1>6, <1>8
  <2>4. attached' => Begins(Pipeline', Expected')
    <3> SUFFICES ASSUME attached PROVE Begins(Pipeline, Expected')
      BY <1>2, <2>1
    <3>1. Begins(Pipeline, Expected)
      BY DEF Selective
    <3>2. \A i \in 1..n : i \in 1..Len(Expected)
      BY <1>3, <2>3, <3>1 DEF Begins
    <3> HIDE DEF n
    <3>3. n <= Len(Expected) /\ \A i \in 1..n : Pipeline[i] = Expected[i]
      BY <3>1 DEF Begins, n
    <3>4. Len(Expected') \in Nat /\ n <= Len(Expected')
      <4>1. Expected' \in Seq(Transactions)
        BY <1>3, <1>6, <1>8
      <4> QED BY <1>3, <2>3, <3>3, <4>1
    <3> QED BY <2>3, <3>2, <3>3, <3>4 DEF Begins, n
  <2> QED BY <2>1, <2>2, <2>4 DEF Selective
<1>13. CASE open
  <2>1. Pipeline = Expected
    BY <1>13 DEF Selective
  <2>2. Pipeline' = Expected'
    BY <1>5, <1>6, <1>13, <2>1
  <2>3. Pipeline' \in Seq(Transactions) /\ Len(Pipeline') \in Nat
    BY <1>3, <1>5, <1>8
  <2>4. Selective'
    BY <2>2, <2>3 DEF Selective, Begins
  <2>5. \A i \in 1..(n - 1) : Follows(mode, Pipeline[i], Pipeline[i + 1])
    BY <1>13 DEF Continuous
  <2>6. n # 0 => Follows(mode, Pipeline[n], id)
    <3>1. n # 0 => Pipeline # <<>>
      BY <1>3
    <3> QED BY <1>13, <3>1 DEF Continuous, Latest, id
  <2>7. CASE matches
    <3>1. /\ Len(Pipeline') = n + 1 /\ Pipeline'[n + 1] = id
          /\ \A i \in 1..n : Pipeline'[i] = Pipeline[i]
      BY <1>3, <1>5, <1>8, <1>13, <2>7
    <3>2. ASSUME NEW i \in 1..(Len(Pipeline') - 1)
          PROVE  Follows(mode, Pipeline'[i], Pipeline'[i + 1])
      <4>1. i \in 1..n /\ (i = n \/ (i + 1 \in 1..n /\ i \in 1..(n - 1))) /\ n # 0
        BY <1>3, <3>1
      <4> HIDE DEF n
      <4> QED BY <2>5, <2>6, <3>1, <4>1
    <3>3. Follows(mode, id, next)
      BY <1>9 DEF Follows
    <3>4. Latest(Pipeline[Len(Pipeline)])'
      BY <1>2, <3>1, <3>3 DEF Latest, next
    <3> QED BY <1>2, <2>4, <3>2, <3>4 DEF Continuous
  <2>8. CASE ~matches
    <3>1. Pipeline' = Pipeline /\ mode # "MatchAll"
      BY <1>5, <1>7, <2>8
    <3>2. n # 0 => Follows(mode, Pipeline[n], next)
      <4> SUFFICES ASSUME n # 0 PROVE Follows(mode, Pipeline[n], next)
        OBVIOUS
      <4>1. n \in 1..n
        BY <1>3
      <4>2. Pipeline[n].sequence \in Nat
        BY <1>10, <1>11, <4>1
      <4> HIDE DEF n
      <4> QED BY <1>9, <2>6, <3>1, <4>2 DEF Follows
    <3>3. Pipeline # <<>> => n # 0
      BY <1>3
    <3>4. Pipeline' # <<>> => Latest(Pipeline[Len(Pipeline)])'
      BY <1>2, <3>1, <3>2, <3>3 DEF Latest, next
    <3>5. \A i \in 1..(Len(Pipeline') - 1) : Follows(mode', Pipeline'[i], Pipeline'[i + 1])
      BY <1>2, <2>5, <3>1
    <3> QED BY <2>4, <3>4, <3>5 DEF Continuous
  <2> QED BY <2>7, <2>8
<1> QED BY <1>12, <1>13

-----------------------------------------------------------------------------
(* The validator of the client passes what a correct server sends.         *)

\* The client of a session validates as CanonicalStreamValidator does.
LEMMA SameVerdict ==
    ASSUME NEW v, NEW frame
    PROVE  /\ Client!Attachment!ValidateError(v, frame) = ValidateError(v, frame)
           /\ Client!Attachment!TransactionOf(frame) = TransactionOf(frame)
BY DEF Client!Attachment!ValidateError, ValidateError, Client!Attachment!TransactionOf,
       TransactionOf, Client!Attachment!ObserveError, ObserveError,
       Client!Attachment!EpochChanged, EpochChanged, Client!Attachment!Exhausted, Exhausted,
       Client!Attachment!Regressed, Regressed, Client!Attachment!Gap, Gap,
       Client!Attachment!RequiredFlags, RequiredFlags

\* The next transaction on the wire follows what the validator remembers.
LEMMA HeadIsAccepted ==
    ASSUME ProducerInv, ClientProofs!IInv, Continuous, attached, wire # <<>>
    PROVE  ValidateError(validator, FrameOf(Head(wire))) = "Ok"
<1> DEFINE n == Len(delivered)
           id == IdOf(Head(wire))
           frame == FrameOf(Head(wire))
<1>1. /\ validator \in Validators /\ validator.mode = mode /\ mode \in Modes
      /\ delivered \in Seq(Transactions) /\ n \in Nat
      /\ wire \in Seq(Published) /\ Len(wire) \in Nat /\ Len(wire) > 0
      /\ Head(wire) \in Published /\ Head(wire) = wire[1]
  <2>1. delivered \in Seq(Transactions) /\ wire \in Seq(Published)
    BY ClientFacts DEF ProducerInv
  <2>2. n \in Nat /\ Len(wire) \in Nat /\ Len(wire) > 0
    BY <2>1
  <2>3. Head(wire) \in Published /\ Head(wire) = wire[1]
    BY <2>1
  <2> QED BY <2>1, <2>2, <2>3, ClientFacts
<1>2. id \in Transactions /\ id.epoch \in Nat /\ id.sequence \in 1..MaxU64
  <2>1. id \in Transactions
    BY <1>1, IdentityType
  <2> HIDE DEF id
  <2> QED BY <2>1, TransactionNumbers DEF Transactions
<1>3. /\ frame.parses /\ ~frame.trailing /\ RequiredFlags \subseteq frame.flags
      /\ frame.producer_epoch = id.epoch /\ frame.canonical_sequence = id.sequence
  BY DEF FrameOf, IdOf
<1>4. Pipeline = PipelineOf(delivered, wire)
  BY DEF Pipeline
<1>5. /\ Len(Pipeline) = n + Len(wire)
      /\ \A i \in 1..(n + Len(wire)) :
            Pipeline[i] = IF i <= n THEN delivered[i] ELSE IdOf(wire[i - n])
  BY <1>1, <1>4, PipelineElements
<1> SUFFICES ValidateError(validator, frame) = "Ok"
  OBVIOUS
<1> HIDE DEF frame
<1>6. CASE delivered = <<>>
  <2>1. validator.producer_epoch = None /\ validator.last_sequence = None
    BY <1>6, ClientFacts
  <2> QED BY <1>3, <2>1 DEF ValidateError, ObserveError, EpochChanged
<1>7. CASE delivered # <<>>
  <2> DEFINE last == delivered[n]
  <2>1. n \in 1..n /\ n > 0
    BY <1>1, <1>7
  <2>2. last \in Transactions /\ last.epoch \in Nat /\ last.sequence \in 1..MaxU64
    <3>1. last \in Transactions
      BY <1>1, <2>1
    <3> HIDE DEF last
    <3> QED BY <3>1, TransactionNumbers DEF Transactions
  <2>3. validator.producer_epoch = last.epoch /\ validator.last_sequence = last.sequence
    BY <1>7, ClientFacts
  <2>4. Pipeline[n] = last /\ Pipeline[n + 1] = id
    <3> HIDE DEF n
    <3>1. n \in 1..(n + Len(wire)) /\ n + 1 \in 1..(n + Len(wire))
      BY <1>1, <2>1
    <3>2. n <= n /\ ~(n + 1 <= n) /\ n + 1 - n = 1
      BY <1>1
    <3> QED BY <1>1, <1>5, <3>1, <3>2
  <2>5. Follows(mode, last, id)
    <3> HIDE DEF last, id
    <3>1. n \in 1..(Len(Pipeline) - 1)
      <4> HIDE DEF n
      <4> QED BY <1>1, <1>5, <2>1
    <3>2. Follows(mode, Pipeline[n], Pipeline[n + 1])
      BY <3>1 DEF Continuous
    <3> QED BY <2>4, <3>2
  <2> HIDE DEF last, id, n
  <2>6. MaxU64 \in Nat /\ last.sequence \in Nat /\ id.sequence \in Nat
        /\ last.sequence < MaxU64
    BY <1>2, <2>2, <2>5, WidthAssumption DEF Follows
  <2>7. ~EpochChanged(validator, id.epoch)
    BY <2>3, <2>5 DEF EpochChanged, Follows
  <2>8. ~Exhausted(validator)
    BY <2>3, <2>6 DEF Exhausted
  <2>9. ~Regressed(validator, id.sequence)
    BY <2>3, <2>5, <2>6 DEF Regressed, Follows
  <2>10. ~Gap(validator, id.sequence)
    BY <1>1, <2>3, <2>5 DEF Gap, Follows
  <2> QED BY <1>3, <2>7, <2>8, <2>9, <2>10 DEF ValidateError, ObserveError
<1> QED BY <1>6, <1>7

\* So a transaction that arrives is handed over, and nothing else happens.
LEMMA ArrivalIsHandedOver ==
    ASSUME ProducerInv, ClientProofs!IInv, Continuous, ReceiveHead
    PROVE  /\ attached /\ wire # <<>> /\ returned' = "Ok"
           /\ delivered' = Append(delivered, IdOf(Head(wire)))
           /\ wire' = Tail(wire)
           /\ UNCHANGED <<attached, mode, retry, filters, producer, open, live_from, ending>>
<1> DEFINE frame == FrameOf(Head(wire))
<1>1. wire # <<>> /\ wire' = Tail(wire) /\ UNCHANGED <<filters, producer, open, live_from, ending>>
  BY DEF ReceiveHead
<1>2. awaiting /\ Client!Attachment!ReceiveFrame(frame)
  BY DEF ReceiveHead, Client!ReceiveTransaction, Client!ReceiveInvalidFrame,
         Client!Attachment!ReceiveFrame
<1>3. attached
  BY <1>2, ClientFacts
<1>4. Client!Attachment!ValidateError(validator, frame) = "Ok"
  BY <1>1, <1>3, HeadIsAccepted, SameVerdict
<1>5. TransactionOf(frame) = IdOf(Head(wire))
  BY DEF TransactionOf, FrameOf, IdOf
<1> HIDE DEF frame
<1>6. returned' = "Ok" /\ delivered' = Append(delivered, IdOf(Head(wire)))
  BY <1>2, <1>4, <1>5, SameVerdict DEF Client!Attachment!ReceiveFrame
<1>7. Client!ReceiveTransaction(frame)
  BY <1>6 DEF ReceiveHead, frame, Client!ReceiveInvalidFrame
<1>8. UNCHANGED <<attached, mode, retry>>
  BY <1>7 DEF Client!ReceiveTransaction, Client!fields, Client!future
<1> QED BY <1>1, <1>3, <1>6, <1>8

-----------------------------------------------------------------------------
(* The invariant of the session, action by action.                         *)

LEMMA InitEstablishesSession == Init => SessionInv
<1> SUFFICES ASSUME Init PROVE SessionInv
  OBVIOUS
<1>1. attached = FALSE /\ open = FALSE /\ returned = "None" /\ ModeIsOfFilter
  BY DEF Init, Client!Init, ModeIsOfFilter
<1> QED BY <1>1 DEF SessionInv, Registered, Continuous, Selective, NoFalseAlarm, StreamErrors

\* A step of the client during which the connection rests: the attachment and
\* what it has handed over stay, or a new one begins on the subscription that
\* the server already holds.
LEMMA ClientStepKeepsSession ==
    ASSUME ProducerInv, ProducerInv', ClientProofs!IInv, ClientProofs!IInv', SessionInv,
           CallNext \/ SleepElapses \/ SubscribeSucceeds \/ UNCHANGED vars
    PROVE  SessionInv'
<1>1. UNCHANGED <<filters, mode, producer, subscription>>
  BY DEF CallNext, SleepElapses, SubscribeSucceeds, vars, client, Client!fields, Client!vars,
     Client!NextAfterTerminal, Client!CallNextAttached, Client!CallNextDetached,
     Client!SleepElapses, Client!SubscribeSucceeds
<1>2. \/ /\ UNCHANGED <<attached, delivered, returned>>
         /\ \/ retry' = retry
            \/ ~attached /\ retry # "subscribe"
      \/ /\ open /\ ~attached /\ attached' = TRUE
         /\ delivered' = <<>> /\ returned' = "None"
  <2>1. CASE CallNext
    BY <2>1 DEF CallNext, Client!NextAfterTerminal, Client!CallNextAttached,
       Client!CallNextDetached, Client!Attachment!CallNext, Client!Pending, Client!vars,
       Client!inner, Client!fields, Client!future
  <2>2. CASE SleepElapses
    BY <2>2, ClientFacts DEF SleepElapses, Client!SleepElapses, Client!inner, Client!fields
  <2>3. CASE SubscribeSucceeds
    BY <2>3, ClientFacts
       DEF SubscribeSucceeds, Client!SubscribeSucceeds, Client!OpenAttachment
  <2>4. CASE UNCHANGED vars
    BY <2>4 DEF vars, client
  <2> QED BY <2>1, <2>2, <2>3, <2>4
<1>3. UNCHANGED <<producer_epoch, published, open, live_from, wire>>
  BY <1>1 DEF producer, subscription
<1>4. open => attached \/ retry = "subscribe"
  BY DEF SessionInv, Registered, ProducerInv
<1>5. Registered' /\ NoFalseAlarm' /\ ModeIsOfFilter'
  BY <1>1, <1>2, <1>3, <1>4 DEF SessionInv, Registered, NoFalseAlarm, ModeIsOfFilter, StreamErrors
<1>6. Pipeline' = Pipeline
  BY <1>2, <1>3, ClientFacts DEF Pipeline
<1>7. Begins(Pipeline', Pipeline)
  <2>1. Len(Pipeline) \in Nat
    BY PipelineTypes DEF PipelineTyped
  <2> QED BY <1>6, <2>1 DEF Begins
<1>8. attached' \/ open' => attached \/ open
  BY <1>2, <1>3
<1>9. Continuous' /\ Selective'
  BY <1>1, <1>3, <1>6, <1>7, <1>8, PipelineKept DEF SessionInv
<1> QED BY <1>5, <1>9 DEF SessionInv

\* A new subscription starts with nothing expected and nothing under way.
LEMMA ServerAcceptsKeepsSession ==
    ASSUME ProducerInv, ClientProofs!IInv, SessionInv, ServerAccepts
    PROVE  SessionInv'
<1>1. /\ ~attached /\ ~attached' /\ retry' = "subscribe" /\ open' = TRUE
      /\ live_from' = Len(published) /\ wire' = <<>>
      /\ UNCHANGED <<returned, mode, filters, published>>
  BY ClientFacts DEF ServerAccepts, client, producer
<1>2. Pipeline' = <<>>
  BY <1>1 DEF Pipeline, PipelineOf
<1>3. Expected' = <<>>
  <2>1. published \in Seq(Published)
    BY DEF ProducerInv
  <2> QED BY <1>1, <2>1, SelectionEmpty DEF Expected
<1>4. Registered' /\ NoFalseAlarm' /\ ModeIsOfFilter'
  BY <1>1 DEF SessionInv, Registered, NoFalseAlarm, ModeIsOfFilter
<1>5. Continuous'
  BY <1>2 DEF Continuous
<1>6. Selective'
  BY <1>1, <1>2, <1>3 DEF Selective
<1> QED BY <1>4, <1>5, <1>6 DEF SessionInv

\* A subscription that ends, a connection that breaks and a producer that
\* restarts take from the end of the pipeline and close it.
LEMMA EndOfSubscriptionKeepsSession ==
    ASSUME ProducerInv, ProducerInv', ClientProofs!IInv, ClientProofs!IInv', SessionInv,
           \/ \E end \in Client!Attachment!Ends, kept \in 0..Len(wire) :
                 SubscriptionEnds(end, kept)
           \/ ProducerRestarts
    PROVE  SessionInv'
<1>1. /\ UNCHANGED <<client, filters, published, live_from>> /\ open' = FALSE
      /\ \/ wire' = wire
         \/ \E kept \in 0..Len(wire) : wire' = SubSeq(wire, 1, kept)
  BY DEF SubscriptionEnds, ProducerRestarts, producer
<1>2. UNCHANGED <<attached, delivered, returned, mode, retry>>
  BY <1>1 DEF client
<1>3. Begins(Pipeline', Pipeline)
  <2>1. (IF attached THEN delivered ELSE <<>>) \in Seq(Transactions) /\ wire \in Seq(Published)
    BY ClientFacts DEF ProducerInv
  <2>2. CASE wire' = wire
    <3>1. Pipeline' = Pipeline
      BY <1>2, <2>2 DEF Pipeline
    <3>2. Len(Pipeline) \in Nat
      BY PipelineTypes DEF PipelineTyped
    <3> QED BY <3>1, <3>2 DEF Begins
  <2>3. ASSUME NEW kept \in 0..Len(wire), wire' = SubSeq(wire, 1, kept)
        PROVE  Begins(Pipeline', Pipeline)
    BY <1>2, <2>1, <2>3, PipelineCut DEF Pipeline
  <2> QED BY <1>1, <2>2, <2>3
<1>4. Registered' /\ NoFalseAlarm' /\ ModeIsOfFilter'
  BY <1>1, <1>2 DEF SessionInv, Registered, NoFalseAlarm, ModeIsOfFilter
<1>5. Continuous' /\ Selective'
  BY <1>1, <1>2, <1>3, PipelineKept DEF SessionInv
<1> QED BY <1>4, <1>5 DEF SessionInv

\* Receiving moves the boundary between handed over and under way.
LEMMA ReceiveHeadKeepsSession ==
    ASSUME ProducerInv, ProducerInv', ClientProofs!IInv, ClientProofs!IInv', SessionInv,
           ReceiveHead
    PROVE  SessionInv'
<1>1. /\ attached /\ attached' /\ wire # <<>> /\ returned' = "Ok"
      /\ delivered' = Append(delivered, IdOf(Head(wire))) /\ wire' = Tail(wire)
      /\ UNCHANGED <<mode, retry, filters, producer_epoch, published, open, live_from>>
  BY ArrivalIsHandedOver DEF SessionInv, producer
<1>2. delivered \in Seq(Transactions) /\ wire \in Seq(Published)
  BY ClientFacts DEF ProducerInv
<1>3. Pipeline' = Pipeline
  BY <1>1, <1>2, PipelineMoves DEF Pipeline
<1>4. Begins(Pipeline', Pipeline)
  <2>1. Len(Pipeline) \in Nat
    BY PipelineTypes DEF PipelineTyped
  <2> QED BY <1>3, <2>1 DEF Begins
<1>5. Registered' /\ NoFalseAlarm' /\ ModeIsOfFilter'
  BY <1>1 DEF SessionInv, Registered, NoFalseAlarm, ModeIsOfFilter, StreamErrors
<1>6. Continuous' /\ Selective'
  BY <1>1, <1>3, <1>4, PipelineKept DEF SessionInv
<1> QED BY <1>5, <1>6 DEF SessionInv

\* The end is seen only when nothing is under way; a status is no verdict of
\* the client, so it raises no false alarm either.
LEMMA ReceiveEndingKeepsSession ==
    ASSUME ProducerInv, ProducerInv', ClientProofs!IInv, ClientProofs!IInv', SessionInv,
           ReceiveEnding
    PROVE  SessionInv'
<1>1. /\ open = FALSE /\ open' = FALSE
      /\ UNCHANGED <<filters, mode, published, live_from, wire, delivered>>
  BY DEF ReceiveEnding, ProducerInv, producer, subscription, Client!ReceiveEnd,
     Client!Attachment!ReceiveEnd, Client!HandleError
<1>2. attached /\ returned' = ending
  BY ClientFacts DEF ReceiveEnding, Client!ReceiveEnd, Client!Attachment!ReceiveEnd
<1>3. ending \notin StreamErrors
  BY SessionAssumption DEF ProducerInv, Client!Attachment!Ends, StreamErrors
<1>4. Registered' /\ NoFalseAlarm' /\ ModeIsOfFilter'
  BY <1>1, <1>2, <1>3 DEF SessionInv, Registered, NoFalseAlarm, ModeIsOfFilter
<1>5. attached' => Begins(Pipeline', Pipeline)
  <2>1. Len(Pipeline) \in Nat
    BY PipelineTypes DEF PipelineTyped
  <2>2. attached' => Pipeline' = Pipeline
    BY <1>1, <1>2 DEF Pipeline
  <2> QED BY <2>1, <2>2 DEF Begins
<1>6. Continuous' /\ Selective'
  BY <1>1, <1>2, <1>5, PipelineKept DEF SessionInv
<1> QED BY <1>4, <1>6 DEF SessionInv

\* A request that fails or is dropped takes its subscription with it; a
\* dropped next() of an attachment leaves everything where it was.
LEMMA AbandonKeepsSession ==
    ASSUME ProducerInv, ProducerInv', ClientProofs!IInv, ClientProofs!IInv', SessionInv,
           SubscribeFails \/ DropNext
    PROVE  SessionInv'
<1>1. UNCHANGED <<filters, mode, published, live_from, delivered, returned, attached>>
  BY DEF SubscribeFails, DropNext, Abandon, producer, subscription, Client!SubscribeFails,
     Client!DropNext, Client!inner, Client!fields
<1>2. \/ open' = FALSE /\ ~attached
      \/ attached /\ UNCHANGED <<open, wire, producer_epoch>>
  <2>1. CASE SubscribeFails
    BY <2>1, ClientFacts DEF SubscribeFails, Abandon, Client!SubscribeFails
  <2>2. CASE DropNext
    BY <2>2, ClientFacts DEF DropNext, Abandon, Client!DropNext, Client!Pending, producer,
       subscription
  <2> QED BY <2>1, <2>2
<1>3. Registered' /\ NoFalseAlarm' /\ ModeIsOfFilter'
  BY <1>1, <1>2 DEF SessionInv, Registered, NoFalseAlarm, ModeIsOfFilter
<1>4. attached => Pipeline' = Pipeline
  BY <1>1, <1>2 DEF Pipeline
<1>5. attached' \/ open' => attached /\ Begins(Pipeline', Pipeline)
  <2>1. Len(Pipeline) \in Nat
    BY PipelineTypes DEF PipelineTyped
  <2> QED BY <1>1, <1>2, <1>4, <2>1 DEF Begins
<1>6. open' => open /\ Pipeline' = Pipeline /\ producer_epoch' = producer_epoch
  BY <1>1, <1>2, <1>4
<1>7. Continuous' /\ Selective'
  BY <1>1, <1>5, <1>6, PipelineKept DEF SessionInv
<1> QED BY <1>3, <1>7 DEF SessionInv

\* Client, connection and server agree in every reachable state.
THEOREM SessionInvariance == Spec => [](ProducerInv /\ ClientProofs!IInv /\ SessionInv)
<1>1. Init => SessionInv
  BY InitEstablishesSession
<1>2. /\ ProducerInv /\ ClientProofs!IInv /\ SessionInv /\ [Next]_vars
      /\ ProducerInv' /\ ClientProofs!IInv'
      => SessionInv'
  <2> SUFFICES ASSUME ProducerInv, ClientProofs!IInv, SessionInv, [Next]_vars,
                      ProducerInv', ClientProofs!IInv'
               PROVE  SessionInv'
    OBVIOUS
  <2>1. CASE CallNext \/ SleepElapses \/ SubscribeSucceeds \/ UNCHANGED vars
    BY <2>1, ClientStepKeepsSession
  <2>2. ASSUME NEW tx \in Traffic, Publish(tx) PROVE SessionInv'
    <3>1. Continuous' /\ Selective'
      BY <2>2, PublishKeepsPipeline DEF SessionInv
    <3>2. UNCHANGED <<open, attached, retry, mode, filters, returned>>
      BY <2>2 DEF Publish, client
    <3> QED BY <3>1, <3>2 DEF SessionInv, Registered, ModeIsOfFilter, NoFalseAlarm
  <2>3. CASE ServerAccepts
    BY <2>3, ServerAcceptsKeepsSession
  <2>4. CASE \/ \E end \in Client!Attachment!Ends, kept \in 0..Len(wire) :
                   SubscriptionEnds(end, kept)
             \/ ProducerRestarts
    BY <2>4, EndOfSubscriptionKeepsSession
  <2>5. CASE ReceiveHead
    BY <2>5, ReceiveHeadKeepsSession
  <2>6. CASE ReceiveEnding
    BY <2>6, ReceiveEndingKeepsSession
  <2>7. CASE SubscribeFails \/ DropNext
    BY <2>7, AbandonKeepsSession
  <2> QED BY <2>1, <2>2, <2>3, <2>4, <2>5, <2>6, <2>7 DEF Next
<1> QED BY <1>1, <1>2, ProducerInvariant, ClientInvariant, PTL DEF Spec

-----------------------------------------------------------------------------
(* What the runs check of a session, for every value of the constants.     *)

\* Client, producer, server and connection keep their types.
THEOREM TypeCorrect == Spec => []TypeOK
<1>1. ProducerInv /\ ClientProofs!IInv => TypeOK
  <2> SUFFICES ASSUME ProducerInv, ClientProofs!IInv PROVE TypeOK
    OBVIOUS
  <2>1. Client!TypeOK
    BY SameClient DEF ClientProofs!IInv, ClientProofs!TypeInv
  <2>2. live_from \in 0..MaxPublished
    <3>1. Len(published) \in Nat /\ MaxPublished \in Nat
      BY SessionAssumption, WidthAssumption DEF ProducerInv
    <3> QED BY <3>1 DEF ProducerInv
  <2> QED BY <2>1, <2>2 DEF TypeOK, ProducerInv
<1> QED BY <1>1, ProducerInvariant, ClientInvariant, PTL

\* The verdicts of CanonicalStreamValidator (stream.rs, observe()) never blame a
\* correct server, however often next() is dropped and the session reconnects.
THEOREM NoFalseAlarms == Spec => []NoFalseAlarm
<1>1. SessionInv => NoFalseAlarm
  BY DEF SessionInv
<1> QED BY <1>1, SessionInvariance, PTL

\* What next() of one attachment has returned (reconnect.rs) is an exact prefix
\* of what was published and selected since its subscription went live.
THEOREM DeliveredPrefix == Spec => []DeliveredIsPrefix
<1>1. ProducerInv /\ ClientProofs!IInv /\ SessionInv => DeliveredIsPrefix
  <2> SUFFICES ASSUME ProducerInv, ClientProofs!IInv, SessionInv, attached
               PROVE  IsPrefix(delivered, Expected)
    BY DEF DeliveredIsPrefix
  <2> DEFINE n == Len(delivered)
  <2>1. /\ delivered \in Seq(Transactions) /\ wire \in Seq(Published)
        /\ Expected \in Seq(Transactions)
    BY ClientFacts, PipelineTypes DEF ProducerInv, PipelineTyped
  <2>2. n \in Nat /\ Len(wire) \in Nat /\ Len(Expected) \in Nat
    BY <2>1
  <2>3. Pipeline = PipelineOf(delivered, wire) /\ Begins(Pipeline, Expected)
    BY DEF Pipeline, SessionInv, Selective
  <2>4. /\ Len(Pipeline) = n + Len(wire)
        /\ \A i \in 1..(n + Len(wire)) :
              Pipeline[i] = IF i <= n THEN delivered[i] ELSE IdOf(wire[i - n])
    BY <2>1, <2>3, PipelineElements
  <2>5. n <= Len(Expected) /\ \A i \in 1..n : delivered[i] = Expected[i]
    <3> HIDE DEF n
    <3>1. \A i \in 1..n : i \in 1..(n + Len(wire)) /\ i <= n
      BY <2>2
    <3>2. \A i \in 1..n : Pipeline[i] = delivered[i]
      BY <2>4, <3>1
    <3> QED BY <2>2, <2>3, <2>4, <3>1, <3>2 DEF Begins
  <2>6. SubSeq(delivered, 1, n) = SubSeq(Expected, 1, n)
    BY <2>1, <2>2, <2>5
  <2> QED BY <2>2, <2>5, <2>6 DEF IsPrefix
<1> QED BY <1>1, SessionInvariance, PTL

\* While the subscription stands, what was selected and not yet handed over is
\* on its way: neither cancellation nor filtering has lost any of it.
THEOREM NothingLost == Spec => []NothingLostWhileOpen
<1>1. SessionInv => NothingLostWhileOpen
  BY DEF SessionInv, Selective, NothingLostWhileOpen, Pipeline, PipelineOf
<1> QED BY <1>1, SessionInvariance, PTL
=============================================================================

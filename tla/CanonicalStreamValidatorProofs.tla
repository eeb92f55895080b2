------------------- MODULE CanonicalStreamValidatorProofs -------------------
(***************************************************************************)
(* Lemmas about the operators of CanonicalStreamValidator, on which the    *)
(* proofs about both kinds of stream rest, and the principles of induction *)
(* and recursion that other proofs use.                                    *)
(***************************************************************************)
EXTENDS CanonicalStreamValidator, WellFoundedInduction, SequenceTheorems, TLAPS

(***************************************************************************)
(* Induction over the natural numbers, stated of a set: the theorems of    *)
(* NaturalsInduction take a predicate, which the provers cannot            *)
(* instantiate, while a set is an ordinary value.                          *)
(***************************************************************************)

\* Every nonempty set of numbers has a smallest element.
LEMMA SmallestElement ==
    ASSUME NEW T, T \subseteq Nat, T # {}
    PROVE  \E x \in T : \A y \in T : ~(y < x)
<1>1. \E x \in T : \A y \in T : ~(<<y, x>> \in OpToRel(<, Nat))
  BY NatLessThanWellFounded, WFMin
<1>2. \A x, y \in Nat : y < x => <<y, x>> \in OpToRel(<, Nat)
  BY DEF OpToRel
<1> QED BY <1>1, <1>2

\* A set with zero and with the successor of each of its numbers has them all.
LEMMA NaturalInduction ==
    ASSUME NEW T, 0 \in T, \A n \in T \cap Nat : n + 1 \in T
    PROVE  Nat \subseteq T
<1> DEFINE U == Nat \ T
<1> SUFFICES ASSUME U # {} PROVE FALSE
  OBVIOUS
<1>1. PICK x \in U : \A y \in U : ~(y < x)
  <2>1. U \subseteq Nat
    OBVIOUS
  <2> HIDE DEF U
  <2> QED BY <2>1, SmallestElement
<1>2. x # 0 /\ x \in Nat
  OBVIOUS
<1>3. x - 1 \in Nat /\ x - 1 < x /\ x - 1 + 1 = x
  BY <1>2
<1> QED BY <1>1, <1>2, <1>3

\* The first n values of the function that recursion on n defines, from its
\* value a for zero and the step from each value to the next.
Solves(S, a, step, g, n) ==
    /\ g \in [0..n -> S]
    /\ g[0] = a
    /\ \A i \in 0..(n - 1) : g[i + 1] = step[i][g[i]]

\* The recursion can be solved up to every n.
LEMMA SolutionsExist ==
    ASSUME NEW S, NEW a \in S, NEW step \in [Nat -> [S -> S]]
    PROVE  \A n \in Nat : \E g : Solves(S, a, step, g, n)
<1> DEFINE Solved == {n \in Nat : \E g : Solves(S, a, step, g, n)}
<1>1. 0 \in Solved
  <2>1. Solves(S, a, step, [i \in 0..0 |-> a], 0)
    BY DEF Solves
  <2> QED BY <2>1
<1>2. ASSUME NEW n \in Solved \cap Nat PROVE n + 1 \in Solved
  <2>1. PICK g : Solves(S, a, step, g, n)
    OBVIOUS
  <2> DEFINE h == [i \in 0..(n + 1) |-> IF i <= n THEN g[i] ELSE step[n][g[n]]]
  <2>2. /\ n \in 0..n /\ g[n] \in S /\ step[n][g[n]] \in S
        /\ \A i \in 0..n : g[i] \in S
    BY <2>1 DEF Solves
  <2>3. h \in [0..(n + 1) -> S] /\ h[0] = a
    BY <2>1, <2>2 DEF Solves
  <2>4. ASSUME NEW i \in 0..n PROVE h[i + 1] = step[i][h[i]]
    <3>1. h[i] = g[i] /\ i + 1 \in 0..(n + 1)
      OBVIOUS
    <3>2. CASE i = n
      BY <3>1, <3>2
    <3>3. CASE i # n
      <4>1. i \in 0..(n - 1) /\ i + 1 <= n
        BY <3>3
      <4>2. g[i + 1] = step[i][g[i]]
        BY <2>1, <4>1 DEF Solves
      <4>3. h[i + 1] = g[i + 1]
        BY <3>1, <4>1
      <4> QED BY <3>1, <4>2, <4>3
    <3> QED BY <3>2, <3>3
  <2>5. n + 1 \in Nat /\ n + 1 - 1 = n
    OBVIOUS
  <2> HIDE DEF h
  <2>6. Solves(S, a, step, h, n + 1)
    BY <2>3, <2>4, <2>5 DEF Solves
  <2> QED BY <2>5, <2>6
<1>3. Nat \subseteq Solved
  <2> HIDE DEF Solved
  <2> QED BY <1>1, <1>2, NaturalInduction
<1> QED BY <1>3

\* Two solutions agree as far as both go, even of recursions whose steps
\* differ from there on.
LEMMA SolutionsAgree ==
    ASSUME NEW S, NEW a, NEW step, NEW other, NEW n \in Nat, NEW m \in Nat, n <= m,
           \A i \in 0..(n - 1) : step[i] = other[i],
           NEW g, NEW h, Solves(S, a, step, g, n), Solves(S, a, other, h, m)
    PROVE  \A i \in 0..n : g[i] = h[i]
<1> DEFINE Same == {i \in Nat : i <= n => g[i] = h[i]}
<1>1. 0 \in Same
  BY DEF Solves
<1>2. ASSUME NEW i \in Same \cap Nat PROVE i + 1 \in Same
  <2> SUFFICES ASSUME i + 1 <= n PROVE g[i + 1] = h[i + 1]
    OBVIOUS
  <2>1. i \in 0..(n - 1) /\ i \in 0..(m - 1) /\ g[i] = h[i]
    OBVIOUS
  <2> HIDE DEF Same
  <2> QED BY <2>1 DEF Solves
<1>3. Nat \subseteq Same
  <2> HIDE DEF Same
  <2> QED BY <1>1, <1>2, NaturalInduction
<1> QED BY <1>3

Steps(S) == [Nat -> [S -> S]]

\* f is defined by recursion.
SolvesAll(S, a, step, f) ==
    /\ f \in [Nat -> S]
    /\ f[0] = a
    /\ \A n \in Nat : f[n + 1] = step[n][f[n]]

\* Recursion on the natural numbers defines a function.
LEMMA RecursionDefines ==
    ASSUME NEW S, NEW a \in S, NEW step \in Steps(S)
    PROVE  \E f : SolvesAll(S, a, step, f)
<1> USE DEF Steps
<1> DEFINE best(n) == CHOOSE g : Solves(S, a, step, g, n)
           F == [n \in Nat |-> best(n)[n]]
<1>1. \A n \in Nat : Solves(S, a, step, best(n), n)
  BY SolutionsExist
<1> HIDE DEF best
<1>2. F \in [Nat -> S]
  <2>1. \A n \in Nat : best(n)[n] \in S
    BY <1>1 DEF Solves
  <2> QED BY <2>1
<1>3. F[0] = a
  BY <1>1 DEF Solves
<1>4. ASSUME NEW n \in Nat PROVE F[n + 1] = step[n][F[n]]
  <2>1. n + 1 \in Nat /\ n + 1 - 1 = n /\ n <= n + 1 /\ n \in 0..n
    OBVIOUS
  <2>2. F[n + 1] = best(n + 1)[n + 1] /\ F[n] = best(n)[n]
    BY <2>1
  <2>3. Solves(S, a, step, best(n), n) /\ Solves(S, a, step, best(n + 1), n + 1)
    BY <1>1, <2>1
  <2>4. best(n + 1)[n + 1] = step[n][best(n + 1)[n]]
    BY <2>1, <2>3 DEF Solves
  <2>5. \A i \in 0..n : best(n)[i] = best(n + 1)[i]
    BY <2>1, <2>3, SolutionsAgree
  <2> QED BY <2>1, <2>2, <2>4, <2>5
<1> HIDE DEF F
<1> QED BY <1>2, <1>3, <1>4 DEF SolvesAll

\* Two recursions with the same steps up to n have the same values up to n.
LEMMA RecursionsAgree ==
    ASSUME NEW S, NEW a, NEW step, NEW other, NEW n \in Nat,
           \A i \in 0..(n - 1) : step[i] = other[i],
           NEW f, NEW g, SolvesAll(S, a, step, f), SolvesAll(S, a, other, g)
    PROVE  f[n] = g[n]
<1> DEFINE Same == {i \in Nat : i <= n => f[i] = g[i]}
<1>1. 0 \in Same
  BY DEF SolvesAll
<1>2. ASSUME NEW i \in Same \cap Nat PROVE i + 1 \in Same
  <2> SUFFICES ASSUME i + 1 <= n PROVE f[i + 1] = g[i + 1]
    OBVIOUS
  <2>1. i \in 0..(n - 1) /\ i \in Nat /\ f[i] = g[i]
    OBVIOUS
  <2> HIDE DEF Same
  <2> QED BY <2>1 DEF SolvesAll
<1>3. Nat \subseteq Same
  <2> HIDE DEF Same
  <2> QED BY <1>1, <1>2, NaturalInduction
<1> QED BY <1>3

\* A function on 1..n is a sequence of length n.
LEMMA FunctionIsSequence ==
    ASSUME NEW S, NEW n \in Nat, NEW f \in [1..n -> S]
    PROVE  f \in Seq(S) /\ Len(f) = n
<1>1. f \in Seq(S)
  BY SeqDef
<1>2. DOMAIN f = 1..Len(f) /\ Len(f) \in Nat
  BY <1>1, LenProperties
<1>3. DOMAIN f = 1..n
  OBVIOUS
<1> QED BY <1>1, <1>2, <1>3

-----------------------------------------------------------------------------

\* Epochs are numbers, and therefore never None.
LEMMA EpochsAreNumbers == Epochs \subseteq Nat
<1>1. 1..MaxU64 \subseteq Nat
  BY WidthAssumption
<1> QED BY <1>1, EpochAssumption

\* The identity of a transaction is a pair of numbers.
LEMMA TransactionNumbers ==
    ASSUME NEW tx \in Transactions
    PROVE  tx.epoch \in Nat /\ tx.sequence \in Nat
<1>1. tx.epoch \in Epochs /\ tx.sequence \in 1..MaxU64
  BY DEF Transactions
<1>2. tx.epoch \in Nat
  BY <1>1, EpochsAreNumbers
<1> QED BY <1>1, <1>2, WidthAssumption

\* A frame carries a transaction of the declared type.
LEMMA TransactionOfType ==
    ASSUME NEW frame \in Frames
    PROVE  TransactionOf(frame) \in Transactions
BY DEF Frames, Transactions, TransactionOf

\* validate_resolved() leaves a well-formed validator behind.
LEMMA ValidateResolvedType ==
    ASSUME NEW v \in Validators, NEW frame \in Frames
    PROVE  /\ ValidateResolved(v, frame) \in Validators
           /\ ValidateResolved(v, frame).mode = v.mode
BY DEF Validators, Frames, ValidateResolved

\* Its verdict is one of the variants of CanonicalStreamError, or Ok.
LEMMA ValidateErrorType ==
    ASSUME NEW v \in Validators, NEW frame \in Frames
    PROVE  ValidateError(v, frame) \in {"Ok"} \cup StreamErrors
BY DEF ValidateError, ObserveError, StreamErrors

\* What an accepting verdict says: same epoch, and the next sequence number
\* under match-all, a greater one under a filter.
LEMMA AcceptedFrameFollows ==
    ASSUME NEW v \in Validators, NEW frame \in Frames,
           ValidateError(v, frame) = "Ok", v.last_sequence # None
    PROVE  /\ v.producer_epoch \in {None, frame.producer_epoch}
           /\ frame.canonical_sequence > v.last_sequence
           /\ v.mode = "MatchAll" => frame.canonical_sequence = v.last_sequence + 1
<1>1. ObserveError(v, frame.producer_epoch, frame.canonical_sequence) = "Ok"
  BY DEF ValidateError
<1>2. /\ ~EpochChanged(v, frame.producer_epoch)
      /\ ~Regressed(v, frame.canonical_sequence)
      /\ ~Gap(v, frame.canonical_sequence)
  BY <1>1 DEF ObserveError
<1>3. v.last_sequence \in Nat /\ frame.canonical_sequence \in Nat
  BY WidthAssumption DEF Validators, Frames
<1> QED BY <1>2, <1>3 DEF EpochChanged, Regressed, Gap

\* An accepting verdict records the frame.
LEMMA AcceptedFrameIsRecorded ==
    ASSUME NEW v \in Validators, NEW frame \in Frames,
           ValidateError(v, frame) = "Ok"
    PROVE  /\ ValidateResolved(v, frame).producer_epoch = frame.producer_epoch
           /\ ValidateResolved(v, frame).last_sequence = frame.canonical_sequence
BY DEF ValidateResolved, Validators, Frames
=============================================================================

------------------------ MODULE ResolvedFilterProofs ------------------------
(***************************************************************************)
(* The subscription filter, for every set of keys and every limit: what    *)
(* rule() lets through is well formed, and the mode derived from the rules *)
(* agrees with what the server does with them.                             *)
(***************************************************************************)
EXTENDS ResolvedFilter, FiniteSetTheorems, TLAPS

-----------------------------------------------------------------------------
(* The mode and the server.                                                *)

\* A transaction that carries no key and the vote that a rule does not ask
\* for, and one that touches the keys of a rule: between them a restricted
\* rule leaves one out.
LEMMA OnlyUnrestrictedAdmitsAll ==
    ASSUME NEW rule \in Rules
    PROVE  Unrestricted(rule) <=> \A tx \in ObservedTransactions : Admits(rule, tx)
<1> DEFINE Tx(vote, keys) == [vote |-> vote, keys |-> keys]
<1>1. /\ rule.vote \in BOOLEAN \cup {Unset}
      /\ rule.account_include \in Seq(Keys)
      /\ rule.account_exclude \in Seq(Keys)
      /\ rule.account_required \in Seq(Keys)
  BY DEF Rules
<1>2. \A vote \in BOOLEAN, keys \in SUBSET Keys : Tx(vote, keys) \in ObservedTransactions
  BY DEF ObservedTransactions
<1>3. \A s \in Seq(Keys) : s # <<>> => Range(s) # {} /\ Range(s) \subseteq Keys
  <2> SUFFICES ASSUME NEW s \in Seq(Keys), s # <<>>
               PROVE  Range(s) # {} /\ Range(s) \subseteq Keys
    OBVIOUS
  <2>1. DOMAIN s = 1..Len(s) /\ Len(s) \in Nat /\ Len(s) # 0
    OBVIOUS
  <2>2. 1 \in DOMAIN s
    BY <2>1
  <2>3. \A i \in DOMAIN s : s[i] \in Keys
    BY <2>1
  <2> QED BY <2>2, <2>3 DEF Range
<1>4. Range(<<>>) = {}
  BY DEF Range
<1>5. ASSUME Unrestricted(rule), NEW tx \in ObservedTransactions
      PROVE  Admits(rule, tx)
  BY <1>4, <1>5 DEF Unrestricted, Admits
<1>6. ASSUME \A tx \in ObservedTransactions : Admits(rule, tx)
      PROVE  Unrestricted(rule)
  <2>1. Tx(TRUE, {}) \in ObservedTransactions /\ Tx(FALSE, {}) \in ObservedTransactions
    BY <1>2
  <2>2. Admits(rule, Tx(TRUE, {})) /\ Admits(rule, Tx(FALSE, {}))
    BY <1>6, <2>1
  <2>3. rule.vote = Unset
    BY <2>2, KeyAssumption DEF Admits
  <2>4. rule.account_include = <<>>
    BY <2>2 DEF Admits
  <2>5. rule.account_required = <<>>
    BY <1>1, <1>3, <2>2 DEF Admits
  <2>6. rule.account_exclude = <<>>
    <3>1. Tx(TRUE, Range(rule.account_exclude)) \in ObservedTransactions
                \/ rule.account_exclude = <<>>
      BY <1>1, <1>2, <1>3
    <3>2. Tx(TRUE, Range(rule.account_exclude)) \in ObservedTransactions =>
             Range(rule.account_exclude) = {}
      BY <1>6 DEF Admits
    <3> QED BY <1>1, <1>3, <3>1, <3>2
  <2> QED BY <2>3, <2>4, <2>5, <2>6 DEF Unrestricted
<1> QED BY <1>5, <1>6

\* For every list of rules the mode is match-all exactly when the list is
\* empty or a single rule admits everything.
THEOREM ModeIsExact ==
    ASSUME NEW rules \in Seq(Rules)
    PROVE  ModeOf(rules) = "MatchAll" <=>
               \/ rules = <<>>
               \/ \E rule \in Range(rules) :
                     \A tx \in ObservedTransactions : Admits(rule, tx)
<1>1. \A rule \in Range(rules) : rule \in Rules
  BY DEF Range
<1> QED BY <1>1, OnlyUnrestrictedAdmitsAll DEF ModeOf

\* In match-all mode the server leaves nothing out: no gap that the validator
\* reports can be of the filter's making.
THEOREM MatchAllSelectsEverything ==
    \A rules \in Seq(Rules), tx \in ObservedTransactions :
        ModeOf(rules) = "MatchAll" => Matches(rules, tx)
BY ModeIsExact DEF Matches

-----------------------------------------------------------------------------
(* The builder.                                                            *)

\* A list that keys() has accepted holds keys only, each once.
LEMMA AcceptedList ==
    ASSUME NEW list \in KeyLists, ~InvalidKeys(list)
    PROVE  /\ list \in Seq(Keys)
           /\ IsFiniteSet(Range(list))
           /\ Cardinality(Range(list)) = Len(list)
<1>1. PICK m \in 0..MaxList : list \in [1..m -> Keys \cup {Malformed}]
  BY DEF KeyLists, SeqOf
<1>2. list \in Seq(Keys \cup {Malformed}) /\ Len(list) = m /\ m \in Nat
  BY <1>1
<1>3. \A i \in 1..m : list[i] \in Keys
  BY <1>1, <1>2 DEF InvalidKeys, Contains
<1>4. list \in [1..m -> Keys]
  BY <1>1, <1>3
<1>5. list \in Seq(Keys)
  BY <1>2, <1>4
<1>6. list \in Surjection(1..m, Range(list)) /\ IsInjective(list)
  BY <1>1 DEF Surjection, Range, InvalidKeys, HasDuplicate
<1>7. list \in Injection(1..m, Range(list))
  BY <1>6 DEF Surjection, Injection
<1>8. IsFiniteSet(1..m) /\ Cardinality(1..m) = m
  BY <1>2, FS_Interval
<1>9. /\ IsFiniteSet(Range(list))
      /\ Cardinality(Range(list)) = m
  BY <1>6, <1>7, <1>8, FS_Surjection
<1> QED BY <1>2, <1>5, <1>9

\* A rule within the limits, none of whose lists repeats a key.
WellFormed(rule) ==
    /\ Len(rule.account_include) + Len(rule.account_exclude)
          + Len(rule.account_required) <= MaxKeys
    /\ Cardinality(Range(rule.account_include)) = Len(rule.account_include)
    /\ Cardinality(Range(rule.account_exclude)) = Len(rule.account_exclude)
    /\ Cardinality(Range(rule.account_required)) = Len(rule.account_required)

RulesWithinLimits ==
    /\ Len(filters) <= MaxRules
    /\ \A i \in 1..Len(filters) : WellFormed(filters[i])

\* A rule that rule() accepts is a well-formed one.
LEMMA AcceptedRule ==
    ASSUME NEW vote \in BOOLEAN \cup {Unset}, NEW include \in KeyLists,
           NEW exclude \in KeyLists, NEW required \in KeyLists,
           ~InvalidRule(include, exclude, required)
    PROVE  LET rule == [vote |-> vote, account_include |-> include,
                        account_exclude |-> exclude, account_required |-> required]
           IN  rule \in Rules /\ WellFormed(rule)
<1>1. ~InvalidKeys(include) /\ ~InvalidKeys(exclude) /\ ~InvalidKeys(required)
  BY DEF InvalidRule
<1>2. /\ include \in Seq(Keys) /\ Cardinality(Range(include)) = Len(include)
      /\ exclude \in Seq(Keys) /\ Cardinality(Range(exclude)) = Len(exclude)
      /\ required \in Seq(Keys) /\ Cardinality(Range(required)) = Len(required)
  BY <1>1, AcceptedList
<1>3. Len(include) + Len(exclude) + Len(required) <= MaxKeys
  <2>1. Len(include) \in Nat /\ Len(exclude) \in Nat /\ Len(required) \in Nat
    BY <1>2
  <2>2. ~(Len(include) + Len(exclude) + Len(required) > MaxKeys)
    BY DEF InvalidRule, TooManyKeys
  <2> QED BY <2>1, <2>2, LimitAssumption
<1> QED BY <1>2, <1>3 DEF Rules, WellFormed

IInv == TypeOK /\ RulesWithinLimits

\* The builder only ever holds well-formed rules, and a rejected one nothing.
THEOREM Invariance == Spec => []IInv
<1>1. Init => IInv
  BY LimitAssumption DEF Init, IInv, TypeOK, RulesWithinLimits
<1>2. IInv /\ [Next]_vars => IInv'
  <2> SUFFICES ASSUME IInv, [Next]_vars PROVE IInv'
    OBVIOUS
  <2> USE LimitAssumption DEF IInv, TypeOK, RulesWithinLimits
  <2>1. CASE RuleBeyondLimit
    BY <2>1 DEF RuleBeyondLimit, Reject
  <2>2. CASE Rule
    <3>1. PICK vote \in BOOLEAN \cup {Unset}, include, exclude, required \in KeyLists :
             IF InvalidRule(include, exclude, required)
             THEN Reject
             ELSE /\ filters' = Append(filters,
                        [vote |-> vote, account_include |-> include,
                         account_exclude |-> exclude, account_required |-> required])
                  /\ UNCHANGED status
      BY <2>2 DEF Rule
    <3>2. CASE InvalidRule(include, exclude, required)
      BY <3>1, <3>2 DEF Reject
    <3>3. CASE ~InvalidRule(include, exclude, required)
      <4> DEFINE rule == [vote |-> vote, account_include |-> include,
                          account_exclude |-> exclude, account_required |-> required]
      <4>1. rule \in Rules /\ WellFormed(rule)
        BY <3>3, AcceptedRule
      <4>2. filters' = Append(filters, rule) /\ status' = status
        BY <3>1, <3>3
      <4> HIDE DEF rule
      <4>3. filters' \in Seq(Rules) /\ Len(filters') = Len(filters) + 1
        BY <4>1, <4>2
      <4>4. \A i \in 1..Len(filters') : filters'[i] = IF i <= Len(filters) THEN filters[i] ELSE rule
        BY <4>1, <4>2
      <4>5. \A i \in 1..Len(filters') : WellFormed(filters'[i])
        BY <4>1, <4>3, <4>4
      <4>6. Len(filters') <= MaxRules
        BY <2>2, <4>3 DEF Rule
      <4> QED BY <4>2, <4>3, <4>5, <4>6 DEF WellFormed
    <3> QED BY <3>2, <3>3
  <2>3. CASE IntoRequest
    BY <2>3 DEF IntoRequest
  <2>4. CASE UNCHANGED vars
    BY <2>4 DEF vars
  <2> QED BY <2>1, <2>2, <2>3, <2>4 DEF Next
<1> QED BY <1>1, <1>2, PTL DEF Spec

\* Every state of the builder has the declared type.
THEOREM TypeCorrect == Spec => []TypeOK
BY Invariance, PTL DEF IInv

\* However the filter was built: in match-all mode the server leaves nothing
\* out, and in filtered mode each rule alone leaves something out (filter.rs,
\* mode()).
THEOREM ModeAgrees == Spec => []ModeAgreesWithServer
<1>1. IInv => ModeAgreesWithServer
  <2> SUFFICES ASSUME IInv PROVE ModeAgreesWithServer
    OBVIOUS
  <2>1. filters \in Seq(Rules)
    BY DEF IInv, TypeOK
  <2>2. ModeOf(filters) = "MatchAll" => \A tx \in ObservedTransactions : Matches(filters, tx)
    BY <2>1, MatchAllSelectsEverything
  <2>3. ModeOf(filters) = "Filtered" =>
           /\ filters # <<>>
           /\ \A rule \in Range(filters) : \E tx \in ObservedTransactions : ~Admits(rule, tx)
    BY <2>1, ModeIsExact
  <2> QED BY <2>2, <2>3 DEF ModeAgreesWithServer
<1> QED BY <1>1, Invariance, PTL

\* However it was built, the request keeps the limits and repeats no key
\* within a list (filter.rs, rule() and keys()).
THEOREM RequestsAreWellFormed == Spec => []RequestIsWellFormed
<1>1. IInv => RequestIsWellFormed
  <2> SUFFICES ASSUME IInv PROVE RequestIsWellFormed
    OBVIOUS
  <2>1. \A rule \in Range(filters) : WellFormed(rule)
    BY DEF IInv, TypeOK, RulesWithinLimits, Range
  <2>2. ASSUME NEW rule \in Range(filters)
        PROVE  LET lists == <<rule.account_include, rule.account_exclude,
                              rule.account_required>>
               IN  /\ Len(lists[1]) + Len(lists[2]) + Len(lists[3]) <= MaxKeys
                   /\ \A i \in 1..3 : Cardinality(Range(lists[i])) = Len(lists[i])
    <3> DEFINE lists == <<rule.account_include, rule.account_exclude,
                          rule.account_required>>
    <3>1. /\ lists[1] = rule.account_include /\ lists[2] = rule.account_exclude
          /\ lists[3] = rule.account_required
      OBVIOUS
    <3> HIDE DEF lists
    <3>2. /\ Len(lists[1]) + Len(lists[2]) + Len(lists[3]) <= MaxKeys
          /\ Cardinality(Range(lists[1])) = Len(lists[1])
          /\ Cardinality(Range(lists[2])) = Len(lists[2])
          /\ Cardinality(Range(lists[3])) = Len(lists[3])
      BY <2>1, <3>1 DEF WellFormed
    <3>3. \A i \in 1..3 : i = 1 \/ i = 2 \/ i = 3
      OBVIOUS
    <3>4. \A i \in 1..3 : Cardinality(Range(lists[i])) = Len(lists[i])
      BY <3>2, <3>3
    <3> QED BY <3>2, <3>4 DEF lists
  <2> QED BY <2>2 DEF IInv, RulesWithinLimits, RequestIsWellFormed
<1> QED BY <1>1, Invariance, PTL
=============================================================================

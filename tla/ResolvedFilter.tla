--------------------------- MODULE ResolvedFilter ---------------------------
(***************************************************************************)
(* The filter of a subscription (client crate, filter.rs): the builder     *)
(* that collects OR rules and the StreamMode it derives from them.  The    *)
(* mode decides how strictly the validator checks continuity, the server   *)
(* decides from the same rules which transactions it leaves out; the two   *)
(* must agree.  What a rule admits is the server's business and external   *)
(* (README.md, "Semantics").                                               *)
(*                                                                         *)
(* A key is a 32-byte address; base58 is injective on those, so a key and  *)
(* its text are the same here, and Malformed stands for all other text.    *)
(***************************************************************************)
EXTENDS Naturals, Sequences, SequencesExt

CONSTANTS
    Keys,         \* the account keys that occur
    Malformed,    \* text that is not base58 of 32 bytes
    Unset,        \* Option::None of the vote predicate
    MaxRules,     \* 16
    MaxKeys,      \* 256, over the three lists of one rule
    MaxList       \* bound: the longest list given to rule()

ASSUME LimitAssumption == MaxRules \in Nat \ {0} /\ MaxKeys \in Nat
ASSUME KeyAssumption == Malformed \notin Keys /\ Keys # {} /\ Unset \notin BOOLEAN

VARIABLES
    filters,   \* ResolvedFilter.filters
    status     \* "building", "rejected" by rule(), or "requested"

vars == <<filters, status>>

KeyLists == SeqOf(Keys \cup {Malformed}, MaxList)

Rules ==
    [vote : BOOLEAN \cup {Unset}, account_include : Seq(Keys),
     account_exclude : Seq(Keys), account_required : Seq(Keys)]

Init == filters = <<>> /\ status = "building"

-----------------------------------------------------------------------------
(* rule() takes the builder by value: an error drops all earlier rules.    *)

\* result.contains(&bytes), over the keys of one list
HasDuplicate(list) == ~IsInjective(list)

\* Mutant of InvalidKeys: text that does not decode is kept.
InvalidIfDuplicate(list) == HasDuplicate(list)

\* keys() rejects the list
InvalidKeys(list) == Contains(list, Malformed) \/ HasDuplicate(list)

\* Mutant of TooManyKeys: each list has a limit of its own.
TooManyKeysPerList(include, exclude, required) ==
    \E list \in {include, exclude, required} : Len(list) > MaxKeys

TooManyKeys(include, exclude, required) ==
    Len(include) + Len(exclude) + Len(required) > MaxKeys

Reject ==
    /\ status' = "rejected"
    /\ filters' = <<>>

RuleBeyondLimit ==
    /\ status = "building"
    /\ Len(filters) >= MaxRules
    /\ Reject

InvalidRule(include, exclude, required) ==
    \/ TooManyKeys(include, exclude, required)
    \/ \E list \in {include, exclude, required} : InvalidKeys(list)

Rule ==
    /\ status = "building"
    /\ Len(filters) < MaxRules
    /\ \E vote \in BOOLEAN \cup {Unset}, include, exclude, required \in KeyLists :
          IF InvalidRule(include, exclude, required)
          THEN Reject
          ELSE /\ filters' = Append(filters,
                     [vote |-> vote, account_include |-> include,
                      account_exclude |-> exclude, account_required |-> required])
               /\ UNCHANGED status

\* The filter is handed to subscribe(), which takes its mode and its rules.
IntoRequest ==
    /\ status = "building"
    /\ status' = "requested"
    /\ UNCHANGED filters

Next ==
    \/ RuleBeyondLimit
    \/ Rule
    \/ IntoRequest

Spec == Init /\ [][Next]_vars

-----------------------------------------------------------------------------

\* Mutant of Unrestricted: a rule that only excludes counts as match-all.
UnrestrictedButExcluding(rule) ==
    /\ rule.vote = Unset
    /\ rule.account_include = <<>>
    /\ rule.account_required = <<>>

\* Mutant of Unrestricted: the accounts to include are forgotten.
UnrestrictedButIncluding(rule) ==
    /\ rule.vote = Unset
    /\ rule.account_exclude = <<>>
    /\ rule.account_required = <<>>

\* A rule without any predicate.
Unrestricted(rule) ==
    /\ rule.vote = Unset
    /\ rule.account_include = <<>>
    /\ rule.account_exclude = <<>>
    /\ rule.account_required = <<>>

\* ResolvedFilter::mode
ModeOf(rules) ==
    IF rules = <<>> \/ \E rule \in Range(rules) : Unrestricted(rule)
    THEN "MatchAll" ELSE "Filtered"

\* External: the server's reading of the rules, per README.md.
Admits(rule, tx) ==
    /\ rule.vote \in {Unset, tx.vote}
    /\ rule.account_include # <<>> => Range(rule.account_include) \cap tx.keys # {}
    /\ Range(rule.account_exclude) \cap tx.keys = {}
    /\ Range(rule.account_required) \subseteq tx.keys

Matches(rules, tx) == rules = <<>> \/ \E rule \in Range(rules) : Admits(rule, tx)

ObservedTransactions == [vote : BOOLEAN, keys : SUBSET Keys]

-----------------------------------------------------------------------------

TypeOK ==
    /\ filters \in Seq(Rules)
    /\ status \in {"building", "rejected", "requested"}

\* Where the client demands continuity the server leaves nothing out, so the
\* filter is never taken for data loss; and continuity is given up only where
\* each rule alone leaves something out.  Rules that admit everything only
\* between them, such as vote = TRUE and vote = FALSE, are not recognised:
\* mode() judges them filtered, and what is lost there goes unnoticed.
ModeAgreesWithServer ==
    /\ ModeOf(filters) = "MatchAll" => \A tx \in ObservedTransactions : Matches(filters, tx)
    /\ ModeOf(filters) = "Filtered" =>
          /\ filters # <<>>
          /\ \A rule \in Range(filters) : \E tx \in ObservedTransactions : ~Admits(rule, tx)

\* What reaches the server keeps the limits, and no list repeats a key, by
\* whatever sequence of calls the filter was built.
RequestIsWellFormed ==
    /\ Len(filters) <= MaxRules
    /\ \A rule \in Range(filters) :
          LET lists == <<rule.account_include, rule.account_exclude, rule.account_required>>
          IN  /\ Len(lists[1]) + Len(lists[2]) + Len(lists[3]) <= MaxKeys
              /\ \A i \in 1..3 : Cardinality(Range(lists[i])) = Len(lists[i])

\* README.md, "Invalid or duplicate keys are rejected locally", read of the
\* keys of a rule: violated, the check compares the keys of one list only.
NoKeyTwiceInARule ==
    \A rule \in Range(filters) :
        IsInjective(rule.account_include \o rule.account_exclude \o rule.account_required)
=============================================================================

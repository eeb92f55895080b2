--------------------------- MODULE MCLiveSession ---------------------------
(* LiveSession with one key and four filters, one of each shape that       *)
(* matters to mode(): none, restricted, excluding, and a rule that admits  *)
(* everything beside one that does not; a vote that touches the key and a  *)
(* transaction that does neither tell them apart.                          *)
EXTENDS LiveSession

Rule(vote, include, exclude, required) ==
    [vote |-> vote, account_include |-> include, account_exclude |-> exclude,
     account_required |-> required]

MCFilters ==
    LET k == CHOOSE k \in Keys : TRUE
    IN  {<<>>,
         <<Rule(FALSE, <<>>, <<k>>, <<>>), Rule(Unset, <<>>, <<>>, <<k>>)>>,
         <<Rule(Unset, <<>>, <<k>>, <<>>)>>,
         <<Rule(TRUE, <<k>>, <<>>, <<>>), Rule(Unset, <<>>, <<>>, <<>>)>>}

MCTraffic == {[vote |-> FALSE, keys |-> {}], [vote |-> TRUE, keys |-> Keys]}
=============================================================================

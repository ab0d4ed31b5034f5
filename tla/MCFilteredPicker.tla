-------------------------- MODULE MCFilteredPicker --------------------------
EXTENDS FilteredPicker, TLC

CONSTANTS n1, n2

MCNode == {n1, n2}
MCAttrsOf == n1 :> [version |-> <<1, 0>>, metadata |-> "env" :> <<"prod">>]
          @@ n2 :> [version |-> <<1, 1>>, metadata |-> Absent]
MCFilterLists == {
    <<[kind |-> "prefix", version |-> <<1>>], [kind |-> "exclude", addrs |-> {n2}]>>,
    <<[kind |-> "version", version |-> <<1, 1>>]>>,
    <<[kind |-> "healthy"]>>}
Symmetry == Permutations(Request)
=============================================================================

---------------------------- MODULE MCSelectors ----------------------------
EXTENDS Selectors, TLC

MCPiece == {"a", "1", "in", "=", "!", "~", ",", "(", ")", ">", "@", " ", "*"}
MCStarts == {<<>>, <<"a", "notin", " ", "(">>, <<"a", " ", "in", "(">>, <<"a", "~", "=">>,
             <<"1", "<", "1", ",">>, <<"a", "in", "(", "1", ",">>, <<"!", "a", ",", "a", "@">>}

Keys == {<<"a">>, <<"1">>}
MCRequirements ==
    {r \in [key : Keys, operator : Operator,
            values : {{}, {<<"1">>}, {<<"1", "1">>}, {<<>>, <<"1">>, <<"a">>},
                      {<<"*", "1", "a", "*", "?">>},
                      {<<">", "1", ",", "<", "1", "1", "1">>}}] : IsRequirement(r)}

ValueSets == {{}, {<<>>}, {<<"1">>}, {<<"1", "1">>}, {<<"a">>, <<"1">>}, {<<"a">>, <<"1">>, <<"1", "1">>},
              {<<"a", "1", "a", "1">>, <<"1", "a", "a">>}}
MCLabelSets == UNION {[ks -> ValueSets] : ks \in SUBSET Keys}

MCAttributes ==
    {Absent} \cup
    [version : {Absent}, direct : UNION {[ks -> {OtherType, {<<"a">>}}] : ks \in SUBSET Keys},
     metadata : {Absent, OtherType} \cup UNION {[ks -> {<<>>, <<"1">>, <<"a">>}] : ks \in SUBSET Keys}]
=============================================================================

--------------------------- MODULE SelectorParser ---------------------------
(* label/parse.go: the text of a label selector to tokens, tokens to         *)
(* requirements, and Requirement.String back to text. A text is a sequence of*)
(* pieces: one for each character the lexer knows, the two keywords, and     *)
(* letters and digits. Limits of 63 characters are left out, and so is the   *)
(* byte 0, which the lexer takes for the end of the string: between tokens   *)
(* the rest of the text is ignored, within one the byte ends it.             *)
EXTENDS SequencesExt, FiniteSets, Naturals

Special == {"=", "!", "(", ")", ",", ">", "<", "@", "~"}
Keyword == {"in", "notin"}
Wildcard == {"*", "?"}
Blank == " "
Empty == <<>>   \* the empty string

\* What a text is written with.
Char == Special \cup Keyword \cup Wildcard \cup {Blank, "a", "1"}

\* A loop that makes n turns, of which those after its end change nothing.
Loop(Turn(_), state, n) ==
    LET after[k \in 0 .. n] == IF k = 0 THEN state ELSE Turn(after[k - 1]) IN after[n]

Item(tok, lit) == [tok |-> tok, lit |-> lit]

\* The end of the run of pieces from position i on that Test does not stop.
EndOfRun(text, i, Stops(_)) ==
    LET n == SelectInSubSeq(text, i, Len(text), Stops) IN IF n = 0 THEN Len(text) ELSE n - 1

\* A second character read after "~", "!" or "=" that belongs to the token.
Paired(text, i) == text[i] \in {"~", "!", "="} /\ i < Len(text) /\ text[i + 1] = "="

\* scanSpecialSymbol unreads the second character unless it belongs to the token.
Width(text, i) == IF Paired(text, i) THEN 2 ELSE 1

SpecialSymbol(text, i) ==
    IF Paired(text, i)
    THEN Item(CASE text[i] = "~" -> "~=" [] text[i] = "!" -> "!=" [] text[i] = "=" -> "==",
              <<text[i], "=">>)
    ELSE Item(IF text[i] = "~" THEN "error" ELSE text[i], <<text[i]>>)

\* A keyword is an identifier until the parser asks for an operator.
IDOrKeyword(lit) ==
    Item(IF Len(lit) = 1 /\ lit[1] \in Keyword THEN lit[1] ELSE "id", lit)

\* One turn of scan reads a token. What follows "@" is one value up to the next
\* comma, blanks included.
ScanTurn(text, s) ==
    LET i == SelectInSubSeq(text, s.from, Len(text), LAMBDA c : c # Blank)
        j == EndOfRun(text, i, LAMBDA c : c \in Special \cup {Blank})
        k == EndOfRun(text, i + 1, LAMBDA c : c = ",")
        read(items, from) == [items |-> s.items \o items, from |-> from]
    IN CASE i = 0 -> s
         [] i # 0 /\ text[i] = "@" ->
                read(<<Item("@", <<"@">>), Item("id", SubSeq(text, i + 1, k))>>, k + 1)
         [] i # 0 /\ text[i] \in Special \ {"@"} ->
                read(<<SpecialSymbol(text, i)>>, i + Width(text, i))
         [] OTHER -> read(<<IDOrKeyword(SubSeq(text, i, j))>>, j + 1)

scan(text) ==
    LET end == Loop(LAMBDA s : ScanTurn(text, s), [items |-> <<>>, from |-> 1], Len(text))
    IN Append(end.items, Item("end", Empty))

-----------------------------------------------------------------------------
(* Validation. *)

Letter == {"a", "1"} \cup Keyword
IsQualifiedName(key) == key # Empty /\ ToSet(key) \subseteq Letter
IsValidLabelValue(v) == ToSet(v) \subseteq Letter
IsValidSelectorWildcardValue(v) == ToSet(v) \subseteq Letter \cup Wildcard

\* ParseInt: the digit is always 1, so a number is as large as it is long.
IsNumber(v) == v # Empty /\ ToSet(v) = {"1"}
ParseInt(v) == Len(v)

\* Of the constraints of the semver library: comparisons with a whole number, or
\* any number, separated by commas or blanks, which all have to be met.
ComparisonOp == {<<>>, <<"=">>, <<"!", "=">>, <<">">>, <<"<">>, <<"~">>, <<">", "=">>,
                 <<"=", ">">>, <<"<", "=">>, <<"=", "<">>, <<"~", ">">>}
Comparisons(v) ==
    LET cuts == {0, Len(v) + 1} \cup
            {i \in DOMAIN v : v[i] = "," \/ (v[i] = Blank /\ i > 1 /\ v[i - 1] \in {"1", "*"})}
        cut == {SubSeq(v, p[1] + 1, p[2] - 1) : p \in
                {p \in cuts \X cuts : p[1] < p[2] /\ ~\E c \in cuts : p[1] < c /\ c < p[2]}}
    IN {SelectSeq(c, LAMBDA x : x # Blank) : c \in cut} \ {<<>>}
OpLen(c) == Cardinality({i \in DOMAIN c : c[i] \notin {"1", "*"}})
IsComparison(c) ==
    /\ SubSeq(c, 1, OpLen(c)) \in ComparisonOp
    /\ LET n == SubSeq(c, OpLen(c) + 1, Len(c)) IN IsNumber(n) \/ c = <<"*">>
IsValidConstraint(v) == Comparisons(v) # {} /\ \A c \in Comparisons(v) : IsComparison(c)

Meets(c, version) ==
    LET op == ToSet(SubSeq(c, 1, OpLen(c)))
        n == Len(c) - OpLen(c)
        less == Len(version) < n
        same == Len(version) = n
    IN CASE c = <<"*">> -> TRUE
         [] "!" \in op -> ~same
         [] "~" \in op \/ op \subseteq {"="} -> same
         [] op = {">"} -> ~less /\ ~same
         [] op = {">", "="} -> ~less
         [] op = {"<"} -> less
         [] op = {"<", "="} -> less \/ same
Satisfy(v, version) == \A c \in Comparisons(v) : Meets(c, version)

ExactOp == {"=", "==", "!="}
SetOp == {"in", "notin"}
NumberOp == {">", "<"}
UnaryOp == {"exists", "!"}
Operator == ExactOp \cup SetOp \cup NumberOp \cup UnaryOp \cup {"~=", "@"}

validateSelectorValue(op, v) ==
    CASE op \in ExactOp \cup SetOp -> IsValidLabelValue(v)
      [] op \in NumberOp -> IsNumber(v)
      [] op = "~=" -> IsValidSelectorWildcardValue(v)
      [] op = "@" -> IsValidConstraint(v)

AnyRequirement == [key : Seq(Char), operator : Operator, values : SUBSET Seq(Char)]

Requirement(key, op, values) == [key |-> key, operator |-> op, values |-> values]

\* NewRequirement returns no error.
IsRequirement(r) ==
    /\ IsQualifiedName(r.key)
    /\ CASE r.operator \in SetOp -> r.values # {}
         [] r.operator \in UnaryOp -> r.values = {}
         [] OTHER -> \E v \in r.values : r.values = {v}
    /\ \A v \in r.values : validateSelectorValue(r.operator, v)

-----------------------------------------------------------------------------
(* The parser. *)

Failed == [outcome |-> "error"]
Values(vs, next) == [outcome |-> "ok", values |-> vs, next |-> next]
Reading(vs, next) == [outcome |-> "reading", values |-> vs, next |-> next]

\* Where the slice of items is read past its end Go panics.
Tok(items, p) == IF p \in DOMAIN items THEN items[p].tok ELSE "panic"

\* A token that is not expected is refused, if it can be read.
Refusal(items, p) == IF Tok(items, p) = "panic" THEN "panic" ELSE "error"
Refused(items, p) == [outcome |-> Refusal(items, p)]

\* lookahead and consume in the context of values.
ValueTok(items, p) == IF Tok(items, p) \in Keyword THEN "id" ELSE Tok(items, p)

\* One turn of parseIdentifiersList: a comma after a comma is read with it, and
\* the parenthesis at the end is left to parseValues.
ListTurn(items, list) ==
    LET p == list.next
        s == list.values
        tok == ValueTok(items, p)
        next == ValueTok(items, p + 1)
        with == IF s = {} THEN {Empty} ELSE s
    IN CASE list.outcome # "reading" -> list
         [] list.outcome = "reading" /\ tok = "id" /\ next = "," ->
                Reading(s \cup {items[p].lit}, p + 1)
         [] list.outcome = "reading" /\ tok = "id" /\ next = ")" ->
                Values(s \cup {items[p].lit}, p + 1)
         [] list.outcome = "reading" /\ tok = "," /\ next = ")" -> Values(with \cup {Empty}, p + 1)
         [] list.outcome = "reading" /\ tok = "," /\ next = "," ->
                Reading(with \cup {Empty}, p + 2)
         [] list.outcome = "reading" /\ tok = "," /\ next \notin {")", ","} ->
                Reading(with, p + 1)
         [] OTHER -> [list EXCEPT !.outcome = Refusal(items, IF tok = "id" THEN p + 1 ELSE p)]

parseIdentifiersList(items, p) ==
    Loop(LAMBDA list : ListTurn(items, list), Reading({}, p), Len(items))

\* The parenthesis behind a list.
Closed(list) == IF list.outcome = "ok" THEN [list EXCEPT !.next = @ + 1] ELSE list

Listed(items, p) == Closed(parseIdentifiersList(items, p))

\* Mutant: "()" is a list without values.
ValuesOfNone(items, p) ==
    IF Tok(items, p) # "(" THEN Refused(items, p)
    ELSE IF ValueTok(items, p + 1) = ")" THEN Values({}, p + 2)
    ELSE Listed(items, p + 1)

\* The list in parentheses; "()" has the empty value.
parseValues(items, p) ==
    IF Tok(items, p) # "(" THEN Refused(items, p)
    ELSE CASE ValueTok(items, p + 1) \in {"id", ","} -> Listed(items, p + 1)
           [] ValueTok(items, p + 1) = ")" -> Values({Empty}, p + 2)
           [] OTHER -> Refused(items, p + 1)

\* Mutant: the end of the text, and a comma, are consumed.
ExactValueConsumed(items, p) ==
    CASE ValueTok(items, p) \in {"end", ","} -> Values({Empty}, p + 1)
      [] ValueTok(items, p) = "id" -> Values({items[p].lit}, p + 1)
      [] OTHER -> Refused(items, p)

\* The end of the text and a comma are left for parse.
parseExactValue(items, p) ==
    CASE ValueTok(items, p) \in {"end", ","} -> Values({Empty}, p)
      [] ValueTok(items, p) = "id" -> Values({items[p].lit}, p + 1)
      [] OTHER -> Refused(items, p)

parseSemverValue(items, p) ==
    IF Tok(items, p) = "id" THEN Values({items[p].lit}, p + 1) ELSE Refused(items, p)

\* NewRequirement is given what was parsed.
NewRequirement(key, op, parsed) ==
    LET r == Requirement(key, op, parsed.values)
    IN CASE parsed.outcome # "ok" -> parsed
         [] parsed.outcome = "ok" /\ IsRequirement(r) ->
                [outcome |-> "ok", requirement |-> r, next |-> parsed.next]
         [] OTHER -> Failed

\* The key at p, its operator, its values.
parseRequirement(items, p) ==
    LET negated == Tok(items, p) = "!"
        k == IF negated THEN p + 1 ELSE p
        op == Tok(items, k + 1)
        parsed == CASE negated -> Values({}, k + 1)
                    [] ~negated /\ op \in {"end", ","} -> Values({}, k + 1)
                    [] ~negated /\ op \in SetOp -> parseValues(items, k + 2)
                    [] ~negated /\ op \in ExactOp \cup NumberOp \cup {"~="} ->
                            parseExactValue(items, k + 2)
                    [] ~negated /\ op = "@" -> parseSemverValue(items, k + 2)
                    [] OTHER -> Refused(items, k + 1)
        operator == IF negated THEN "!" ELSE IF op \in {"end", ","} THEN "exists" ELSE op
    IN IF ValueTok(items, k) # "id" THEN Refused(items, k)
       ELSE IF op = "panic" THEN Refused(items, k + 1)
       ELSE NewRequirement(items[k].lit, operator, parsed)

\* ByKey orders keys as strings; here a piece sorts as its first character.
Rank == [c \in {"1", "a", "in", "notin"} |->
            IF c = "1" THEN 1 ELSE IF c = "a" THEN 2 ELSE IF c = "in" THEN 3 ELSE 4]
Before(s, t) ==
    \E n \in 0 .. Len(s) :
        /\ n < Len(t) /\ \A i \in 1 .. n : s[i] = t[i]
        /\ n = Len(s) \/ Rank[s[n + 1]] < Rank[t[n + 1]]

\* A requirement goes behind those of sorted ones that it does not sort before.
Inserted(sorted, r) ==
    InsertAt(sorted, 1 + Cardinality({i \in DOMAIN sorted : ~Before(r.key, sorted[i].key)}), r)

\* Requirements with the same key stay in order: sort.Sort inserts one by one
\* where they are fewer than a dozen.
Sorted(rs) ==
    LET first[n \in 0 .. Len(rs)] == IF n = 0 THEN <<>> ELSE Inserted(first[n - 1], rs[n])
    IN first[Len(rs)]

\* What is behind a requirement: the end, or a comma and the next one.
Behind(items, s, r) ==
    LET after == ValueTok(items, r.next)
        ends(outcome) == [s EXCEPT !.outcome = outcome]
        read(outcome) == [outcome |-> outcome, next |-> r.next + 1,
                          requirements |-> Append(s.requirements, r.requirement)]
    IN CASE r.outcome # "ok" -> ends(r.outcome)
         [] r.outcome = "ok" /\ after = "end" -> read("ok")
         [] r.outcome = "ok" /\ after = "," ->
               IF ValueTok(items, r.next + 1) \in {"id", "!"} THEN read("reading")
               ELSE ends(Refusal(items, r.next + 1))
         [] OTHER -> ends(Refusal(items, r.next))

\* One turn of parse reads a requirement and what is behind it.
ParseTurn(items, s) ==
    LET tok == ValueTok(items, s.next)
        ends(outcome) == [s EXCEPT !.outcome = outcome]
    IN CASE s.outcome # "reading" -> s
         [] s.outcome = "reading" /\ tok = "end" -> ends("ok")
         [] s.outcome = "reading" /\ tok \notin {"end", "id", "!"} -> ends(Refusal(items, s.next))
         [] OTHER -> Behind(items, s, parseRequirement(items, s.next))

Parsed(end) ==
    IF end.outcome = "ok" THEN [outcome |-> "ok", requirements |-> Sorted(end.requirements)]
    ELSE [outcome |-> end.outcome]

parse(text) ==
    LET items == scan(text)
    IN Parsed(Loop(LAMBDA s : ParseTurn(items, s),
                   [outcome |-> "reading", next |-> 1, requirements |-> <<>>], Len(items)))

-----------------------------------------------------------------------------
(* Requirement.String and internalSelector.String. *)

\* Values are printed in order: the empty one comes first.
Joined(values) ==
    LET rest == SetToSeq(values \ {Empty})
        all == IF Empty \in values THEN <<Empty>> \o rest ELSE rest
    IN FoldLeft(LAMBDA text, i : text \o (IF i = 1 THEN <<>> ELSE <<",">>) \o all[i],
                <<>>, [i \in DOMAIN all |-> i])

\* Mutant: parentheses only where there are several values.
PrintedBare(r) ==
    r.key \o (IF r.operator \in SetOp THEN <<Blank, r.operator, Blank>> ELSE <<r.operator>>)
    \o (IF Cardinality(r.values) > 1 THEN <<"(">> \o Joined(r.values) \o <<")">>
        ELSE Joined(r.values))

Printed(r) ==
    CASE r.operator = "!" -> <<"!">> \o r.key
      [] r.operator = "exists" -> r.key
      [] r.operator \in SetOp ->
            r.key \o <<Blank, r.operator, Blank, "(">> \o Joined(r.values) \o <<")">>
      [] r.operator \in {"==", "!=", "~="} ->
            r.key \o <<IF r.operator = "!=" THEN "!" ELSE IF r.operator = "==" THEN "=" ELSE "~",
                       "=">> \o Joined(r.values)
      [] OTHER -> r.key \o <<r.operator>> \o Joined(r.values)

String(rs) ==
    FoldLeft(LAMBDA text, i : text \o (IF i = 1 THEN <<>> ELSE <<",">>) \o Printed(rs[i]),
             <<>>, [i \in DOMAIN rs |-> i])
=============================================================================

----------------------------- MODULE Selectors -----------------------------
(* Package label and LabelSelectorFilter of picker/filter.go: a program      *)
(* writes a selector, parses it or makes one from labels, adds requirements, *)
(* and matches it with the attributes of nodes. Labels have sets of values.  *)
EXTENDS SelectorParser, Filters

CONSTANTS
    Piece,              \* what a text is written with
    Starts,             \* the texts writing begins with
    MaxPieces,          \* bound: pieces written after the start
    MaxRequirements,    \* bound: requirements of a selector that is added to
    Requirements,       \* requirements the program adds
    LabelSets,          \* labels, as functions from keys to sets of values
    Attributes,         \* attributes of nodes
    NoSelector

ASSUME TextsAssumption == Piece \subseteq Char /\ Starts \subseteq Seq(Char)

ASSUME RequirementsAssumption ==
    Requirements \subseteq AnyRequirement /\ \A r \in Requirements : IsRequirement(r)

ASSUME LabelsAssumption ==
    \A ls \in LabelSets :
        /\ IsFiniteSet(DOMAIN ls) /\ DOMAIN ls \subseteq Seq(Char)
        /\ \A key \in DOMAIN ls : ls[key] \subseteq Seq(Char)

VARIABLES
    text,       \* what is written
    written,    \* how many pieces, after the start
    selector    \* its requirements, and whether they were all validated

vars == <<text, written, selector>>

-----------------------------------------------------------------------------
(* wildcard.go, over positions that start from one; star = 0 before any "*". *)

Cursor(si, pi, star, starSi) == [si |-> si, pi |-> pi, star |-> star, starSi |-> starSi]

\* A mismatch goes back to the last "*", which takes one more, or stays one.
MatchTurn(str, pattern, c) ==
    LET p == IF c.pi <= Len(pattern) THEN pattern[c.pi] ELSE "end"
    IN CASE c.si > Len(str) -> c
         [] c.si <= Len(str) /\ p = "*" -> Cursor(c.si, c.pi + 1, c.pi, c.si)
         [] c.si <= Len(str) /\ p \in {"?", str[c.si]} \ {"*"} ->
                Cursor(c.si + 1, c.pi + 1, c.star, c.starSi)
         [] OTHER -> IF c.star = 0 THEN c
                     ELSE Cursor(c.starSi + 1, c.star + 1, c.star, c.starSi + 1)

deepMatch(str, pattern) ==
    LET end == Loop(LAMBDA c : MatchTurn(str, pattern, c), Cursor(1, 1, 0, 1),
                    (Len(str) + 1) * (Len(pattern) + 1))
    IN end.si > Len(str) /\ \A i \in end.pi .. Len(pattern) : pattern[i] = "*"

\* Mutant: a mismatch gives up where the code backtracks to the last "*".
MatchWithoutBacktracking(pattern, name) ==
    LET stars == {i \in DOMAIN pattern : pattern[i] = "*"}
    IN IF stars = {} THEN deepMatch(name, pattern)
       ELSE LET i == CHOOSE i \in stars : \A j \in stars : i <= j
            IN deepMatch(SubSeq(name, 1, i - 1), SubSeq(pattern, 1, i - 1))

Match(pattern, name) ==
    CASE pattern = Empty -> name = Empty
      [] pattern = <<"*">> -> TRUE
      [] OTHER -> deepMatch(name, pattern)

-----------------------------------------------------------------------------
(* Requirement.Matches. The values of a key are iterated in any order. *)

Has(ls, key) == key \in DOMAIN ls
The(r) == CHOOSE v \in r.values : TRUE

Exceeds(r, v) ==
    IF r.operator = ">" THEN ParseInt(v) > ParseInt(The(r)) ELSE ParseInt(v) < ParseInt(The(r))

\* The answers comparing numbers may give: a value that is no number ends the
\* iteration, and so does one that is as large or small as required.
Comparing(r, values) ==
    LET good == {v \in values : IsNumber(v) /\ Exceeds(r, v)}
    IN (IF good # {} THEN {TRUE} ELSE {})
       \cup (IF good = {} \/ \E v \in values : ~IsNumber(v) THEN {FALSE} ELSE {})

\* Mutant: a version that cannot be parsed ends the iteration as well.
SatisfyingOrStop(r, values) ==
    LET good == {v \in values : IsNumber(v) /\ Satisfy(The(r), v)}
    IN (IF good # {} THEN {TRUE} ELSE {})
       \cup (IF good = {} \/ \E v \in values : ~IsNumber(v) THEN {FALSE} ELSE {})

\* A version that cannot be parsed is passed over.
Satisfying(r, values) == {\E v \in values : IsNumber(v) /\ Satisfy(The(r), v)}

MatchesOne(r, ls) ==
    CASE r.operator \in {"in", "=", "=="} ->
            {Has(ls, r.key) /\ r.values \cap ls[r.key] # {}}
      [] r.operator \in {"notin", "!="} -> {Has(ls, r.key) => r.values \cap ls[r.key] = {}}
      [] r.operator = "exists" -> {Has(ls, r.key)}
      [] r.operator = "!" -> {~Has(ls, r.key)}
      [] r.operator \in NumberOp -> IF Has(ls, r.key) THEN Comparing(r, ls[r.key]) ELSE {FALSE}
      [] r.operator = "@" -> IF Has(ls, r.key) THEN Satisfying(r, ls[r.key]) ELSE {FALSE}
      [] r.operator = "~=" -> {Has(ls, r.key) /\ \E v \in ls[r.key] : Match(The(r), v)}

\* The answers a selector may give: all its requirements match, or one does not.
Matches(rs, ls) ==
    {b \in BOOLEAN : IF b THEN \A i \in DOMAIN rs : TRUE \in MatchesOne(rs[i], ls)
                     ELSE \E i \in DOMAIN rs : FALSE \in MatchesOne(rs[i], ls)}

\* Mutant: the number of values is not looked at.
SingleAlways(r) == TRUE

Single(r) == \E v \in r.values : r.values = {v}

\* RequiresExactMatch looks at the first requirement of the key only.
RequiresExactMatch(rs, key) ==
    LET i == SelectInSeq(rs, LAMBDA r : r.key = key)
    IN IF i = 0 THEN {}
       ELSE IF rs[i].operator \in {"=", "==", "in"} /\ Single(rs[i]) THEN {The(rs[i])} ELSE {}

-----------------------------------------------------------------------------
(* LabelSelectorFilter and the labels it finds in attributes. *)

\* Mutant: attributes only, no metadata.
getSetDirect(attrs, key) ==
    IF key \in DOMAIN attrs.direct /\ attrs.direct[key] # OtherType THEN {attrs.direct[key]} ELSE {}

\* The attribute of that key, if it can be converted, or else the metadata.
getSet(attrs, key) ==
    IF key \in DOMAIN attrs.direct /\ attrs.direct[key] # OtherType THEN {attrs.direct[key]}
    ELSE IF HasMetadata(attrs) /\ key \in DOMAIN attrs.metadata THEN {{attrs.metadata[key]}}
    ELSE {}

\* Those labels of the keys that are asked for.
attrsLabels(attrs, keys) ==
    [key \in {k \in keys : getSet(attrs, k) # {}} |-> CHOOSE s \in getSet(attrs, key) : TRUE]

LabelSelectorFilter(rs, attrs) ==
    IF attrs = Absent THEN {rs = <<>>}
    ELSE Matches(rs, attrsLabels(attrs, {rs[i].key : i \in DOMAIN rs}))

-----------------------------------------------------------------------------
(* Making selectors. *)

Selector(rs, checked) == [requirements |-> rs, checked |-> checked]

Init ==
    /\ text \in Starts
    /\ written = 0
    /\ selector = NoSelector

Write(c) ==
    /\ selector = NoSelector
    /\ written < MaxPieces
    /\ text' = Append(text, c)
    /\ written' = written + 1
    /\ UNCHANGED selector

ParseSelector ==
    /\ selector = NoSelector
    /\ parse(text).outcome = "ok"
    /\ selector' = Selector(parse(text).requirements, TRUE)
    /\ UNCHANGED <<text, written>>

\* One requirement for each key, in the order of the keys. SelectorFromSet does
\* not validate them, ValidatedSelectorFromSet wants one valid value for each.
EqualTo(ls) ==
    Sorted(SetToSeq({Requirement(key, "=", ls[key]) : key \in DOMAIN ls}))

SelectorFromSet(ls) ==
    /\ selector = NoSelector
    /\ written = 0
    /\ selector' = Selector(EqualTo(ls), \A i \in DOMAIN EqualTo(ls) : IsRequirement(EqualTo(ls)[i]))
    /\ UNCHANGED <<text, written>>

\* Requirements made with NewRequirement are added to a copy.
Add(r) ==
    /\ selector # NoSelector
    /\ Len(selector.requirements) < MaxRequirements
    /\ selector' = [selector EXCEPT !.requirements = Sorted(Append(@, r))]
    /\ UNCHANGED <<text, written>>

Next ==
    \/ \E c \in Piece : Write(c)
    \/ ParseSelector
    \/ \E ls \in LabelSets : SelectorFromSet(ls)
    \/ \E r \in Requirements : Add(r)

Spec == Init /\ [][Next]_vars

-----------------------------------------------------------------------------
(***************************************************************************)
(* What a text means, by cutting it at commas. It is what the code accepts *)
(* and not the form in the comment above ParseSelector, which FollowsForm  *)
(* below states: the code reads "=", ">" and "<" as well and the empty     *)
(* text, and refuses "!" with a restriction behind the key.                *)
(***************************************************************************)

Items == SubSeq(scan(text), 1, Len(scan(text)) - 1)
Toks(items) == [i \in DOMAIN items |-> ValueTok(items, i)]

\* Between two cuts there is one element; a comma inside parentheses cuts none.
Cut(toks, at(_)) ==
    LET cuts == {0, Len(toks) + 1} \cup {i \in DOMAIN toks : toks[i] = "," /\ at(i)}
    IN {<<p[1] + 1, p[2] - 1>> : p \in
            {p \in cuts \X cuts : p[1] < p[2] /\ ~\E c \in cuts : p[1] < c /\ c < p[2]}}

Inside(toks, i) ==
    Cardinality({j \in 1 .. i : toks[j] = "("}) > Cardinality({j \in 1 .. i : toks[j] = ")"})

\* The values of a list in parentheses: VALUE or VALUE "," values, where a value
\* may be empty. The code refuses a list that ends in an even number of commas.
TrailingCommas(toks) ==
    Len(toks) - SelectLastInSeq(toks, LAMBDA t : t # ",")
IsList(items) ==
    LET toks == Toks(items)
    IN /\ \A p \in Cut(toks, LAMBDA i : TRUE) : p[1] > p[2] \/ (p[1] = p[2] /\ toks[p[1]] = "id")
       /\ TrailingCommas(toks) = 0 \/ TrailingCommas(toks) % 2 = 1
ListValues(items) ==
    {IF p[1] > p[2] THEN Empty ELSE items[p[1]].lit : p \in Cut(Toks(items), LAMBDA i : TRUE)}

\* The one requirement that items are read as, or none.
ReadAs(items) ==
    LET n == Len(items)
        op == Tok(items, 2)
        candidates ==
            CASE n = 1 -> {Requirement(items[1].lit, "exists", {})}
              [] n = 2 /\ items[1].tok = "!" -> {Requirement(items[2].lit, "!", {})}
              [] n = 2 /\ op \in ExactOp \cup NumberOp \cup {"~="} ->
                    {Requirement(items[1].lit, op, {Empty})}
              [] n = 3 /\ op \in ExactOp \cup NumberOp \cup {"~=", "@"} /\ ValueTok(items, 3) = "id" ->
                    {Requirement(items[1].lit, op, {items[3].lit})}
              [] n >= 4 /\ op \in SetOp /\ items[3].tok = "(" /\ items[n].tok = ")"
                 /\ IsList(SubSeq(items, 4, n - 1)) ->
                    {Requirement(items[1].lit, op, ListValues(SubSeq(items, 4, n - 1)))}
              [] OTHER -> {}
    IN {r \in candidates : IsRequirement(r) /\
            ValueTok(items, IF r.operator = "!" THEN 2 ELSE 1) = "id"}

\* A text is empty or a list of requirements.
Parts == {ReadAs(SubSeq(Items, p[1], p[2])) :
            p \in Cut(Toks(Items), LAMBDA i : ~Inside(Toks(Items), i))}

-----------------------------------------------------------------------------
(* Properties *)

Unblank(t) == SelectSeq(t, LAMBDA c : c # Blank)

\* What the parser reads is there: it never runs past the token that ends the
\* text, whatever the text, and comes to an end.
NeverPanics == selector = NoSelector => parse(text).outcome \in {"ok", "error"}

\* The lexer looks ahead, unreads, and has a mode of its own after "@", and yet
\* every character of a text is in one token.
NothingLost ==
    selector = NoSelector =>
        Unblank(FlattenSeq([i \in DOMAIN Items |-> Items[i].lit])) = Unblank(text)

\* A comma ends a requirement or parts the values of a list, and may stand for an
\* empty value: the parser, which looks ahead by one token, accepts a text if each of
\* its parts can be read by itself, and reads the requirements of the parts.
ParsesParts ==
    LET p == parse(text)
    IN selector = NoSelector =>
        /\ p.outcome = "ok" <=> Items = <<>> \/ {} \notin Parts
        /\ p.outcome = "ok" /\ Items # <<>> => ToSet(p.requirements) = UNION Parts

\* A selector that is printed and parsed again is the same, so that it can be
\* kept as text, if its requirements were validated; but a comma in a constraint,
\* which a text cannot have, is taken for the end of the requirement.
ReprintParses ==
    (/\ selector # NoSelector
     /\ selector.checked
     /\ \A r \in ToSet(selector.requirements) : r.operator = "@" => "," \notin ToSet(The(r)))
    => parse(String(selector.requirements)) =
            [outcome |-> "ok", requirements |-> selector.requirements]

\* Any text is read with nothing lost, and means what its parts mean or is refused;
\* and what is printed means what it was printed from.
TextsKeepMeaning == NothingLost /\ ParsesParts /\ ReprintParses

\* <requirement>: [!] KEY, then nothing, a list in parentheses, or an operator and a
\* VALUE, which may be empty.
InForm(items) ==
    LET k == IF Tok(items, 1) = "!" THEN 2 ELSE 1
        rest == SubSeq(items, k + 1, Len(items))
        op == Tok(rest, 1)
    IN /\ ValueTok(items, k) = "id"
       /\ \/ rest = <<>>
          \/ op \in SetOp /\ Tok(rest, 2) = "(" /\ Tok(rest, Len(rest)) = ")"
          \/ /\ op \in {"~=", "==", "!=", "@"}
             /\ Len(rest) = 1 \/ (Len(rest) = 2 /\ ValueTok(rest, 2) = "id")

\* parse.go, line 508: "The input will cause an error if it does not follow this
\* form". A text with requirements that is accepted follows it.
FollowsForm ==
    selector = NoSelector /\ parse(text).outcome = "ok" /\ Items # <<>> =>
        \A p \in Cut(Toks(Items), LAMBDA i : ~Inside(Toks(Items), i)) :
            InForm(SubSeq(Items, p[1], p[2]))

\* The pieces of the name from n on can be given to those of the pattern from p
\* on, at[i] being where those of the i-th begin: any number to "*", one to others.
Assignable(pattern, name, p, n) ==
    \E at \in [p .. Len(pattern) + 1 -> 1 .. Len(name) + 1] :
        /\ at[p] = n
        /\ at[Len(pattern) + 1] = Len(name) + 1
        /\ \A i \in p .. Len(pattern) :
            IF pattern[i] = "*" THEN at[i] <= at[i + 1]
            ELSE /\ at[i] <= Len(name)
                 /\ pattern[i] \in {"?", name[at[i]]}
                 /\ at[i + 1] = at[i] + 1

\* Backtracking to the last "*" only is enough: a name matches a pattern if its
\* pieces can be given to those of the pattern in any way.
WildcardAgrees ==
    (selector # NoSelector /\ Len(selector.requirements) = 1
        /\ selector.requirements[1].operator = "~=")
    => LET pattern == The(selector.requirements[1])
       IN \A name \in UNION {UNION {ls[key] : key \in DOMAIN ls} : ls \in LabelSets} :
            Match(pattern, name) <=> Assignable(pattern, name, 1, 1)

\* A node that is asked twice gives one answer, although the values of a label
\* are iterated in any order, unless a comparison of numbers meets other values.
AnswersOnce ==
    selector # NoSelector =>
        \A ls \in LabelSets :
            \/ Cardinality(Matches(selector.requirements, ls)) = 1
            \/ \E r \in ToSet(selector.requirements) :
                /\ r.operator \in NumberOp /\ Has(ls, r.key)
                /\ \E v, w \in ls[r.key] : IsNumber(v) /\ ~IsNumber(w)

\* If a selector says that it requires a value then no labels without it match,
\* whatever other requirements there are of the same key.
ExactMatchIsRequired ==
    selector # NoSelector =>
        \A ls \in LabelSets : TRUE \in Matches(selector.requirements, ls) =>
            \A key \in {r.key : r \in ToSet(selector.requirements)} :
                \A v \in RequiresExactMatch(selector.requirements, key) :
                    Has(ls, key) /\ v \in ls[key]

\* "If a key is not found directly, it will also try to read from the reserved
\* metadata map": a selector "key=value" keeps the nodes MetadataFilter keeps,
\* but for the empty value, which MetadataFilter also finds where there is no key.
SelectsByMetadata ==
    (selector # NoSelector /\ Len(selector.requirements) = 1
        /\ selector.requirements[1].operator = "="
        /\ selector.requirements[1].values # {Empty} /\ selector.checked)
    => LET r == selector.requirements[1]
       IN \A attrs \in Attributes :
            (attrs = Absent \/ r.key \notin DOMAIN attrs.direct \/ attrs.direct[r.key] = OtherType)
            => LabelSelectorFilter(<<r>>, attrs) = {MetadataFilter(r.key, The(r), attrs)}
=============================================================================

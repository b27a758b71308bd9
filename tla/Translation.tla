----------------------------- MODULE Translation -----------------------------
(***************************************************************************)
(* CSSToXPath of core/translator/translator.go.  A selector is a sequence  *)
(* of tokens: punctuation, and names, which never stand side by side.      *)
(* Escapes are left out; the translator refuses them outside of values.    *)
(***************************************************************************)
EXTENDS Sequences, SequencesExt, Integers, FiniteSets, FiniteSetsExt

Punctuation == {".", "#", "*", "[", "]", "=", "*=", ">", " ", ",", "'", "\"", "::", "text", "attr", "(", ")"}
IsName(t) == t \notin Punctuation
Quotes == {"'", "\""}

\* strings.TrimSpace, and strings.Trim of quotes
Trimmed(tokens, cut) ==
    LET kept == {i \in DOMAIN tokens : tokens[i] \notin cut}
    IN  IF kept = {} THEN <<>> ELSE SubSeq(tokens, Min(kept), Max(kept))
TrimSpace(tokens) == Trimmed(tokens, {" "})

----------------------------------------------------------------------------
(* Taking a selector apart *)

\* What is open behind each token: a quote, brackets, parentheses.
Open(tokens) ==
    LET step(s, t) ==
            CASE s.quote # "" -> [s EXCEPT !.quote = IF t = @ THEN "" ELSE @]
              [] t \in Quotes -> [s EXCEPT !.quote = t]
              [] t = "[" -> [s EXCEPT !.brackets = @ + 1]
              [] t = "]" -> [s EXCEPT !.brackets = IF @ > 0 THEN @ - 1 ELSE 0]
              [] t = "(" -> [s EXCEPT !.parens = @ + 1]
              [] t = ")" -> [s EXCEPT !.parens = IF @ > 0 THEN @ - 1 ELSE 0]
              [] OTHER -> s
        state[i \in 0..Len(tokens)] ==
            IF i = 0 THEN [quote |-> "", brackets |-> 0, parens |-> 0] ELSE step(state[i - 1], tokens[i])
    IN  state
TopLevel(s) == s.quote = "" /\ s.brackets = 0 /\ s.parens = 0
\* The places of the tokens `ts` outside of everything.
TopLevelPlaces(tokens, ts) ==
    LET open == Open(tokens) IN {i \in DOMAIN tokens : tokens[i] \in ts /\ TopLevel(open[i - 1])}
\* parseCSSSteps does not count parentheses.
StepPlaces(tokens) ==
    LET open == Open(tokens)
    IN  {i \in DOMAIN tokens : /\ tokens[i] \in {" ", ">"}
                               /\ open[i - 1].quote = "" /\ open[i - 1].brackets = 0}

\* The parts between the places.
Parts(tokens, places) ==
    LET cuts == SetToSortSeq(places \cup {0, Len(tokens) + 1}, <)
    IN  [i \in 1..(Len(cuts) - 1) |-> [after |-> cuts[i], tokens |-> SubSeq(tokens, cuts[i] + 1, cuts[i + 1] - 1)]]

\* selectorBranches without an identifier
SelectorBranches(selector) ==
    LET parts == Parts(selector, TopLevelPlaces(selector, {","}))
        trimmed == [i \in DOMAIN parts |-> TrimSpace(parts[i].tokens)]
        branches == SelectSeq(trimmed, LAMBDA p : p # <<>>)
    IN  IF branches = <<>> THEN <<selector>> ELSE branches

Element == <<"element">>
BadExtraction == <<"bad">>
\* parseCSSExtraction: the last "::" at top level, and what follows it.
ParseCSSExtraction(selector) ==
    LET trimmed == TrimSpace(selector)
        places == TopLevelPlaces(trimmed, {"::"})
        at == Max(places)
        base == TrimSpace(SubSeq(trimmed, 1, at - 1))
        pseudo == SubSeq(trimmed, at + 1, Len(trimmed))
        name == TrimSpace(Trimmed(TrimSpace(SubSeq(pseudo, 3, Len(pseudo) - 1)), Quotes))
    IN  IF places = {} THEN [base |-> trimmed, extraction |-> Element]
        ELSE [base |-> IF base = <<>> THEN <<"*">> ELSE base,
              extraction |->
                IF pseudo = <<"text">> THEN <<"text">>
                ELSE IF /\ Len(pseudo) > 2 /\ SubSeq(pseudo, 1, 2) = <<"attr", "(">> /\ Last(pseudo) = ")"
                        /\ name # <<>> /\ " " \notin ToSet(name)
                THEN <<"attr">> \o name ELSE BadExtraction]

\* Mutant: a space behind ">" makes it a descendant again.
ParseCSSStepsSpaced(selector) ==
    LET parts == Parts(selector, StepPlaces(selector))
        full == SelectSeq([i \in DOMAIN parts |-> i], LAMBDA i : parts[i].tokens # <<>>)
    IN  [j \in DOMAIN full |->
            [child |-> parts[full[j]].after # 0 /\ selector[parts[full[j]].after] = ">",
             tokens |-> parts[full[j]].tokens]]
\* parseCSSSteps: a part is a child of the one before it if there is a ">" between them.
ParseCSSSteps(selector) ==
    LET parts == Parts(selector, StepPlaces(selector))
        full == SelectSeq([i \in DOMAIN parts |-> i], LAMBDA i : parts[i].tokens # <<>>)
        since(j) == IF j = 1 THEN 0 ELSE parts[full[j - 1]].after
    IN  [j \in DOMAIN full |->
            [child |-> \E i \in StepPlaces(selector) : since(j) < i /\ i <= parts[full[j]].after /\ selector[i] = ">",
             tokens |-> parts[full[j]].tokens]]

----------------------------------------------------------------------------
(* One step *)

Test(kind, name, value) == [kind |-> kind, name |-> name, value |-> value]
Bad == Test("bad", <<>>, <<>>)

\* cssAttributePredicate: the first "*=" counts, else the first "=", in a quote or not.
AttributePredicate(content) ==
    LET cut(op) == LET at == Min({i \in DOMAIN content : content[i] = op}) IN
                   [name |-> TrimSpace(SubSeq(content, 1, at - 1)),
                    value |-> TrimSpace(Trimmed(TrimSpace(SubSeq(content, at + 1, Len(content))), Quotes))]
    IN  CASE content = <<>> -> Bad
          [] "*=" \in ToSet(content) ->
                LET c == cut("*=") IN IF <<>> \in {c.name, c.value} THEN Bad ELSE Test("contains", c.name, c.value)
          [] "*=" \notin ToSet(content) /\ "=" \in ToSet(content) ->
                LET c == cut("=") IN IF c.name = <<>> THEN Bad ELSE Test("equals", c.name, c.value)
          [] OTHER -> Test("has", content, <<>>)

\* Mutant: a bracket in a quoted value closes the test.
ClosingBracketAny(tokens, i) == {j \in (i + 1)..Len(tokens) : tokens[j] = "]"}
\* readAttributePredicate: the closing brackets outside of the quotes that are opened
\* behind token i.
ClosingBracket(tokens, i) ==
    LET open == Open(SubSeq(tokens, i + 1, Len(tokens)))
    IN  {j \in (i + 1)..Len(tokens) : tokens[j] = "]" /\ open[j - i - 1].quote = ""}

\* cssSimpleSelectorToXPath: a tag or none, and tests.
SimpleSelector(tokens) ==
    LET size == Len(tokens)
        first == IF IsName(tokens[1]) \/ tokens[1] = "*" THEN 2 ELSE 1
        from[i \in first..(size + 1)] ==
            IF i > size THEN <<>>
            ELSE CASE tokens[i] \in {".", "#"} ->
                        IF i = size \/ ~IsName(tokens[i + 1]) THEN <<Bad>>
                        ELSE <<Test(tokens[i], <<>>, <<tokens[i + 1]>>)>> \o from[i + 2]
                   [] tokens[i] = "[" ->
                        LET ends == ClosingBracket(tokens, i) IN
                        IF ends = {} THEN <<Bad>>
                        ELSE <<AttributePredicate(TrimSpace(SubSeq(tokens, i + 1, Min(ends) - 1)))>>
                                \o from[Min(ends) + 1]
                   [] OTHER -> <<Bad>>
    IN  [tag |-> IF first = 2 THEN tokens[1] ELSE "*", tests |-> from[first]]

Refused == <<>>
\* CSSToXPath: for each branch its steps, anywhere below or right below the one before,
\* and what is extracted.
CSSToXPath(selector) ==
    LET branches == SelectorBranches(selector)
        branch(b) ==
            LET e == ParseCSSExtraction(b)
                steps == ParseCSSSteps(e.base)
            IN  [steps |-> [i \in DOMAIN steps |->
                                [child |-> i > 1 /\ steps[i].child, simple |-> SimpleSelector(steps[i].tokens)]],
                 extraction |-> e.extraction]
        xpaths == [i \in DOMAIN branches |-> branch(branches[i])]
    IN  IF \E i \in DOMAIN xpaths :
            \/ xpaths[i].extraction = BadExtraction \/ xpaths[i].steps = <<>>
            \/ \E s \in ToSet(xpaths[i].steps) : Bad \in ToSet(s.simple.tests)
        THEN Refused ELSE xpaths

----------------------------------------------------------------------------
(* What the translation promises *)

\* How CSS writes the parts of a selector, with or without spaces where they are free.
Spelling(selector, space, quote) ==
    LET test(t) ==
            CASE t.kind \in {".", "#"} -> <<t.kind>> \o t.value
              [] t.kind = "has" -> <<"[">> \o t.name \o <<"]">>
              [] t.kind \in {"equals", "contains"} ->
                    <<"[">> \o t.name \o space \o <<IF t.kind = "equals" THEN "=" ELSE "*=">> \o space
                        \o <<quote>> \o t.value \o <<quote, "]">>
        step(s, i) ==
            (IF i = 1 THEN <<>> ELSE IF s.child THEN space \o <<">">> \o space ELSE <<" ">>)
                \o <<s.simple.tag>> \o FlattenSeq([k \in DOMAIN s.simple.tests |-> test(s.simple.tests[k])])
        extraction(e) ==
            CASE e = Element -> <<>>
              [] e[1] = "text" -> <<"::", "text">>
              [] e[1] = "attr" -> <<"::", "attr", "(">> \o space \o SubSeq(e, 2, Len(e)) \o <<")">>
        branch(b) ==
            FlattenSeq([i \in DOMAIN b.steps |-> step(b.steps[i], i)]) \o extraction(b.extraction)
    IN  FlattenSeq([i \in DOMAIN selector |->
            (IF i = 1 THEN <<>> ELSE <<",">> \o space) \o branch(selector[i])])

\* However a selector is written, its translation has its branches, steps, tests and what
\* it extracts, none lost and none taken for another.  (CSSToXPath)
TranslatedAsMeant(selector, space, quote) == CSSToXPath(Spelling(selector, space, quote)) = selector
=============================================================================

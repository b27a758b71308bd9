-------------------------------- MODULE Pages --------------------------------
(***************************************************************************)
(* Parsed pages and what the parser finds in them: traversal, search by    *)
(* text, similar elements (parser/traversal.go, search.go), the selectors  *)
(* it makes up for an element (selector_generation.go) and how a selector  *)
(* is taken apart (document.go).  A page is the sequence of its elements   *)
(* in document order, the first of them html, each with its parent's       *)
(* position, its tag, id ("" for none), other attributes (names to the     *)
(* sets of tokens of their values) and the words of its own text, in lower *)
(* case and before any child of it.                                        *)
(***************************************************************************)
EXTENDS Integers, Sequences, SequencesExt, FiniteSets, FiniteSetsExt, Functions

----------------------------------------------------------------------------
(* Traversal *)

ParentOf(page, n) == page[n].parent     \* 0 for html
Children(page, n) == {m \in DOMAIN page : page[m].parent = n}
Siblings(page, n) == IF ParentOf(page, n) = 0 THEN {} ELSE Children(page, ParentOf(page, n)) \ {n}
\* The element and those it is in.
Lineage(page, n) ==
    LET up[m \in 0..n] == IF m = 0 THEN {} ELSE up[ParentOf(page, m)] \cup {m} IN up[n]
Ancestors(page, n) == Lineage(page, n) \ {n}
\* allDescendantElements, the element itself among them
Descendants(page, n) == {m \in DOMAIN page : m = n \/ n \in Ancestors(page, m)}
ElementDepth(page, n) == Cardinality(Ancestors(page, n))

\* What the parser makes of any HTML: one html, the root; elements in document order;
\* head, body or frameset, of which there is no other, in html.  Unique ids are up to
\* the page.
IsAttributes(attrs) == IsFiniteSet(DOMAIN attrs) /\ \A k \in DOMAIN attrs : IsFiniteSet(attrs[k])
IsElement(page, n) ==
    /\ ParentOf(page, n) \in 0..(n - 1) /\ (ParentOf(page, n) = 0 <=> n = 1)
    /\ n > 1 => ParentOf(page, n) \in Lineage(page, n - 1)
    /\ page[n].tag \in STRING \ {""} /\ (page[n].tag = "html" <=> n = 1)
    /\ ParentOf(page, n) = 1 => \A m \in DOMAIN page : page[m].tag = page[n].tag => m = n
    /\ page[n].id # "" => \A m \in DOMAIN page : page[m].id = page[n].id => m = n
    /\ IsAttributes(page[n].attrs) /\ page[n].words \in Seq(STRING)
IsPage(page) == page \in Seq(Range(page)) /\ page # <<>> /\ \A n \in DOMAIN page : IsElement(page, n)

----------------------------------------------------------------------------
(* Similarity (core/storage/score.go), counted in sixtieths: exact for sets of up to six. *)

Unit == 60
\* tokenSetSimilarity
TokenSetSimilarity(a, b) ==
    IF a = {} /\ b = {} THEN Unit
    ELSE (Unit * Cardinality(a \cap b)) \div Cardinality(a \cup b)

AttrValueTokens(attrs) == UNION {attrs[k] : k \in DOMAIN attrs}
MapKeySimilarity(a, b) == TokenSetSimilarity(DOMAIN a, DOMAIN b)
AttrValueSimilarity(a, b) ==
    IF (DOMAIN a = {}) # (DOMAIN b = {}) THEN 0
    ELSE TokenSetSimilarity(AttrValueTokens(a), AttrValueTokens(b))
StringSimilarity(a, b) == TokenSetSimilarity(ToSet(a), ToSet(b))

----------------------------------------------------------------------------
(* Search *)

NodeAttributes(node) ==
    [k \in DOMAIN node.attrs \cup (IF node.id = "" THEN {} ELSE {"id"}) |->
        IF k = "id" THEN {node.id} ELSE node.attrs[k]]

\* findAllByText and findAllByRegex below the element n: "whole" is the text itself,
\* "part" an infix of it.  The text comes normalised, as that of the page does.
FindAllByText(page, n, text, partial) ==
    {m \in Descendants(page, n) :
        IF partial THEN \E i \in 0..Len(page[m].words) : IsPrefix(text, SubSeq(page[m].words, i + 1, Len(page[m].words)))
        ELSE page[m].words = text}

IgnoredAttributes == {"href", "src"}
ComparableAttrs(node) == Restrict(NodeAttributes(node), DOMAIN NodeAttributes(node) \ IgnoredAttributes)
TagOf(page, n) == IF n = 0 THEN "" ELSE page[n].tag
Grandparent(page, n) == ParentOf(page, ParentOf(page, n))

\* attributeSimilarity, doubled
AttributeSimilarity(a, b) == MapKeySimilarity(a, b) + AttrValueSimilarity(a, b)
\* Mutant: only the candidate's links are ignored.
SimilarityOneSided(page, n, m) ==
    AttributeSimilarity(NodeAttributes(page[n]), ComparableAttrs(page[m]))
Similarity(page, n, m) == AttributeSimilarity(ComparableAttrs(page[n]), ComparableAttrs(page[m]))

\* FindSimilar, for an element that has a parent (html makes it dereference nil).  The
\* threshold comes in percent.
FindSimilar(page, n, threshold, matchText) ==
    {m \in DOMAIN page \ {n} :
        /\ TagOf(page, m) = TagOf(page, n) /\ ElementDepth(page, m) = ElementDepth(page, n)
        /\ TagOf(page, ParentOf(page, m)) = TagOf(page, ParentOf(page, n))
        /\ TagOf(page, Grandparent(page, m)) = TagOf(page, Grandparent(page, n))
        /\ LET attributes == Similarity(page, n, m)
               text == 2 * StringSimilarity(page[n].words, page[m].words)
               score == IF matchText THEN attributes + text ELSE 2 * attributes
           IN  100 * score >= threshold * 4 * Unit}

----------------------------------------------------------------------------
(* Selectors the parser makes up *)

\* Mutant: the index among all siblings.
NthChildIndex(page, n) == Cardinality({m \in Children(page, ParentOf(page, n)) : m <= n})
NthOfTypeIndex(page, n) ==
    Cardinality({m \in Children(page, ParentOf(page, n)) : m <= n /\ page[m].tag = page[n].tag})

SelectorIDPart(page, n) == [id |-> page[n].id, tag |-> "", index |-> 0]
SelectorTagPart(page, n) ==
    [id |-> "", tag |-> page[n].tag,
     index |-> IF NthOfTypeIndex(page, n) <= 1 THEN 0 ELSE NthOfTypeIndex(page, n)]

\* generalSelector: down to the element from the child of html or from the nearest id;
\* nothing for html.  joinSelectorParts turns the parts round.
GeneralSelector(page, element, fullPath) ==
    LET up[n \in 0..element] ==
            IF n = 0 \/ ParentOf(page, n) = 0 THEN <<>>
            ELSE IF page[n].id # "" /\ ~fullPath THEN <<SelectorIDPart(page, n)>>
            ELSE LET part == IF page[n].id # "" THEN SelectorIDPart(page, n) ELSE SelectorTagPart(page, n)
                 IN  IF TagOf(page, ParentOf(page, n)) = "html" THEN <<part>>
                     ELSE Append(up[ParentOf(page, n)], part)
    IN  up[element]

\* What CSS (and XPath, which has no other reading of it) takes such a selector for: each
\* part a child of the one before it, the first of them anywhere.
PartMatches(page, n, part) ==
    /\ part.id \in {"", page[n].id}
    /\ part.tag \in {"", page[n].tag}
    /\ part.index \in {0, Cardinality({m \in Siblings(page, n) : m < n /\ page[m].tag = page[n].tag}) + 1}
Selects(page, selector, n) ==
    LET matched[i \in 0..Len(selector)] ==
            IF i = 0 THEN 0..Len(page)
            ELSE {m \in DOMAIN page : PartMatches(page, m, selector[i]) /\ ParentOf(page, m) \in matched[i - 1]}
    IN  n \in matched[Len(selector)]

----------------------------------------------------------------------------
(* Taking selectors apart.  A selector is a sequence of characters. *)

Toplevel == [quote |-> "", parens |-> 0, brackets |-> 0, escaped |-> FALSE]
IsTop(s) == s.quote = "" /\ s.parens = 0 /\ s.brackets = 0 /\ ~s.escaped
Quotes == {"'", "\""}

Nested(s, c) ==
    CASE c = "(" -> [s EXCEPT !.parens = @ + 1]
      [] c = ")" -> [s EXCEPT !.parens = IF @ > 0 THEN @ - 1 ELSE 0]
      [] c = "[" -> [s EXCEPT !.brackets = @ + 1]
      [] c = "]" -> [s EXCEPT !.brackets = IF @ > 0 THEN @ - 1 ELSE 0]
      [] OTHER -> s
\* How topLevelPseudoElementIndex goes from one character to the next ...
ScanPseudo(s, c) ==
    IF s.escaped THEN [s EXCEPT !.escaped = FALSE]
    ELSE IF c = "\\" THEN [s EXCEPT !.escaped = TRUE]
    ELSE IF s.quote # "" THEN [s EXCEPT !.quote = IF c = @ THEN "" ELSE @]
    ELSE IF c \in Quotes THEN [s EXCEPT !.quote = c]
    ELSE Nested(s, c)
\* ... and splitTopLevelCommas, which was written apart from it.
\* Mutant: a backslash is looked for outside of quotes only.
ScanSplitQuoteFirst(s, c) ==
    IF s.escaped THEN [s EXCEPT !.escaped = FALSE]
    ELSE IF s.quote # "" THEN [s EXCEPT !.quote = IF c = @ THEN "" ELSE @]
    ELSE IF c = "\\" THEN [s EXCEPT !.escaped = TRUE]
    ELSE IF c \in Quotes THEN [s EXCEPT !.quote = c]
    ELSE Nested(s, c)
ScanSplit(s, c) ==
    IF s.escaped THEN [s EXCEPT !.escaped = FALSE]
    ELSE IF c = "\\" THEN [s EXCEPT !.escaped = TRUE]
    ELSE IF s.quote # "" THEN [s EXCEPT !.quote = IF c = @ THEN "" ELSE @]
    ELSE IF c \in Quotes THEN [s EXCEPT !.quote = c]
    ELSE Nested(s, c)

\* topLevelPseudoElementIndex: the last "::" outside of everything, 0 for none.
TopLevelPseudoElementIndex(selector) ==
    LET before[i \in 1..Len(selector)] ==
            IF i = 1 THEN Toplevel ELSE ScanPseudo(before[i - 1], selector[i - 1])
    IN  Max({0} \cup {i \in 1..Len(selector) - 1 :
                         IsTop(before[i]) /\ selector[i] = ":" /\ selector[i + 1] = ":"})

SplitTopLevelCommas(selector) ==
    LET read(state, c) ==
            IF IsTop(state.scan) /\ c = ","
            THEN [state EXCEPT !.parts = Append(@, state.part), !.part = <<>>]
            ELSE [state EXCEPT !.part = Append(@, c), !.scan = ScanSplit(@, c)]
        end == FoldLeft(read, [parts |-> <<>>, part |-> <<>>, scan |-> Toplevel], selector)
    IN  Append(end.parts, end.part)

\* selectorBranches: an identifier keeps a selector in one piece; blank parts go.
SelectorBranches(selector, identified) ==
    LET parts == SelectSeq(SplitTopLevelCommas(selector), LAMBDA part : ToSet(part) \ {" "} # {})
    IN  IF identified \/ parts = <<>> THEN <<selector>> ELSE parts

----------------------------------------------------------------------------
(* Laws *)

\* A selector made up for an element, short or full, selects it and nothing before it, so
\* that First finds it again, on every page whose ids are unique.  (selector_generation.go)
SelectorFindsElement(page) ==
    \A n \in {m \in DOMAIN page : ParentOf(page, m) # 0}, fullPath \in BOOLEAN :
        LET selector == GeneralSelector(page, n, fullPath)
        IN  Selects(page, selector, n) /\ \A m \in 1..(n - 1) : ~Selects(page, selector, m)
\* Of two elements each finds the other similar, or neither does.  (search.go:102-143)
SimilarIsMutual(page, threshold, matchText) ==
    LET inner == {m \in DOMAIN page : ParentOf(page, m) # 0}
    IN  \A n, m \in inner : m \in FindSimilar(page, n, threshold, matchText)
                                <=> n \in FindSimilar(page, m, threshold, matchText)
\* The two scanners agree on what is outside of quotes, brackets and escapes: a comma put
\* behind a selector splits it iff a pseudo-element put there is seen.  (document.go:233-363)
ScannersAgree(selector) ==
    Len(SplitTopLevelCommas(Append(selector, ","))) = Len(SplitTopLevelCommas(selector)) + 1
        <=> TopLevelPseudoElementIndex(selector \o <<":", ":">>) = Len(selector) + 1
=============================================================================

----------------------------- MODULE MCDocuments -----------------------------
(***************************************************************************)
(* Files of robots.txt of up to four lines, agents and paths; pages of up  *)
(* to six elements, selectors of up to three characters.                   *)
(***************************************************************************)
EXTENDS Robots, Adaptive

Line(k, v) == [key |-> k, value |-> v]
Lines ==
    {Line("blank", ""), Line("user-agent", Star), Line("user-agent", Product),
     Line("user-agent", <<"g">>), Line("allow", <<"/", "a">>), Line("disallow", <<"/">>),
     Line("disallow", <<"/", "a", "$">>), Line("disallow", <<"*", "a">>),
     Line("crawl-delay", 2), Line("crawl-delay", -1),
     Line("request-rate", [requests |-> 2, period |-> 6]), Line("other", "")}
RobotsInputs == UNION {[1..n -> Lines] : n \in 0..4}

MCTokens == {<<Product>>, <<<<"b">>, <<"g">>>>, <<Star>>}
MCPaths == {<<"/">>, <<"/", "a">>, <<"/", "a", "b">>}
MCDelays == {1}

----------------------------------------------------------------------------
(* Pages *)

Html == [parent |-> 0, tag |-> "html", id |-> "", attrs |-> <<>>, words |-> <<>>]
Element(parent, tag, id, attrs, words) ==
    [parent |-> parent, tag |-> tag, id |-> id, attrs |-> attrs, words |-> words]
Body == Element(1, "body", "", <<>>, <<>>)
\* The elements are listed as a reader meets them.
InDocumentOrder(page) ==
    \A n \in 3..Len(page) : page[n].parent \in {n - 1} \cup Ancestors(page, n - 1)

Class == [k \in {"class"} |-> {"a"}]
ClassAndLink == [k \in {"href", "class"} |-> {"a"}]
Attrs == {<<>>, Class, ClassAndLink}
Texts == {<<>>, <<"x">>}
Elements(parents, ids, attrs) ==
    {Element(p, t, i, a, w) : p \in parents, t \in {"a", "p"}, i \in ids, a \in attrs, w \in Texts}
Bare(parents, ids) == {Element(p, t, i, <<>>, <<>>) : p \in parents, t \in {"a", "p"}, i \in ids}

\* Every shape of four elements in a body, with and without ids.
ShapeInputs ==
    {page \in {<<Html, Body, a, b, c, d>> : a \in Bare({2}, {"", "i"}), b \in Bare({2, 3}, {"", "j"}),
                                           c \in Bare({2, 3, 4}, {""}), d \in Bare({2, 3, 4, 5}, {"", "l"})} :
        InDocumentOrder(page)}
\* Three elements with attributes and texts.
SimilarInputs ==
    {<<Html, Body, a, b, c>> : a \in Elements({2}, {""}, Attrs), b \in Elements({2}, {"", "j"}, Attrs),
                               c \in Elements({2, 4}, {""}, Attrs)}
RelocationInputs ==
    {page \in {<<Html, Body, a, b, c>> : a \in {Element(2, "p", "", <<>>, <<"x">>), Element(2, "a", "", Class, <<>>)},
                                        b \in Elements({2, 3}, {""}, {<<>>, Class}),
                                        c \in Elements({2, 4}, {""}, {<<>>, Class})} :
        InDocumentOrder(page)}
Chars == {"'", "\"", "\\", "(", ")", "[", "]", ",", ":", "a"}
SelectorInputs == UNION {[1..n -> Chars] : n \in 0..3}

MCThresholds == {20, 60, 100}

\* The page the fingerprints come from, before it was changed.
Before ==
    <<Html, Body, Element(2, "p", "", Class, <<"x">>), Element(3, "a", "", <<>>, <<"y">>),
      Element(2, "a", "", <<>>, <<"x">>)>>
BranchOf(matches, extraction) ==
    [name |-> "s", matches |-> matches, extraction |-> extraction, invalid |-> FALSE]
MCSavedBranches == {BranchOf({3, 5}, e) : e \in {"text", "class"}}
MCLostBranches == {[name |-> "lost", matches |-> {}, extraction |-> "element", invalid |-> FALSE]}
MCSavings ==
    [identifier : {"title"}, autoSave : {TRUE}, adaptive : {FALSE}, percentage : {0, 90},
     domain : {[form |-> "blank", host |-> ""], [form |-> "port", host |-> "h"]}]
MCSavedPrints == {FingerprintNode(Before, n) : n \in 3..4}
MCMinScores == {MinScoreFromPercentage(t) : t \in {0, 80}}
=============================================================================

------------------------------- MODULE MCLinks -------------------------------
(***************************************************************************)
(* Pages of up to three links, link extractors and rules for them, and     *)
(* sitemaps as XML tokens.                                                 *)
(***************************************************************************)
EXTENDS Templates

Url(scheme, host, path, query, fragment) ==
    [scheme |-> scheme, host |-> host, path |-> path, query |-> query, fragment |-> fragment]
Arg(n, v) == [name |-> n, value |-> v]
Pdf == <<"f", ".", "PDF">>
Base == Url("http", <<"a", "com">>, <<<<>>, <<"d">>, <<"x">>>>, <<>>, "")

\* One link written in several ways, and links that differ in what must count.
Refs ==
    {Url("HTTP", <<"A", "COM">>, <<<<>>, <<"x">>>>, <<>>, ""),
     Url("", <<>>, <<<<>>, <<"x">>>>, <<>>, "f"),
     Url("", <<>>, <<<<"p">>, DotDot, Pdf>>, <<>>, ""),
     Url("", <<>>, <<<<>>, <<>>, Pdf, Dot>>, <<>>, ""),
     Url("http", <<"b", "A", "com", "">>, <<<<>>, <<"f", ".", "pdf">>, Dot>>, <<Arg(2, 1), Arg(1, 1)>>, ""),
     Url("http", <<"b", "a", "com", "">>, <<<<>>, <<"f", ".", "pdf">>, DotDot>>, <<Arg(1, 1), Arg(2, 1)>>, ""),
     Url("", <<>>, <<<<>>>>, <<Arg(1, 2), Arg(1, 1)>>, ""),
     Url("mailto", <<>>, <<<<>>>>, <<>>, ""),
     Url("", <<"b", "com">>, <<<<>>, <<"x">>, <<>>>>, <<>>, "")}
Element(tag, raw) ==
    [tag |-> tag, attrs |-> IF raw = None THEN <<>> ELSE <<[key |-> "HREF", raw |-> raw]>>]
PageElements ==
    {Element("a", r) : r \in Refs \cup {None, Invalid}}
        \cup {Element("base", Url("", <<"b", "com">>, Slash, <<>>, ""))}

Opts == [allow |-> {}, deny |-> {}, allowDomains |-> {}, denyDomains |-> {}, tags |-> {},
         attrs |-> {"HREF"}, canonicalize |-> TRUE, keepFragment |-> FALSE,
         denyExtensions |-> <<>>, process |-> [does |-> "keep"]]
AllOpts ==
    {Opts, [Opts EXCEPT !.denyExtensions = <<{}>>],
     [Opts EXCEPT !.deny = {Pdf}, !.denyExtensions = <<{}>>],
     [Opts EXCEPT !.allowDomains = {<<"A", "com", "">>}, !.denyExtensions = <<{}>>],
     [Opts EXCEPT !.allow = {<<"x">>}, !.keepFragment = TRUE],
     [Opts EXCEPT !.denyDomains = {<<"b", "com">>},
                  !.process = [does |-> "rewrite", to |-> Url("", <<>>, <<<<"n">>>>, <<>>, "")]]}

PagesUpTo(max) == UNION {[1..n -> PageElements] : n \in 0..max}
LinkInputs == [page : PagesUpTo(3), opts : AllOpts]
RuleInputs == [page : PagesUpTo(2), first : AllOpts, second : AllOpts]

Response(page) ==
    [url |-> Base, page |-> page, restricted |-> <<>>,
     request |-> [url |-> Base, callback |-> "c", referer |-> None, priority |-> 0, dontFilter |-> TRUE]]
RuleOf(opts, callback, priority) ==
    [extractor |-> NewLinkExtractor(opts), callback |-> callback, priority |-> priority,
     processFails |-> FALSE]

LinkLaw(input) ==
    LET extractor == NewLinkExtractor(input.opts)
        response == Response(input.page)
    IN  /\ Settled(extractor, response, {Base, None})
        /\ KeptApart(extractor, response)
        /\ OnSite(extractor, response, input.opts.allowDomains)

RuleLaw(input) ==
    FirstRuleWins(Response(input.page), <<RuleOf(input.first, "a", 0), RuleOf(input.second, "b", 1)>>)

\* Sitemaps, token by token, with their tags properly nested and no <url> in a <url>.
Names == {"url", "sitemap", "loc", "link"}
Token(kind, name, value) == [kind |-> kind, name |-> name, value |-> value]
Tokens ==
    {Token("start", n, IF n = "link" THEN "l" ELSE "") : n \in Names}
        \cup {Token("end", n, "") : n \in Names} \cup {Token("text", "", "t1")}
\* The tags that are open after the tokens.
OpenTags(tokens) ==
    FoldLeft(LAMBDA open, t : CASE t.kind = "start" -> Append(open, t.name)
                                [] t.kind = "end" -> Front(open)
                                [] OTHER -> open,
             <<>>, tokens)
MayFollow(tokens, t) ==
    LET open == OpenTags(tokens) IN
    CASE t.kind = "start" -> t.name = "url" => "url" \notin Range(open)
      [] t.kind = "end" -> open # <<>> /\ Last(open) = t.name
      [] OTHER -> TRUE
SitemapLaw(tokens) == SitemapRead(tokens, TRUE) /\ SitemapRead(tokens, FALSE)
=============================================================================

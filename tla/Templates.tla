------------------------------ MODULE Templates ------------------------------
(***************************************************************************)
(* spiders/templates: the crawl spider, which follows what the extractors  *)
(* of its rules find on a page, and the sitemap spider, which reads URLs   *)
(* and further sitemaps off a sitemap or a robots.txt.  The hooks of a     *)
(* rule are left out but for their errors.                                 *)
(***************************************************************************)
EXTENDS Links

FailsWith == [failed |-> TRUE]

\* Response.Follow: the request that led here with another URL; the callback, the priority
\* and the headers of the options replace what it had.
Follow(response, raw, callback) ==
    IF raw = Invalid THEN FailsWith
    ELSE [response.request EXCEPT
            !.url = ResolveURL(response.url, raw),
            !.dontFilter = FALSE,
            !.callback = IF callback = "" THEN @ ELSE callback,
            !.referer = response.url]

\* A rule applied to a URL it found or matched; ProcessRequest may fail.
RuleRequest(rule, response, url) ==
    LET request == Follow(response, url, rule.callback) IN
    IF request = FailsWith \/ rule.processFails THEN FailsWith
    ELSE [request EXCEPT !.priority = IF rule.priority = 0 THEN @ ELSE rule.priority]

\* The outputs, or an error alone.
Failure == <<FailsWith>>
Collected(requests) ==
    IF FailsWith \in Range(requests) THEN Failure ELSE requests

\* Mutant: every rule's requests go before those of the rules above it.
OutputsLastRuleFirst(response, rules) ==
    Collected(FlattenSeq(Reverse([r \in DOMAIN rules |->
        LET links == Extract(rules[r].extractor, response)
        IN  [l \in DOMAIN links |-> RuleRequest(rules[r], response, links[l])]])))
OutputsForRules(response, rules) ==
    Collected(FlattenSeq([r \in DOMAIN rules |->
        LET links == Extract(rules[r].extractor, response)
        IN  [l \in DOMAIN links |-> RuleRequest(rules[r], response, links[l])]]))

\* The first rule that matches, if there is one; without rules every URL is followed.
DispatchByRules(response, raw, rules, fallbackCallback) ==
    LET matches == {r \in DOMAIN rules : MatchURLFrom(rules[r].extractor, response.url, raw) # None}
        first == CHOOSE r \in matches : \A s \in matches : r <= s
    IN  IF rules = <<>> THEN Follow(response, raw, fallbackCallback)
        ELSE IF matches = {} THEN None
        ELSE RuleRequest(rules[first], response,
                         MatchURLFrom(rules[first].extractor, response.url, raw))

----------------------------------------------------------------------------
(* Sitemaps: the tokens of an XML document *)

\* Mutant: what is open after an element has ended is not what was before it.
ReadTokenFlat(p, token, alternateLinks) ==
    CASE token.kind = "start" -> [p EXCEPT !.stack = <<token.name>>]
      [] token.kind = "end" -> [p EXCEPT !.inURL = @ /\ token.name # "url"]
      [] token.kind = "text" /\ p.stack # <<>> /\ Last(p.stack) = "loc" -> [p EXCEPT !.urls = Append(@, token.value)]
      [] OTHER -> p
ReadToken(p, token, alternateLinks) ==
    CASE token.kind = "start" ->
            LET inURL == p.inURL \/ token.name = "url"
                alternate == alternateLinks /\ inURL /\ token.name = "link" /\ token.value # ""
            IN  [p EXCEPT !.stack = Append(@, token.name), !.inURL = inURL,
                          !.urls = IF alternate THEN Append(@, token.value) ELSE @]
      [] token.kind = "end" ->
            [p EXCEPT !.stack = IF @ = <<>> THEN @ ELSE Front(@),
                      !.inURL = @ /\ token.name # "url"]
      [] token.kind = "text" ->
            IF IsSuffix(<<"url", "loc">>, p.stack)
            THEN [p EXCEPT !.urls = Append(@, token.value)]
            ELSE IF IsSuffix(<<"sitemap", "loc">>, p.stack)
            THEN [p EXCEPT !.sitemaps = Append(@, token.value)] ELSE p

\* decompressSitemap: a body too large to unpack, or not what its type says, is an error.
ParseSitemapBody(body, alternateLinks) ==
    IF body.gzip # "plain" /\ body.gzip # "fits" THEN FailsWith
    ELSE FoldLeft(LAMBDA p, token : ReadToken(p, token, alternateLinks),
                  [stack |-> <<>>, inURL |-> FALSE, urls |-> <<>>, sitemaps |-> <<>>],
                  body.tokens)

\* The lines "sitemap: <url>" of a robots.txt.
ParseRobotsSitemaps(response) ==
    LET found == SelectSeq(response.lines, LAMBDA line : line.key = "sitemap" /\ line.url # None)
    IN  Collected([i \in DOMAIN found |-> Follow(response, found[i].url, "ParseSitemap")])

\* The sitemaps first, those that SitemapFollow matches; then the pages by rule.
ParseSitemap(spider, response) ==
    LET result == ParseSitemapBody(response.body, spider.alternateLinks)
        followed == SelectSeq(result.sitemaps, LAMBDA raw :
                        spider.follow = <<>> \/ MatchURLFrom(spider.follow[1], None, raw) # None)
        pages == [i \in DOMAIN result.urls |->
                    DispatchByRules(response, result.urls[i], spider.rules, "")]
    IN  IF response.lines # <<>> THEN ParseRobotsSitemaps(response)
        ELSE IF result = FailsWith THEN Failure
        ELSE Collected([i \in DOMAIN followed |-> Follow(response, followed[i], "ParseSitemap")]
                       \o SelectSeq(pages, LAMBDA request : request # None))

\* StartRequests of the sitemap spider: every start URL is read as a sitemap.
StartRequests(urls, request) ==
    [i \in DOMAIN urls |-> [request EXCEPT !.url = urls[i], !.callback = "ParseSitemap"]]

----------------------------------------------------------------------------
(* What the templates promise *)

\* What is left of a page's requests when the scheduler has taken out the duplicates.
Unfiltered(requests) ==
    LET print(i) == CanonicalizeURL(requests[i].url, FALSE)
        firsts == {i \in DOMAIN requests : \A j \in 1..(i - 1) : print(j) # print(i)}
    IN  {requests[i] : i \in firsts}

\* A link that several rules find is followed as the first of them says, which is what
\* the sitemap spider does with a URL that several rules match.
Plain(e) == e.canonicalize /\ ~e.keepFragment /\ e.process.does = "keep"
FirstRuleWins(response, rules) ==
    LET outputs == OutputsForRules(response, rules)
    IN  /\ \A r \in DOMAIN rules : Plain(rules[r].extractor)
        /\ outputs # Failure
        => \A request \in Unfiltered(outputs) :
                DispatchByRules(response, request.url, rules, "") = request

\* The elements open at a token: those that started before it and have not ended.
Opened(tokens, i) ==
    {j \in 1..(i - 1) : /\ tokens[j].kind = "start"
                        /\ \A k \in j..(i - 1) :
                              LET starts == {l \in j..k : tokens[l].kind = "start"}
                                  ends == {l \in j..k : tokens[l].kind = "end"}
                              IN  Cardinality(starts) > Cardinality(ends)}
LocationsUnder(tokens, parent) ==
    {i \in DOMAIN tokens :
        LET open == Opened(tokens, i)
            inner == SetToSortSeq(open, <)
        IN  /\ tokens[i].kind = "text" /\ Len(inner) >= 2
            /\ tokens[Last(inner)].name = "loc"
            /\ tokens[inner[Len(inner) - 1]].name = parent}
Alternates(tokens) ==
    {i \in DOMAIN tokens :
        /\ tokens[i].kind = "start" /\ tokens[i].name = "link" /\ tokens[i].value # ""
        /\ \E j \in Opened(tokens, i) : tokens[j].name = "url"}

\* Of a document whose url elements do not nest: its locations, each once and in the
\* order of the document, and no text that is not the location of a page or a sitemap.
SitemapRead(tokens, alternateLinks) ==
    LET result == ParseSitemapBody([gzip |-> "plain", tokens |-> tokens], alternateLinks)
        urls == LocationsUnder(tokens, "url") \cup (IF alternateLinks THEN Alternates(tokens) ELSE {})
        values(is) == LET s == SetToSortSeq(is, <) IN [i \in DOMAIN s |-> tokens[s[i]].value]
    IN  /\ result.urls = values(urls)
        /\ result.sitemaps = values(LocationsUnder(tokens, "sitemap"))
=============================================================================

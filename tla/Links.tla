-------------------------------- MODULE Links --------------------------------
(***************************************************************************)
(* The link extractor of spiders/links.go.  A URL is a record: a host is   *)
(* the sequence of its labels, a path what a split on "/" makes of it, a   *)
(* segment the sequence of its symbols, a query a sequence of parameters.  *)
(* A page is the sequence of its elements in document order.  White space  *)
(* around values and the syntax of patterns are left out.                  *)
(***************************************************************************)
EXTENDS Integers, Sequences, SequencesExt, Functions

None == [none |-> TRUE]
Invalid == [invalid |-> TRUE]

UpperCase == [A |-> "a", COM |-> "com", PDF |-> "pdf", HTTP |-> "http", HREF |-> "href"]
Lower(s) == IF s \in DOMAIN UpperCase THEN UpperCase[s] ELSE s
LowerAll(s) == [i \in DOMAIN s |-> Lower(s[i])]

----------------------------------------------------------------------------
(* URLs *)

Slash == <<<<>>, <<>>>>
Dot == <<".">>
DotDot == <<".", ".">>

Climb(segments, keepEmpty) ==
    FoldLeft(LAMBDA out, segment :
                CASE segment = Dot \/ (segment = <<>> /\ ~keepEmpty) -> out
                  [] segment = DotDot -> IF out = <<>> THEN out ELSE Front(out)
                  [] OTHER -> Append(out, segment),
             <<>>, segments)

\* What net/url makes of a path relative to that of the base.
ResolvePath(base, ref) ==
    LET full == IF Head(ref) = <<>> /\ Len(ref) > 1 THEN Tail(ref)
                ELSE IF ref = <<<<>>>> THEN Tail(base) ELSE Front(Tail(base)) \o ref
        directory == Last(full) \in {Dot, DotDot}
    IN  <<<<>>>> \o Climb(full, TRUE) \o (IF directory THEN <<<<>>>> ELSE <<>>)

\* resolveURL: a reference with a scheme stays as it is written.
ResolveURL(base, ref) ==
    CASE ref.scheme # "" -> ref
      [] ref.scheme = "" /\ ref.host # <<>> -> [ref EXCEPT !.scheme = base.scheme]
      [] OTHER -> [ref EXCEPT
            !.scheme = base.scheme, !.host = base.host,
            !.path = ResolvePath(IF base.path = <<<<>>>> THEN Slash ELSE base.path, ref.path),
            !.query = IF ref.path = <<<<>>>> /\ ref.query = <<>> THEN base.query ELSE ref.query]

\* path.Clean, with the final slash put back.
CleanPath(path) ==
    LET segments == Climb(path, FALSE) IN
    IF path = <<<<>>>> THEN path
    ELSE IF segments = <<>> THEN Slash
    ELSE <<<<>>>> \o segments \o (IF Last(path) = <<>> THEN <<<<>>>> ELSE <<>>)

\* Query().Encode(): by name, parameters of one name in their order.
SortedQuery(query) ==
    LET places == SetToSortSeq(DOMAIN query,
                     LAMBDA i, j : query[i].name < query[j].name
                                   \/ (query[i].name = query[j].name /\ i < j))
    IN  [i \in DOMAIN query |-> query[places[i]]]

\* canonicalizeURL of request.go, which fingerprints are made from.
CanonicalizeURL(u, keepFragment) ==
    [u EXCEPT !.scheme = Lower(@), !.host = LowerAll(@), !.query = SortedQuery(@),
              !.fragment = IF keepFragment THEN @ ELSE ""]

\* Mutant: hosts keep their case.
CanonicalizeHostAsWritten(u, keepFragment) ==
    [u EXCEPT !.scheme = Lower(@), !.path = CleanPath(@), !.query = SortedQuery(@),
              !.fragment = IF keepFragment THEN @ ELSE ""]
CanonicalizeLinkURL(u, keepFragment) ==
    [u EXCEPT !.scheme = Lower(@), !.host = LowerAll(@), !.path = CleanPath(@),
              !.query = SortedQuery(@), !.fragment = IF keepFragment THEN @ ELSE ""]

----------------------------------------------------------------------------
(* Extractors *)

NormalizeDomain(domain) ==
    LowerAll(IF domain # <<>> /\ Last(domain) = "" THEN Front(domain) ELSE domain)
NormalizeDomains(domains) == {NormalizeDomain(d) : d \in domains} \ {<<>>}

DefaultIgnoredExtensions == {<<"pdf">>, <<"tar", ".", "gz">>}

BadPattern == <<"(">>
\* The defaults of NewLinkExtractor; a pattern that does not compile is an error.
NewLinkExtractor(opts) ==
    IF BadPattern \in opts.allow \cup opts.deny THEN Invalid
    ELSE [opts EXCEPT
            !.tags = IF @ = {} THEN {"a", "area"} ELSE {Lower(t) : t \in @},
            !.attrs = IF @ = {} THEN {"href"} ELSE {Lower(t) : t \in @},
            !.denyExtensions = IF @ = <<>> THEN DefaultIgnoredExtensions ELSE {LowerAll(x) : x \in @[1]},
            !.allowDomains = NormalizeDomains(@),
            !.denyDomains = NormalizeDomains(@)]

\* linkLastPathSegment and stripLinkPathParameters
FileName(path) ==
    LET names == SelectSeq(path, LAMBDA segment : segment # <<>>)
        last == IF names = <<>> THEN <<>> ELSE Last(names)
        cuts == {i \in DOMAIN last : last[i] = ";"}
    IN  IF cuts = {} THEN last
        ELSE SubSeq(last, 1, (CHOOSE i \in cuts : \A j \in cuts : i <= j) - 1)

TarGz == <<".", "tar", ".", "gz">>
LinkExtension(path) ==
    LET name == LowerAll(FileName(path))
        dots == {i \in DOMAIN name : name[i] = "."}
        dot == CHOOSE i \in dots : \A j \in dots : i >= j
    IN  IF IsSuffix(TarGz, name) THEN Tail(TarGz)
        ELSE IF dots = {} THEN <<>> ELSE SubSeq(name, dot + 1, Len(name))

DomainInList(host, domains) == \E d \in domains : IsSuffix(d, host)

LinkHasSupportedLocator(u) ==
    \/ Lower(u.scheme) \in {"http", "https"} /\ u.host # <<>>
    \/ Lower(u.scheme) = "file"

\* A pattern matches the URLs whose path has a segment of it.
AnyPatternMatches(patterns, u) == \E p \in patterns : p \in Range(u.path)

UrlPasses(e, u) ==
    LET host == NormalizeDomain(u.host) IN
    /\ LinkHasSupportedLocator(u)
    /\ LinkExtension(u.path) \notin e.denyExtensions
    /\ e.allow # {} => AnyPatternMatches(e.allow, u)
    /\ ~AnyPatternMatches(e.deny, u)
    /\ e.allowDomains # {} => DomainInList(host, e.allowDomains)
    /\ ~DomainInList(host, e.denyDomains)

\* The user's function: it keeps a URL, rejects it, or gives a reference of its own.
Process(e, u) ==
    CASE e.process.does = "reject" -> None
      [] e.process.does = "keep" -> u
      [] e.process.does = "rewrite" -> e.process.to

\* Mutant: the filters see the URL before it is canonical.
PrepareFilteredFirst(e, base, raw) ==
    IF raw \in {None, Invalid} THEN None
    ELSE LET processed == Process(e, ResolveURL(base, raw))
             url == ResolveURL(base, processed)
         IN  IF processed \in {None, Invalid} \/ ~UrlPasses(e, url) THEN None
             ELSE IF e.canonicalize THEN CanonicalizeLinkURL(url, e.keepFragment) ELSE url

\* linkCandidateConfig.prepare; every reason to drop a candidate is None.
Prepare(e, base, raw) ==
    IF raw \in {None, Invalid} THEN None
    ELSE LET processed == Process(e, ResolveURL(base, raw))
             url == ResolveURL(base, processed)
             link == IF e.canonicalize THEN CanonicalizeLinkURL(url, e.keepFragment) ELSE url
         IN  IF processed \in {None, Invalid} \/ ~UrlPasses(e, link) THEN None ELSE link

MatchURLFrom(e, base, raw) == Prepare(e, IF base = None THEN raw ELSE base, raw)

----------------------------------------------------------------------------
(* Pages *)

FirstOf(s) == IF s = <<>> THEN None ELSE Head(s)

ValuesOf(element, names) ==
    LET here == SelectSeq(element.attrs, LAMBDA attr : Lower(attr.key) \in names)
    IN  [i \in DOMAIN here |-> here[i].raw]

\* firstBaseHref and linkDocumentBaseURL
DocumentBaseURL(url, page) ==
    LET bases == SelectSeq(page, LAMBDA element : Lower(element.tag) = "base")
        hrefs == [i \in DOMAIN bases |-> FirstOf(ValuesOf(bases[i], {"href"}))]
        href == FirstOf(SelectSeq(hrefs, LAMBDA raw : raw # None))
    IN  IF href \in {None, Invalid} THEN url ELSE ResolveURL(url, href)

\* collectLinkAttributeCandidates
Candidates(scope, tags, attrs) ==
    FlattenSeq([i \in DOMAIN scope |->
        IF Lower(scope[i].tag) \in tags THEN ValuesOf(scope[i], attrs) ELSE <<>>])

\* The parts of the page the restrictions select, or all of it when they select nothing.
Scopes(response) ==
    LET found == SelectSeq(response.restricted, LAMBDA scope : scope # <<>>)
    IN  IF found = <<>> THEN <<response.page>> ELSE found

Distinct(s) ==
    FoldLeft(LAMBDA out, x : IF x \in Range(out) THEN out ELSE Append(out, x), <<>>, s)

ExtractScope(e, base, scope) ==
    LET raws == Candidates(scope, e.tags, e.attrs)
        links == [i \in DOMAIN raws |-> Prepare(e, base, raws[i])]
    IN  SelectSeq(links, LAMBDA link : link # None)

Extract(e, response) ==
    LET base == DocumentBaseURL(response.url, response.page)
        scopes == Scopes(response)
    IN  Distinct(FlattenSeq([i \in DOMAIN scopes |-> ExtractScope(e, base, scopes[i])]))

----------------------------------------------------------------------------
(* The crawler's own filter: normalizeAllowedDomains and isDomainAllowed *)

IsDomainAllowed(u, allowedDomains) ==
    LET allowed == NormalizeDomains(allowedDomains)
        host == NormalizeDomain(u.host)
    IN  allowed = {} \/ (host # <<>> /\ \E d \in allowed : IsSuffix(d, host))

----------------------------------------------------------------------------
(* What extraction promises *)

\* A link that was extracted matches its extractor on its own, whatever it is resolved
\* against, and matching gives it back unchanged.
Settled(e, response, bases) ==
    e.canonicalize /\ e.process.does = "keep" =>
        \A link \in Range(Extract(e, response)), base \in bases : MatchURLFrom(e, base, link) = link

\* The links of one page that differ are not duplicates to the scheduler.
KeptApart(e, response) ==
    LET links == Extract(e, response) IN
    e.canonicalize /\ ~e.keepFragment =>
        \A i, j \in DOMAIN links :
            CanonicalizeURL(links[i], FALSE) = CanonicalizeURL(links[j], FALSE) => i = j

\* A link within an extractor's domains is never offsite to a crawler with the same list.
OnSite(e, response, domains) ==
    e.allowDomains = NormalizeDomains(domains) =>
        \A link \in Range(Extract(e, response)) : IsDomainAllowed(link, domains)
=============================================================================

------------------------------- MODULE Options -------------------------------
(***************************************************************************)
(* How the options of a static fetch come together: those of a session     *)
(* (fetchers/fetcher_session.go), of the spider's adapter for it and of    *)
(* the request (spiders/session_adapters.go), up to the request that is    *)
(* sent (fetchers/fetcher_options.go).  Headers are functions from         *)
(* canonical names to values; an option that is not set is "".             *)
(***************************************************************************)
EXTENDS Naturals, Sequences, FiniteSets

Refused == [refused |-> TRUE]
Panic == [panic |-> TRUE]

Overridden(base, over) == [f \in DOMAIN base |-> IF over[f] = "" THEN base[f] ELSE over[f]]

----------------------------------------------------------------------------
(* Headers *)

Named(headers) == {k \in DOMAIN headers : headers[k] # <<>>}

\* Mutant: values are added to those that are there.
MergeHeadersAdding(base, over) ==
    [k \in DOMAIN base \cup Named(over) |->
        (IF k \in DOMAIN base THEN base[k] ELSE <<>>) \o (IF k \in Named(over) THEN over[k] ELSE <<>>)]
\* mergeHTTPHeaders, mergeHeaders and the loop of FetcherSession.mergeOptions
MergeHeaders(base, over) ==
    [k \in (DOMAIN base \ DOMAIN over) \cup Named(over) |->
        IF k \in Named(over) THEN over[k] ELSE base[k]]

Get(headers, key) == IF key \in Named(headers) THEN Head(headers[key]) ELSE ""

\* setHeaderDefault: an empty value counts as none.
SetDefault(headers, key, value) ==
    IF Get(headers, key) # "" \/ value = "" THEN headers
    ELSE [k \in DOMAIN headers \cup {key} |-> IF k = key THEN <<value>> ELSE headers[k]]

IdentityNames == {"User-Agent", "Accept", "Accept-Language", "Referer", "Upgrade-Insecure-Requests"}
\* staticidentity.ApplyHeaders: each of its names by setHeaderDefault.
ApplyIdentity(headers, opts) ==
    IF opts.fields["stealthyHeaders"] # "true" THEN headers
    ELSE [k \in DOMAIN headers \cup IdentityNames |->
            IF k \in IdentityNames /\ Get(headers, k) = "" THEN <<"identity">> ELSE headers[k]]

----------------------------------------------------------------------------
(* Proxies *)

NoProxy == [url |-> "", urls |-> "", auth |-> ""]
HasValues(proxy) == proxy # NoProxy

\* newProxyConfig: one URL, or URLs by scheme, with the credentials put into each.
ProxyConfig(proxy) ==
    CASE proxy.url # "" /\ proxy.urls # "" -> Refused
      [] proxy.url = "" /\ proxy.urls = "" -> Refused
      [] "bad" \in {proxy.url, proxy.urls} -> Refused
      [] OTHER -> proxy

\* parseProxyRotatorEntry: a URL, options, or a map with a server and credentials.
RotatorEntry(entry) ==
    LET proxy == CASE entry.is = "url" -> [NoProxy EXCEPT !.url = entry.url]
                   [] entry.is = "options" -> entry.proxy
                   [] entry.is = "map" -> IF entry.server = "" THEN NoProxy
                                          ELSE [NoProxy EXCEPT !.url = entry.server, !.auth = entry.auth]
    IN  IF HasValues(proxy) THEN ProxyConfig(proxy) ELSE Refused

NewRotator(entries) ==
    LET proxies == [i \in DOMAIN entries |-> RotatorEntry(entries[i])] IN
    IF entries = <<>> \/ \E i \in DOMAIN proxies : proxies[i] = Refused THEN Refused
    ELSE [proxies |-> proxies, index |-> 0]

\* CyclicProxyRotation, which Next calls with its index.
CyclicProxyRotation(rotator) ==
    LET i == rotator.index % Len(rotator.proxies) IN
    [proxy |-> rotator.proxies[i + 1], index |-> (i + 1) % Len(rotator.proxies)]

----------------------------------------------------------------------------
(* Layers *)

NoSafety == [obeyRobots |-> FALSE, blockPrivate |-> FALSE, agent |-> ""]

MergeStaticRequestOptions(base, over) ==
    [headers |-> MergeHeaders(base.headers, over.headers),
     fields |-> Overridden(base.fields, over.fields),
     proxy |-> IF HasValues(over.proxy) THEN over.proxy ELSE base.proxy,
     rotator |-> IF over.rotator # "" THEN over.rotator ELSE base.rotator,
     safety |-> IF over.safety # NoSafety THEN over.safety ELSE base.safety]

\* The "proxy" and "proxies" of a request's Meta.
ApplyStaticProxyMeta(opts, meta) ==
    IF meta.proxies # "" THEN [opts EXCEPT !.proxy = [NoProxy EXCEPT !.urls = meta.proxies], !.rotator = ""]
    ELSE IF meta.proxy # "" THEN [opts EXCEPT !.proxy = [NoProxy EXCEPT !.url = meta.proxy], !.rotator = ""]
    ELSE opts

\* StaticSessionAdapter.Fetch up to the session's method; other methods are refused.
Methods == {"GET", "POST", "PUT", "DELETE"}
AdapterOptions(options, request) ==
    LET merged == MergeStaticRequestOptions(options, request.options)
        headed == [merged EXCEPT !.headers = MergeHeaders(@, request.headers)]
        bodied == IF request.body = "" THEN headed ELSE [headed EXCEPT !.fields["body"] = request.body]
    IN  IF request.method \notin Methods THEN Refused
        ELSE ApplyStaticProxyMeta(bodied, request.meta)

\* NewFetcherSession
NewFetcherSession(opts) == IF HasValues(opts.proxy) /\ opts.rotator # "" THEN Refused ELSE opts

\* Mutant: the session's rotator is added to a proxy of the request.
SessionOptionsBoth(session, opts) ==
    [opts EXCEPT !.headers = MergeHeaders(session.headers, @),
                 !.proxy = IF HasValues(@) THEN @ ELSE session.proxy,
                 !.rotator = IF @ # "" THEN @ ELSE session.rotator]
\* FetcherSession.mergeOptions.  Without headers of its own a session merges into a nil
\* map, which panics at the first header of the request.
SessionOptions(session, opts) ==
    IF ~session.hasHeaders /\ Named(opts.headers) # {} THEN Panic
    ELSE LET own == HasValues(opts.proxy) \/ opts.rotator # "" IN
    [opts EXCEPT
        !.headers = MergeHeaders(session.headers, @),
        !.proxy = IF own THEN @ ELSE session.proxy,
        !.rotator = IF own \/ HasValues(session.proxy) THEN @ ELSE session.rotator,
        !.fields["store"] = IF @ = "" THEN session.store ELSE @]

\* encodeRequestBody
BodyKinds == {"body", "data", "json"}
ContentTypeOf(fields) ==
    IF fields["body"] # "" THEN "" ELSE IF fields["data"] # "" THEN "form"
    ELSE IF fields["json"] # "" THEN "json" ELSE ""

\* An option that Go's transport does not have, or a body given twice.
Contradictory(fields) ==
    \/ fields["impersonate"] # "" \/ fields["http3"] = "true"
    \/ Cardinality({b \in BodyKinds : fields[b] # ""}) > 1

\* prepareRequest, with the checks of the first attempt that need no network.
PrepareRequest(opts) ==
    LET proxy == IF HasValues(opts.proxy) THEN ProxyConfig(opts.proxy) ELSE NoProxy
        headers == SetDefault(opts.headers, "Content-Type", ContentTypeOf(opts.fields))
    IN  IF \/ Contradictory(opts.fields)
           \/ HasValues(opts.proxy) /\ opts.rotator # ""
           \/ proxy = Refused
        THEN Refused
        ELSE [opts EXCEPT !.headers = ApplyIdentity(headers, opts)]

\* applyRequestCookies: cookies replace values of the same name.
RequestCookies(cookies, values) ==
    [n \in {c.name : c \in cookies} \cup (DOMAIN values \ {""}) |->
        {c.value : c \in {k \in cookies : k.name = n}}
            \cup (IF n \in DOMAIN values /\ ~\E c \in cookies : c.name = n THEN {values[n]} ELSE {})]

\* What a spider's request on a static session is sent with, or Refused.
Sent(session, options, request) ==
    LET opts == AdapterOptions(options, request)
        merged == SessionOptions(session, opts)
    IN  IF opts = Refused THEN Refused
        ELSE IF merged = Panic THEN Panic ELSE PrepareRequest(merged)

----------------------------------------------------------------------------
(* What the layers promise *)

\* The route to the site that a layer asks for.
Route(layer) == [proxy |-> layer.proxy, rotator |-> layer.rotator]
Direct == [proxy |-> NoProxy, rotator |-> ""]

\* The first of some values that is one.
Nearest(values, none) ==
    LET given == {i \in DOMAIN values : values[i] # none} IN
    IF given = {} THEN none ELSE values[CHOOSE i \in given : \A j \in given : i <= j]

MetaRoute(meta) == Route(ApplyStaticProxyMeta(Direct, meta))
AdapterRefuses(options, request) ==
    LET opts == AdapterOptions(options, request) IN opts = Refused \/ Contradictory(opts.fields)
Mixed(r, s) == {HasValues(r.proxy), HasValues(s.proxy)} = {TRUE, FALSE} /\ {r.rotator, s.rotator} # {""}

\* A request that is sent goes the way the nearest layer asks for that asks for one, with
\* that layer's credentials; it is never refused for its route but when its own options
\* and the adapter's ask for a proxy and a rotator between them.
RouteOfNearestLayer(session, options, request) ==
    LET sent == Sent(session, options, request)
        routes == <<MetaRoute(request.meta), Route(request.options), Route(options), Route(session)>>
        Valid(r) == HasValues(r.proxy) => r.rotator = "" /\ ProxyConfig(r.proxy) # Refused
    IN  (\A i \in 1..4 : Valid(routes[i])) /\ sent # Panic =>
        IF routes[1] = Direct /\ Mixed(routes[2], routes[3]) THEN sent = Refused
        ELSE IF sent = Refused THEN AdapterRefuses(options, request)
        ELSE Route(sent) = Nearest(routes, Direct)

\* The values of a header in the nearest layer that has any.
Having(layers, key) ==
    Nearest([i \in DOMAIN layers |-> IF key \in Named(layers[i]) THEN layers[i][key] ELSE <<>>], <<>>)

\* A header has the values of the nearest layer that has it; the identity and the content
\* type fill in what nobody gave a value.
HeaderOfNearestLayer(session, options, request) ==
    LET sent == Sent(session, options, request)
        layers == <<request.headers, request.options.headers, options.headers, session.headers>>
    IN  sent \notin {Refused, Panic} =>
        \A k \in UNION {Named(layers[i]) : i \in 1..4} :
            Head(Having(layers, k)) # "" => sent.headers[k] = Having(layers, k)

\* A request's own headers are merged into what the session has.
RequestHeadersAreMerged(session, options, request) == Sent(session, options, request) # Panic
=============================================================================

---------------------------- MODULE BrowserOptions ----------------------------
(***************************************************************************)
(* How the options of a browser fetch come together: those of a session    *)
(* (engines/browser/browser_session.go), of the spider's adapter and of    *)
(* the request, up to the request the engine gets (browser_options.go,     *)
(* browser_stealth.go) and what browser_adapter.go sets up for it before   *)
(* the page is navigated.  Options come as scalars, switches and lists.    *)
(***************************************************************************)
EXTENDS Options, Functions

NoServer == [server |-> "", user |-> ""]
\* What a page is waited for: an element and the state it is to be in.
NoWait == [selector |-> "", state |-> ""]
NoShot == [enabled |-> FALSE, selector |-> "", fullPage |-> FALSE]

Switched(base, over) == [s \in DOMAIN base |-> base[s] \/ over[s]]

StealthSwitches == {"generateHeaders", "googleReferer", "hideCanvas", "blockWebRTC",
                    "disableWebGL", "solveCloudflare"}
\* normalizeBrowserStealthOptions
NormalizeStealth(switches) ==
    [switches EXCEPT !["stealth"] = @ \/ \E s \in StealthSwitches : switches[s]]

----------------------------------------------------------------------------
(* Layers *)

\* mergeSpiderBrowserOptions: cookies and the screenshot replace, lists are added to.
MergeSpiderBrowserOptions(base, over) ==
    [headers |-> MergeHeaders(base.headers, over.headers),
     fields |-> Overridden(base.fields, over.fields),
     switches |-> Switched(base.switches, over.switches),
     proxy |-> IF over.proxy # NoServer THEN over.proxy ELSE base.proxy,
     wait |-> IF over.wait # NoWait THEN over.wait ELSE base.wait,
     cookies |-> IF over.cookies # <<>> THEN over.cookies ELSE base.cookies,
     blocked |-> base.blocked \o over.blocked,
     flags |-> base.flags \o over.flags,
     actions |-> base.actions \o over.actions,
     shot |-> IF over.shot # NoShot THEN over.shot ELSE base.shot]

\* Mutants: a list of the request takes the place of the session's; the server and the
\* credentials of a proxy, or the selector and the state of a wait, are merged apart.
MergeBrowserReplacing(base, over) ==
    [MergeSpiderBrowserOptions(base, over) EXCEPT
        !.blocked = IF over.blocked # <<>> THEN over.blocked ELSE base.blocked]
MergeBrowserProxyApart(base, over) ==
    [MergeSpiderBrowserOptions(base, over) EXCEPT
        !.proxy = [server |-> IF over.proxy.server # "" THEN over.proxy.server ELSE base.proxy.server,
                   user |-> IF over.proxy.user # "" THEN over.proxy.user ELSE base.proxy.user]]
MergeBrowserWaitApart(base, over) ==
    [MergeSpiderBrowserOptions(base, over) EXCEPT !.wait = Overridden(base.wait, over.wait)]
\* mergeBrowserOptions of the session: cookies are added to as well, and only a
\* screenshot that is enabled replaces.
MergeBrowserOptions(base, over) ==
    [headers |-> MergeHeaders(base.headers, over.headers),
     fields |-> Overridden(base.fields, over.fields),
     switches |-> Switched(NormalizeStealth(base.switches), NormalizeStealth(over.switches)),
     proxy |-> IF over.proxy # NoServer THEN over.proxy ELSE base.proxy,
     wait |-> IF over.wait # NoWait THEN over.wait ELSE base.wait,
     cookies |-> base.cookies \o over.cookies,
     blocked |-> base.blocked \o over.blocked,
     flags |-> base.flags \o over.flags,
     actions |-> base.actions \o over.actions,
     shot |-> IF over.shot.enabled THEN over.shot ELSE base.shot]

\* browserProxyFromMeta and browserProxyFromStringMap: a server alone or with credentials.
MetaProxy(meta) == IF meta.server = "" THEN NoServer ELSE meta

\* browserProxyFromFetchProxy
FromFetchProxy(proxy) ==
    [server |-> IF proxy.url # "" THEN proxy.url ELSE proxy.urls, user |-> proxy.auth]

\* BrowserSessionAdapter.Fetch up to the session's: the options and the proxy it answers
\* in the response's meta.
BrowserAdapterOptions(adapter, request, rotated) ==
    LET merged == MergeSpiderBrowserOptions(adapter.options, request.options)
        named == MetaProxy(request.meta)
        chosen == IF named # NoServer THEN named
                  ELSE IF merged.proxy.server = "" /\ adapter.rotates THEN FromFetchProxy(rotated)
                  ELSE NoServer
    IN  [options |-> [merged EXCEPT
            !.headers = MergeHeaders(@, request.headers),
            !.switches["stealth"] = @ \/ adapter.stealth,
            !.proxy = IF chosen # NoServer THEN chosen ELSE @],
         selected |-> chosen.server]

----------------------------------------------------------------------------
(* The request of the engine *)

\* validateBrowserActions
ActionValid(action) ==
    CASE action.kind \in {"click", "fill", "wait_for_selector"} -> action.selector # ""
      [] action.kind = "evaluate" -> action.value # ""
      [] OTHER -> FALSE

\* validateBrowserProxy
ProxyValid(proxy) ==
    IF proxy.server = "" THEN proxy.user = "" ELSE proxy.server # "bad"

\* validateBrowserScreenshot
ShotValid(shot) == shot.enabled => ~(shot.selector # "" /\ shot.fullPage)

\* validateBrowserOptions, with validateBrowserStealth
Valid(opts) ==
    /\ ~opts.switches["solveCloudflare"]
    /\ ProxyValid(opts.proxy)
    /\ opts.fields["cdpURL"] # "bad"
    /\ "" \notin Range(opts.flags)
    /\ opts.wait.state \in {"", "attached", "detached", "visible", "hidden"}
    /\ \A a \in Range(opts.actions) : ActionValid(a)
    /\ ShotValid(opts.shot)

\* applyBrowserStealthHeaders
StealthHeaders(headers, switches) ==
    LET generated == IF switches["generateHeaders"]
                     THEN SetDefault(SetDefault(SetDefault(SetDefault(headers,
                              "User-Agent", "stealth"), "Accept", "html"),
                              "Accept-Language", "en-US"), "Upgrade-Insecure-Requests", "1")
                     ELSE headers
    IN  IF ~switches["stealth"] THEN headers
        ELSE IF ~switches["googleReferer"] THEN generated
        ELSE [k \in DOMAIN generated \cup {"Referer"} |->
                IF k = "Referer" THEN <<"google">> ELSE generated[k]]

AppendUnique(flags, flag) == IF flag \in Range(flags) THEN flags ELSE Append(flags, flag)
\* browserStealthExtraFlags
StealthFlags(flags, switches) ==
    LET noRTC == IF switches["stealth"] /\ switches["blockWebRTC"]
                 THEN AppendUnique(flags, "webrtc-policy") ELSE flags
    IN  IF switches["stealth"] /\ switches["disableWebGL"]
        THEN AppendUnique(noRTC, "disable-features") ELSE noRTC

\* newBrowserRequest
NewBrowserRequest(given) ==
    LET opts == [given EXCEPT !.switches = NormalizeStealth(@)]
        named == SetDefault(SetDefault(opts.headers, "User-Agent", opts.fields["userAgent"]),
                            "Accept-Language", opts.fields["locale"])
        headers == StealthHeaders(named, opts.switches)
    IN  IF ~Valid(opts) THEN Refused
        ELSE [opts EXCEPT
                !.headers = headers,
                !.fields["userAgent"] = IF @ = "" THEN Get(headers, "User-Agent") ELSE @,
                !.flags = StealthFlags(@, opts.switches)]

AdDomains == {"ads"}
\* browserBlockedURLPatterns, as the set of the domains and resources they are about.
BlockedPatterns(request) ==
    (IF request.switches["disableResources"] THEN {"resources"} ELSE {})
        \cup (Range(request.blocked) \ {""})
        \cup (IF request.switches["blockAds"] THEN AdDomains ELSE {})

If(condition, step) == IF condition THEN <<step>> ELSE <<>>
\* ChromedpBrowserEngine.Fetch: what is done with the page, in its order.
PageSteps(request) ==
    If(BlockedPatterns(request) # {}, "block")
        \o If(request.fields["userAgent"] # "", "user agent")
        \o If(Named(request.headers) # {}, "headers")
        \o If(request.switches["stealth"] /\ request.switches["hideCanvas"], "script")
        \o If(request.cookies # <<>>, "cookies")
        \o <<"navigate">>
        \o [i \in DOMAIN request.actions |-> "action"]
        \o If(request.wait.selector # "", "wait")
        \o If(request.shot.enabled, "screenshot")
        \o <<"html">>

\* chromedpAllocatorContext: a browser elsewhere takes neither proxy nor flags.
Allocation(request) ==
    IF request.fields["cdpURL"] # "" THEN [server |-> "", flags |-> <<>>]
    ELSE [server |-> request.proxy.server, flags |-> request.flags]

\* What a spider's request on a browser session becomes, or Refused.
BrowserSent(session, adapter, request, rotated) ==
    NewBrowserRequest(MergeBrowserOptions(session, BrowserAdapterOptions(adapter, request, rotated).options))

----------------------------------------------------------------------------
(* What the layers promise *)

\* What any layer blocks is blocked for every request, and before the page is navigated.
BlockedByAnyLayer(session, adapter, request, rotated) ==
    LET sent == BrowserSent(session, adapter, request, rotated)
        layers == {session, adapter.options, request.options}
        blocked == UNION {BlockedPatterns(layer) : layer \in layers}
        steps == PageSteps(sent)
    IN  sent # Refused =>
        /\ blocked \subseteq BlockedPatterns(sent)
        /\ blocked # {} => \E i, j \in DOMAIN steps : i < j /\ steps[i] = "block" /\ steps[j] = "navigate"

\* The credentials a browser gets are those that were given with its proxy's server, and
\* the proxy a response names is the one its request was sent by.
ProxyKeptWhole(session, adapter, request, rotated) ==
    LET sent == BrowserSent(session, adapter, request, rotated)
        given == {session.proxy, adapter.options.proxy, request.options.proxy,
                  MetaProxy(request.meta), FromFetchProxy(rotated), NoServer}
        selected == BrowserAdapterOptions(adapter, request, rotated).selected
    IN  sent # Refused =>
        /\ sent.proxy \in given
        /\ selected # "" => sent.proxy.server = selected

\* A page is waited for as the nearest layer says that says anything of it: never for the
\* element of one layer in the state of another.
WaitKeptWhole(session, adapter, request, rotated) ==
    LET sent == BrowserSent(session, adapter, request, rotated) IN
    sent # Refused =>
        sent.wait = Nearest(<<request.options.wait, adapter.options.wait, session.wait>>, NoWait)

\* What the caller set stays: a header is made up only where no layer gave a value, but
\* for the referer that was asked for; and a page's user agent is the one of its headers
\* unless both were given.
BrowserHeadersKept(session, adapter, request, rotated) ==
    LET sent == BrowserSent(session, adapter, request, rotated)
        layers == <<request.headers, request.options.headers, adapter.options.headers, session.headers>>
        agents == {o.fields["userAgent"] : o \in {session, adapter.options, request.options}}
    IN  sent # Refused =>
        /\ \A k \in (UNION {Named(layers[i]) : i \in 1..4}) \ {"Referer"} :
              Head(Having(layers, k)) # "" => Get(sent.headers, k) = Head(Having(layers, k))
        /\ agents = {""} \/ Having(layers, "User-Agent") = <<>>
              => sent.fields["userAgent"] = Get(sent.headers, "User-Agent")
=============================================================================

------------------------------- MODULE Library -------------------------------
(***************************************************************************)
(* Functions of the library that keep no state: those that read robots.txt *)
(* (Robots), merge the options of a fetch (BrowserOptions) and search and  *)
(* compare pages (Adaptive).  A behaviour is one input given to one of     *)
(* them; the laws say what it makes of any input.                          *)
(***************************************************************************)
EXTENDS BrowserOptions, Robots, Adaptive

CONSTANTS
    RobotsFiles, AgentTokens, RobotsPaths, ConfiguredDelays,
    StaticFetches, BrowserFetches, RotatedProxy,
    ShapedPages, SimilarPages, Thresholds, SelectorTexts,
    MovedPages, SavedPrints, MinScores, SavedBranches, LostBranches, Savings

VARIABLE input      \* the function and, once there is one, its input

----------------------------------------------------------------------------
(* Inputs *)

\* A user agent's tokens are names, a configured delay is not negative.
ASSUME RobotsAssumption ==
    /\ \A lines \in RobotsFiles : IsFile(lines)
    /\ RobotsPaths \subseteq Names
    /\ ConfiguredDelays \subseteq Nat

\* Headers made by http.Header's Set and Add: a name has values.
Valued(headers) == \A k \in DOMAIN headers : headers[k] # <<>>
\* Options are structs: every layer has every field and switch.
StaticFields == {"impersonate", "http3", "body", "data", "json", "store"}
BrowserSwitches == StealthSwitches \cup {"stealth", "disableResources", "blockAds"}
BrowserFields == {"userAgent", "locale", "cdpURL"}
HaveAllOptions(layers) ==
    \A o \in layers : BrowserFields \subseteq DOMAIN o.fields /\ BrowserSwitches \subseteq DOMAIN o.switches
ASSUME OptionsAssumption ==
    /\ \A f \in StaticFetches :
          /\ StaticFields \subseteq DOMAIN f.adapter.fields
          /\ \A h \in {f.session.headers, f.adapter.headers, f.request.options.headers, f.request.headers} : Valued(h)
    /\ \A f \in BrowserFetches :
          /\ HaveAllOptions({f.session, f.adapter.options})
          /\ \A h \in {f.session.headers, f.adapter.options.headers, f.request.options.headers, f.request.headers} :
                Valued(h)
          /\ \A o \in {f.session, f.adapter.options, f.request.options} :
                o.blocked \in Seq(Range(o.blocked)) /\ o.actions \in Seq(Range(o.actions))

\* Pages as the parser makes them, prints as they are taken.  A lost branch is one that
\* no longer matches; a saving is a struct of options.
ASSUME PagesAssumption ==
    /\ \A page \in ShapedPages \cup MovedPages : IsPage(page)
    /\ SelectorTexts \subseteq Names
    /\ \A print \in SavedPrints : IsPrint(print)
    /\ MinScores \subseteq Int
    /\ \A lost \in LostBranches : ~lost.invalid /\ lost.matches = {} /\ lost.extraction = "element"
    /\ \A saving \in Savings :
          /\ DOMAIN saving = {"identifier", "autoSave", "adaptive", "percentage", "domain"}
          /\ saving.percentage \in Int

----------------------------------------------------------------------------
(* The machine *)

LibraryFunctions ==
    {"robots", "static options", "browser options", "shapes", "similar", "relocation", "selectors"}
Input(k, of) == [k |-> k, of |-> of]

LibraryInit == input \in {[k |-> f] : f \in LibraryFunctions}

Choose(k, inputs) ==
    /\ input = [k |-> k]
    /\ \E x \in inputs : input' = Input(k, x)

RobotsInput == Choose("robots", RobotsFiles)
OptionsInput == Choose("static options", StaticFetches) \/ Choose("browser options", BrowserFetches)
PagesInput ==
    \/ Choose("shapes", ShapedPages) \/ Choose("similar", SimilarPages)
    \/ Choose("relocation", MovedPages) \/ Choose("selectors", SelectorTexts)
LibraryNext == RobotsInput \/ OptionsInput \/ PagesInput

LibrarySpec == LibraryInit /\ [][LibraryNext]_input

----------------------------------------------------------------------------
(* Laws, of whatever input a function is given *)

Given(k) == input.k = k /\ "of" \in DOMAIN input

\* robots.txt: the verdict on a path is that of the most specific rule of the group that
\* names the agent best, the delay its strictest, and the two readers of a file agree.
\* (spiders/robots.go, fetchers/fetcher_safety.go)
RobotsRight ==
    Given("robots") =>
        /\ \A tokens \in AgentTokens, delay \in ConfiguredDelays : DelayRight(input.of, delay, tokens)
        /\ \A tokens \in AgentTokens, path \in RobotsPaths : VerdictRight(input.of, path, tokens)
        /\ \A path \in RobotsPaths : ReadersAgree(input.of, path)

\* Options: the route, each header and the wait of a fetch are those of the nearest layer
\* that gives any; what a layer blocks stays blocked.  (fetcher_session.go, session_adapters.go)
OptionsRight ==
    /\ Given("static options") =>
          /\ RouteOfNearestLayer(input.of.session, input.of.adapter, input.of.request)
          /\ HeaderOfNearestLayer(input.of.session, input.of.adapter, input.of.request)
    /\ Given("browser options") =>
          /\ BlockedByAnyLayer(input.of.session, input.of.adapter, input.of.request, RotatedProxy)
          /\ ProxyKeptWhole(input.of.session, input.of.adapter, input.of.request, RotatedProxy)
          /\ WaitKeptWhole(input.of.session, input.of.adapter, input.of.request, RotatedProxy)
          /\ BrowserHeadersKept(input.of.session, input.of.adapter, input.of.request, RotatedProxy)

\* Pages: the selector generated for an element finds it, likeness is mutual, the two
\* scanners of selectors agree, and relocation finds what was saved and did not move.
\* (parser/selector_generation.go, search.go, document.go; core/storage/score.go)
PagesRight ==
    /\ Given("shapes") => SelectorFindsElement(input.of)
    /\ Given("similar") =>
          \A t \in Thresholds, matchText \in BOOLEAN : SimilarIsMutual(input.of, t, matchText)
    /\ Given("relocation") =>
          /\ \A target \in SavedPrints, minScore \in MinScores : RelocationAgrees(input.of, target, minScore)
          /\ UnmovedIsFound(input.of, FullScore)
          /\ \A branch \in SavedBranches, lost \in LostBranches, saving \in Savings :
                SavedComesBack(input.of, branch, lost, saving)
    /\ Given("selectors") => ScannersAgree(input.of)
=============================================================================

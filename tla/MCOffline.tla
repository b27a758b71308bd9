------------------------------ MODULE MCOffline ------------------------------
(***************************************************************************)
(* What is used beside a crawl and a fetch: the stores on disk, and the    *)
(* functions that find links, translate selectors, read commands and rank  *)
(* results.  A behaviour is one of the stores, or one input given to one   *)
(* of the functions, which keep no state.                                  *)
(***************************************************************************)
EXTENDS MCStores, Sequences

L == INSTANCE MCLinks
T == INSTANCE MCTools

VARIABLE input      \* "stores", or a function and, once there is one, its input

ToolFunctions ==
    {"links", "rules", "sitemap", "translation", "words", "commands", "scripts", "providers", "results"}
Input(k, of) == [k |-> k, of |-> of]
Choose(k, inputs) == input = [k |-> k] /\ \E x \in inputs : input' = Input(k, x)

LinksInput == Choose("links", L!LinkInputs) \/ Choose("rules", L!RuleInputs)
\* A sitemap has up to six tokens.
SitemapInput ==
    \/ Choose("sitemap", {<<>>})
    \/ /\ input.k = "sitemap" /\ "of" \in DOMAIN input /\ Len(input.of) < 6
       /\ \E t \in L!Tokens : L!MayFollow(input.of, t) /\ input' = Input("sitemap", Append(input.of, t))
ToolsInput ==
    \/ Choose("translation", T!TranslationInputs)
    \/ Choose("words", T!WordInputs) \/ Choose("commands", T!Commands) \/ Choose("scripts", T!ScriptInputs)
    \/ Choose("providers", T!ProviderInputs) \/ Choose("results", T!ContainerInputs)

\* The medium is of no account to a function.
OfflineInit ==
    /\ MCInit
    /\ input \in {[k |-> f] : f \in ToolFunctions \cup {"stores"}}
    /\ input.k = "stores" \/ medium = "file"
OfflineNext ==
    \/ input.k = "stores" /\ MCNext /\ UNCHANGED input
    \/ (LinksInput \/ SitemapInput \/ ToolsInput) /\ UNCHANGED allVars
OfflineSpec == OfflineInit /\ [][OfflineNext]_<<input, allVars>>

----------------------------------------------------------------------------
Given(k) == input.k = k /\ "of" \in DOMAIN input

\* Links: those extracted are settled (extracting again yields them), kept apart by what
\* distinguishes them and on the allowed sites; of rules the first to find a link follows
\* it; a sitemap gives the URLs of its own entries.  (spiders/links.go, templates/)
LinksRight ==
    /\ Given("links") => L!LinkLaw(input.of)
    /\ Given("rules") => L!RuleLaw(input.of)
    /\ Given("sitemap") => L!SitemapLaw(input.of)

\* Tools: a selector is translated as meant, words and scripts come back as they were
\* quoted, a curl command is the request its options say; a key names one provider, and
\* results are merged and ranked by all that was found.
\* (core/translator, internal/cli/shell, integrations/gormes/statictools)
ToolsRight ==
    /\ Given("translation") => T!TranslationLaw(input.of)
    /\ Given("words") => T!WordLaw(input.of)
    /\ Given("commands") => T!RequestAsSaid(input.of)
    /\ Given("scripts") => T!ScriptLaw(input.of)
    /\ Given("providers") => T!ProvidersLaw(input.of)
    /\ Given("results") => T!ContainerLaw(input.of)
=============================================================================

------------------------------- MODULE MCTools -------------------------------
(* Inputs for the tools: selectors, commands and scripts, providers and results. *)
EXTENDS Shell, StaticTools

T == INSTANCE Translation

----------------------------------------------------------------------------
(* Selectors of up to two branches and two steps, whose values hold the    *)
(* characters that also separate the parts of a selector.                  *)

TestValues == {"x", ",", ">", "]"}
Tests ==
    {T!Test(k, <<>>, <<"x">>) : k \in {".", "#"}} \cup {T!Test("has", <<"k">>, <<>>)}
        \cup {T!Test(k, <<"k">>, <<v>>) : k \in {"equals", "contains"}, v \in TestValues}
        \cup {T!Test("equals", <<"k">>, <<>>)}
Simples == [tag : {"*", "a"}, tests : {<<>>} \cup {<<t>> : t \in Tests}]
Plain == [tag |-> "a", tests |-> <<>>]
Extractions == {T!Element, <<"text">>, <<"attr", "k">>}

\* One step, or two of which one may be tested.
Paths ==
    {<<[child |-> FALSE, simple |-> s]>> : s \in Simples \cup {[tag |-> "a", tests |-> <<t, u>>] : t, u \in Tests}}
        \cup {<<[child |-> FALSE, simple |-> s], [child |-> c, simple |-> Plain]>> : s \in Simples, c \in BOOLEAN}
        \cup {<<[child |-> FALSE, simple |-> Plain], [child |-> c, simple |-> s]>> : s \in Simples, c \in BOOLEAN}
Branches == [steps : Paths, extraction : Extractions]
ShortBranches == {b \in Branches : Len(b.steps) = 1 /\ Len(b.steps[1].simple.tests) <= 1}
Selectors == {<<b>> : b \in Branches} \cup {<<b, c>> : b, c \in ShortBranches}
TranslationInputs == [selector : Selectors, space : {<<>>, <<" ">>}, quote : T!Quotes]

TranslationLaw(x) == T!TranslatedAsMeant(x.selector, x.space, x.quote)

----------------------------------------------------------------------------
(* Words of up to two characters, all that mean something to a shell, and  *)
(* commands that say up to four things in every spelling.                  *)

Characters == {"n", Backslash, "'", "\"", "$", " ", "\n"}
Words == {<<>>} \cup {<<c>> : c \in Characters} \cup {<<c, d>> : c, d \in Characters}
Styles == {"bare", "'", "\"", "$'"}
Separators == {<<" ">>, <<"\n">>, <<" ", Backslash, "\n">>}
WordInputs == [words : {<<v, w>> : v \in Words, w \in {<<>>, <<"n">>, <<"$">>, <<"'">>}},
               styles : {<<s, t>> : s, t \in Styles}, separator : Separators]

Item(kind, option, value, inline) == [kind |-> kind, option |-> option, value |-> value, inline |-> inline]
ValuesOf == [method |-> {"PUT", "get"}, header |-> {"h: x", "Cookie: k=z", "h"}, cookie |-> {"k=x", "k=y"},
             data |-> {"d", "%"}, get |-> {""}, url |-> {"u", "v", "/p"}, noise |-> {""}, unknown |-> {""}]
Short == [method |-> "-X", header |-> "-H", cookie |-> "-b", data |-> "-d", get |-> "-G", url |-> None,
          noise |-> "-s", unknown |-> "-o"]
LongOf == [method |-> "--request", header |-> "--header", cookie |-> "--cookie", data |-> "--data", get |-> "--get",
           url |-> "--url", noise |-> "--compressed", unknown |-> "-o"]
\* Each thing in its short and in its long form.
Items == UNION {{Item(k, Short[k], v, FALSE), Item(k, LongOf[k], v, TRUE)} : <<k, v>> \in
                    UNION {{k} \X ValuesOf[k] : k \in DOMAIN ValuesOf}}
Commands == {<<a, b>> : a, b \in Items} \cup {<<a, b, c>> : a, b, c \in Items}
                \cup {<<a, b, c, d>> : a, b, c, d \in {x \in Items : x.option \in {"-X", "-d", "-G", None}}}

StringCharacters == {"n", Backslash, "'", ";", ",", "{", "}"}
Strings == {<<>>} \cup {<<c>> : c \in StringCharacters} \cup {<<c, d>> : c, d \in StringCharacters}
ScriptInputs == [values : Strings \X Strings, separator : {<<";">>, <<"\n", " ">>}]

WordLaw(x) == WordsComeBack(x.words, x.styles, x.separator)
ScriptLaw(x) == ScriptComesBack(x.values, x.separator)

----------------------------------------------------------------------------
(* Two or three providers that share a shortcut or a shortcut that is a    *)
(* name, and up to four results for two pages, some without URL or title.  *)

Providers == [name : {"a", "b", "c"}, shortcut : {"", "a", "x"}, enabled : BOOLEAN]
ProviderInputs ==
    [providers : {s \in [1..2 -> Providers] \cup [1..3 -> Providers] : \A i, j \in DOMAIN s : i # j => s[i].name # s[j].name},
     key : {"", "a", "x", "y"}]

Result(url, title, provider, fields, suggestions, weight) ==
    [url |-> url, title |-> title, provider |-> provider, fields |-> fields, suggestions |-> suggestions, weight |-> weight]
Results ==
    {Result("u", "", "p", {}, <<"s">>, 0), Result("u", "t", "q", {"f"}, <<"t", "s">>, 2), Result("u", "v", "p", {"f", "g"}, <<>>, 3),
     Result("v", "t", "q", {"g"}, <<"t", "t">>, 6), Result("", "t", "p", {}, <<>>, 2), Result("", "t", "q", {"f"}, <<"s">>, 1)}
ContainerInputs == UNION {[1..n -> Results] : n \in 1..4}

ProvidersLaw(x) == ProviderLaw(x.providers, x.key)
=============================================================================

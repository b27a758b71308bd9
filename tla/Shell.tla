-------------------------------- MODULE Shell --------------------------------
(***************************************************************************)
(* What the shell command reads: curl commands (curlcommand.go), and the   *)
(* statements of a script with their arguments (shell_command.go).  A text *)
(* is a sequence of characters.                                            *)
(***************************************************************************)
EXTENDS Sequences, SequencesExt, Integers, FiniteSets, FiniteSetsExt

None == ""
Blanks == {" ", "\n"}
Backslash == "\\"

TrimSpace(text) ==
    LET kept == {i \in DOMAIN text : text[i] \notin Blanks}
    IN  IF kept = {} THEN <<>> ELSE SubSeq(text, Min(kept), Max(kept))

----------------------------------------------------------------------------
(* The words of a curl command *)

\* Mutant: a backslash escapes in every quote.
StartsEscapeAnywhere(quote, r) == r = Backslash
\* shouldStartCurlEscape
StartsEscape(quote, r) == r = Backslash /\ quote # "'"

\* startSingleQuote and quoteCloses: $' opens a quote in which \n is a line break.
StartSingleQuote(s) ==
    IF s.current # <<>> /\ Last(s.current) = "$"
    THEN [s EXCEPT !.quote = "$'", !.current = Front(@), !.inWord = TRUE]
    ELSE [s EXCEPT !.quote = "'", !.inWord = TRUE]
Closes(quote, r) == r = (IF quote = "\"" THEN "\"" ELSE "'")

\* appendEscapedCurlRune: an escaped line break is nothing at all.
AppendEscaped(s, r) ==
    IF r = "\n" THEN [s EXCEPT !.escaped = FALSE]
    ELSE [s EXCEPT !.escaped = FALSE, !.inWord = TRUE,
                   !.current = Append(@, IF s.quote = "$'" /\ r = "n" THEN "\n" ELSE r)]

EndWord(s) == IF s.inWord THEN [s EXCEPT !.words = Append(@, s.current), !.current = <<>>, !.inWord = FALSE] ELSE s

SplitRune(s, r) ==
    CASE s.escaped -> AppendEscaped(s, r)
      [] ~s.escaped /\ StartsEscape(s.quote, r) -> [s EXCEPT !.escaped = TRUE]
      [] OTHER ->
            CASE s.quote # None /\ Closes(s.quote, r) -> [s EXCEPT !.quote = None]
              [] s.quote = None /\ r = "'" -> StartSingleQuote(s)
              [] s.quote = None /\ r = "\"" -> [s EXCEPT !.quote = r, !.inWord = TRUE]
              [] s.quote = None /\ r \in Blanks -> EndWord(s)
              [] OTHER -> [s EXCEPT !.current = Append(@, r), !.inWord = TRUE]

Unterminated == <<"unterminated quote">>
SplitWords(command) ==
    LET start == [words |-> <<>>, current |-> <<>>, inWord |-> FALSE, quote |-> None, escaped |-> FALSE]
        read == FoldLeft(SplitRune, start, command)
        closed == IF read.escaped THEN [read EXCEPT !.current = Append(@, Backslash), !.inWord = TRUE] ELSE read
    IN  IF closed.quote # None THEN Unterminated ELSE EndWord(closed).words

\* A word in one of the ways a shell quotes it.
Quoted(word, style) ==
    LET escaping(set) == FlattenSeq([i \in DOMAIN word |->
                            IF word[i] \in set THEN <<Backslash, word[i]>> ELSE <<word[i]>>])
    IN  CASE style = "bare" -> escaping({Backslash, "'", "\"", "$", " "})
          [] style = "'" -> <<"'">> \o word \o <<"'">>
          [] style = "\"" -> <<"\"">> \o escaping({Backslash, "\""}) \o <<"\"">>
          [] style = "$'" -> <<"$", "'">>
                \o FlattenSeq([i \in DOMAIN word |->
                        IF word[i] = "\n" THEN <<Backslash, "n">>
                        ELSE IF word[i] \in {Backslash, "'"} THEN <<Backslash, word[i]>> ELSE <<word[i]>>])
                \o <<"'">>
CanQuote(word, style) ==
    /\ style = "bare" => word # <<>> /\ "\n" \notin ToSet(word)
    /\ style = "'" => "'" \notin ToSet(word)

\* Words come back as they were, however each is quoted and whatever separates them.
\* (splitWords)
WordsComeBack(words, styles, separator) ==
    (\A i \in DOMAIN words : CanQuote(words[i], styles[i])) =>
        SplitWords(Quoted(words[1], styles[1]) \o separator \o Quoted(words[2], styles[2])) = words

----------------------------------------------------------------------------
(* The statements of a script *)

\* Mutant: an escaped quote ends a string.
SplitOutsideUnescaped(text, separators, nested) ==
    LET step(s, r) ==
            CASE s.quote # None -> [s EXCEPT !.current = Append(@, r), !.quote = IF r = @ THEN None ELSE @]
              [] s.quote = None /\ r \in separators /\ s.depth = 0 ->
                    [s EXCEPT !.parts = Append(@, TrimSpace(s.current)), !.current = <<>>]
              [] OTHER -> [s EXCEPT !.current = Append(@, r), !.quote = IF r \in {"'", "\""} THEN r ELSE None]
        s == FoldLeft(step, [parts |-> <<>>, current |-> <<>>, quote |-> None, depth |-> 0], text)
    IN  Append(s.parts, TrimSpace(s.current))
\* splitShellStatements, and with `nested` splitShellArguments: the text between separators
\* that are in no string and, nested, in no braces.  (One depth stands for that of braces
\* and that of brackets.)
SplitOutside(text, separators, nested) ==
    LET step(s, r) ==
            LET kept == [s EXCEPT !.current = Append(@, r)]
            IN  CASE s.escaped -> [kept EXCEPT !.escaped = FALSE]
                  [] ~s.escaped /\ s.quote # None /\ r = Backslash -> [kept EXCEPT !.escaped = TRUE]
                  [] ~s.escaped /\ s.quote # None /\ r # Backslash -> [kept EXCEPT !.quote = IF r = @ THEN None ELSE @]
                  [] OTHER ->
                        CASE r \in {"'", "\""} -> [kept EXCEPT !.quote = r]
                          [] nested /\ r = "{" -> [kept EXCEPT !.depth = @ + 1]
                          [] nested /\ r = "}" -> [kept EXCEPT !.depth = IF @ > 0 THEN @ - 1 ELSE 0]
                          [] r \in separators /\ s.depth = 0 ->
                                [s EXCEPT !.parts = Append(@, TrimSpace(s.current)), !.current = <<>>]
                          [] OTHER -> kept
        s == FoldLeft(step, [parts |-> <<>>, current |-> <<>>, quote |-> None, escaped |-> FALSE, depth |-> 0], text)
    IN  Append(s.parts, TrimSpace(s.current))

\* strings.ReplaceAll of a backslash and `c` by `c`
Unescaped(text, c) ==
    LET from[i \in 1..(Len(text) + 1)] ==
            IF i > Len(text) THEN <<>>
            ELSE IF i < Len(text) /\ text[i] = Backslash /\ text[i + 1] = c THEN <<c>> \o from[i + 2]
            ELSE <<text[i]>> \o from[i + 1]
    IN  from[1]
\* parseShellStringArg, of a string in single quotes
StringArg(raw) == Unescaped(Unescaped(SubSeq(raw, 2, Len(raw) - 1), Backslash), "'")

\* A script comes apart into its statements and a statement into its arguments, whatever
\* their strings hold.  (splitShellStatements, splitShellArguments, parseShellStringArg)
ScriptComesBack(values, separator) ==
    LET string(v) == <<"'">> \o FlattenSeq([i \in DOMAIN v |->
                        IF v[i] \in {Backslash, "'"} THEN <<Backslash, v[i]>> ELSE <<v[i]>>]) \o <<"'">>
        json == <<"{", ",", "}">>
        statement == string(values[1]) \o <<",">> \o json \o <<",", " ">> \o string(values[2])
        statements == SplitOutside(statement \o separator \o statement, {";", "\n"}, FALSE)
        arguments == SplitOutside(statements[2], {","}, TRUE)
    IN  /\ Len(statements) = 2 /\ statements[1] = statements[2]
        /\ Len(arguments) = 3 /\ arguments[2] = json
        /\ StringArg(arguments[1]) = values[1] /\ StringArg(arguments[3]) = values[2]

----------------------------------------------------------------------------
(* The request of a curl command.  A word has a text and, behind a "=",    *)
(* perhaps a value of its own.                                             *)

OptionsOf == [method |-> {"-X", "--request"}, header |-> {"-H", "--header"}, cookie |-> {"-b", "--cookie"},
              data |-> {"-d", "--data", "--data-raw", "--data-binary"}, get |-> {"-G", "--get"},
              url |-> {"--url"}, noise |-> {"--compressed", "-i", "--include", "-s", "--silent", "-v", "--verbose", "-k", "--insecure",
                        "-L", "--location"}]
Unknown == {"-o"}
KindOf(text) ==
    IF \E k \in DOMAIN OptionsOf : text \in OptionsOf[k] THEN CHOOSE k \in DOMAIN OptionsOf : text \in OptionsOf[k]
    ELSE IF text \in Unknown THEN "unknown" ELSE "positional"
Long == {"--request", "--header", "--cookie", "--data", "--data-raw", "--data-binary", "--get", "--url", "--compressed"}

Refuse(s) == [s EXCEPT !.refused = TRUE]
ToLower(method) == IF method = "PUT" THEN "put" ELSE method

\* mergeCookies, of the texts that give a cookie, as values and as headers
CookieIn == ("k=x" :> <<"k", "x">>) @@ ("k=y" :> <<"k", "y">>) @@ ("Cookie: k=z" :> <<"k", "z">>)
Bakes(s, value) == [s EXCEPT !.cookies[CookieIn[value][1]] = CookieIn[value][2]]

\* What ParseHeader, url.Parse and url.ParseQuery do not take: a header without a colon, an
\* address without a host, a percent sign with nothing behind it.
Malformed == [header |-> "h", url |-> "/p", data |-> "%"]

Give(s, kind, value) ==
    CASE kind = "method" -> [s EXCEPT !.method = ToLower(value), !.explicit = TRUE]
      [] kind = "header" /\ value = Malformed.header -> Refuse(s)
      [] kind = "header" /\ value \notin DOMAIN CookieIn \cup {Malformed.header} -> [s EXCEPT !.headers = Append(@, value)]
      [] kind \in {"header", "cookie"} /\ value \in DOMAIN CookieIn -> Bakes(s, value)
      [] kind = "data" -> [s EXCEPT !.data = Append(@, value)]
      [] kind = "url" -> [s EXCEPT !.url = value]
ReadWord(s, word) ==
    LET kind == KindOf(word.text)
    IN  IF s.refused THEN s
        ELSE IF s.wants # None THEN Give([s EXCEPT !.wants = None], s.wants, word.text)
        ELSE CASE kind = "get" -> [s EXCEPT !.forceQuery = TRUE]
               [] kind = "noise" -> s
               [] kind = "unknown" -> Refuse(s)
               [] kind = "positional" -> IF s.url # None THEN Refuse(s) ELSE [s EXCEPT !.url = word.text]
               [] OTHER -> IF word.inline # <<>> THEN Give(s, kind, word.inline[1]) ELSE [s EXCEPT !.wants = kind]

\* Mutant: data is sent with POST, whatever method the command asks for.
MethodWithBodyPosts(method, explicit) == "post"
\* methodWithBodyData, methodWithGetData
MethodWithBody(method, explicit) == IF ~explicit /\ method = "get" THEN "post" ELSE method
MethodWithGetData(method, explicit) == IF explicit THEN method ELSE "get"

Names == {"k", "l"}
NotARequest == [refused |-> TRUE]
Parse(words) ==
    LET start == [method |-> "get", explicit |-> FALSE, headers |-> <<>>, cookies |-> [n \in Names |-> None],
                  data |-> <<>>, forceQuery |-> FALSE, url |-> None, wants |-> None, refused |-> FALSE]
        s == FoldLeft(ReadWord, start, words)
        asQuery == s.data # <<>> /\ s.forceQuery
        asBody == s.data # <<>> /\ ~s.forceQuery
    IN  IF \/ s.refused \/ s.wants # None \/ s.url \in {None, Malformed.url}
           \/ asQuery /\ Malformed.data \in Range(s.data) THEN NotARequest
        ELSE [url |-> s.url, headers |-> s.headers, cookies |-> s.cookies,
              params |-> IF asQuery THEN s.data ELSE <<>>, body |-> IF asBody THEN s.data ELSE <<>>,
              method |-> IF asQuery THEN MethodWithGetData(s.method, s.explicit)
                         ELSE IF asBody THEN MethodWithBody(s.method, s.explicit) ELSE s.method]

\* What is said, each thing with the option it is said with, in the words of a command.
Said(items) == FlattenSeq([i \in DOMAIN items |->
    LET x == items[i] IN
    IF x.option = None THEN <<[text |-> x.value, inline |-> <<>>]>>
    ELSE IF x.kind \in {"get", "noise", "unknown"} THEN <<[text |-> x.option, inline |-> <<>>]>>
    ELSE IF x.option \in Long /\ x.inline THEN <<[text |-> x.option, inline |-> <<x.value>>]>>
    ELSE <<[text |-> x.option, inline |-> <<>>], [text |-> x.value, inline |-> <<>>]>>])

\* A request is what the options of its command say, whatever their spelling and whatever
\* stands between them, and there is none when something that counts is malformed; options of different kinds do not disturb each other.  (Parse)
RequestAsSaid(items) ==
    LET of(kind) == SelectSeq(items, LAMBDA x : x.kind = kind)
        values(kind) == [i \in DOMAIN of(kind) |-> of(kind)[i].value]
        query == of("get") # <<>>
        data == values("data")
        malformed == \/ Malformed.header \in Range(values("header"))
                     \/ query /\ Malformed.data \in Range(data)
        secondURL == \E i, j \in DOMAIN items : i < j /\ items[i].kind = "url" /\ items[j].kind = "url" /\ items[j].option = None
        cookie(n) == LET given == {i \in DOMAIN items : items[i].value \in DOMAIN CookieIn /\ CookieIn[items[i].value][1] = n}
                     IN  IF given = {} THEN None ELSE CookieIn[items[Max(given)].value][2]
        headers == SelectSeq(values("header"), LAMBDA v : v \notin DOMAIN CookieIn)
    IN  Parse(Said(items)) =
            IF \/ secondURL \/ of("unknown") # <<>> \/ malformed
               \/ of("url") = <<>> \/ Last(values("url")) = Malformed.url THEN NotARequest
            ELSE [url |-> Last(values("url")), headers |-> headers, cookies |-> [n \in Names |-> cookie(n)],
                  params |-> IF query THEN data ELSE <<>>, body |-> IF query THEN <<>> ELSE data,
                  method |-> IF of("method") # <<>> THEN ToLower(Last(values("method")))
                             ELSE IF data = <<>> \/ query THEN "get" ELSE "post"]
=============================================================================

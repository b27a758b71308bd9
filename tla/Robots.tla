------------------------------- MODULE Robots -------------------------------
(***************************************************************************)
(* robots.txt as spiders/robots.go reads it for a crawl, and as            *)
(* fetchers/fetcher_safety.go reads it for a single fetch.  A file is a    *)
(* sequence of lines without comments, a line a record with its key; names *)
(* of agents and paths are sequences of symbols, a user agent the sequence *)
(* of its product tokens.                                                  *)
(***************************************************************************)
EXTENDS Integers, Sequences, SequencesExt, FiniteSets

Longer(m, n) == IF m >= n THEN m ELSE n

\* The names of agents and paths, and the files there are.
Names == Seq(STRING)
IsLine(line) ==
    /\ line.key \in {"user-agent", "allow", "disallow"} => line.value \in Names
    /\ line.key = "crawl-delay" => line.value \in Int
    /\ line.key = "request-rate" => line.value \in [requests : Int, period : Nat]
IsFile(lines) == lines \in Seq(Range(lines)) /\ \A i \in DOMAIN lines : IsLine(lines[i])

----------------------------------------------------------------------------
(* Groups of lines *)

NoRate == [requests |-> 0, period |-> 0]
EmptyGroup == [agents |-> <<>>, rules |-> <<>>, delay |-> 0, rate |-> NoRate]
HasGroup(p) == p.group.agents # <<>>

Flush(p) ==
    [groups |-> IF HasGroup(p) THEN Append(p.groups, p.group) ELSE p.groups,
     group |-> EmptyGroup, directives |-> FALSE]

\* A delay or a rate that does not parse has no value and still is a directive.
Directive(p, line) ==
    LET q == [p EXCEPT !.directives = TRUE] IN
    CASE line.key \in {"allow", "disallow"} /\ line.value # <<>> ->
            [q EXCEPT !.group.rules =
                Append(@, [pattern |-> line.value, allow |-> line.key = "allow"])]
      [] line.key = "crawl-delay" /\ line.value >= 0 -> [q EXCEPT !.group.delay = line.value]
      [] line.key = "request-rate" /\ line.value.requests > 0 -> [q EXCEPT !.group.rate = line.value]
      [] OTHER -> q

Directives == {"allow", "disallow", "crawl-delay", "request-rate"}

\* Mutant: an agent after directives does not begin a group.
ReadLineOneBlock(p, line) ==
    CASE line.key = "blank" -> Flush(p)
      [] line.key = "user-agent" -> [p EXCEPT !.group.agents = Append(@, line.value)]
      [] line.key \in Directives /\ HasGroup(p) -> Directive(p, line)
      [] OTHER -> p

ReadLine(p, line) ==
    CASE line.key = "blank" -> Flush(p)
      [] line.key = "user-agent" ->
            LET q == IF HasGroup(p) /\ p.directives THEN Flush(p) ELSE p
            IN  [q EXCEPT !.group.agents = Append(@, line.value)]
      [] line.key \in Directives /\ HasGroup(p) -> Directive(p, line)
      [] OTHER -> p

ParseRobotsTxt(lines) ==
    Flush(FoldLeft(ReadLine, [groups |-> <<>>, group |-> EmptyGroup, directives |-> FALSE],
                   lines)).groups

----------------------------------------------------------------------------
(* The group of an agent *)

Star == <<"*">>

AgentMatchScore(agent, tokens) ==
    IF agent = <<>> THEN -1
    ELSE IF agent = Star THEN 1
    ELSE IF \E t \in DOMAIN tokens : IsPrefix(agent, tokens[t]) THEN Len(agent) + 1
    ELSE -1

GroupMatchScore(group, tokens) ==
    FoldLeft(LAMBDA best, agent : Longer(best, AgentMatchScore(agent, tokens)), -1, group.agents)

MatchingGroups(groups, tokens) ==
    FoldLeft(LAMBDA m, group :
                LET score == GroupMatchScore(group, tokens) IN
                IF score < 0 \/ score < m.best THEN m
                ELSE [best |-> score,
                      matches |-> Append(IF score > m.best THEN <<>> ELSE m.matches, group)],
             [best |-> -1, matches |-> <<>>], groups).matches

RateDelay(rate) == rate.period \div rate.requests

SlowerRate(left, right) ==
    IF left = NoRate THEN right
    ELSE IF right = NoRate THEN left
    ELSE IF RateDelay(right) > RateDelay(left) THEN right ELSE left

MergeGroups(groups) ==
    FoldLeft(LAMBDA merged, group :
                [agents |-> merged.agents \o group.agents,
                 rules |-> merged.rules \o group.rules,
                 delay |-> Longer(merged.delay, group.delay),
                 rate |-> SlowerRate(merged.rate, group.rate)],
             EmptyGroup, groups)

\* An agent without a group has no rules and no delays, as one whose group is empty.
GroupFor(groups, tokens) == MergeGroups(MatchingGroups(groups, tokens))

EffectiveDelay(configured, group) ==
    LET delay == Longer(configured, group.delay) IN
    IF group.rate.requests > 0 THEN Longer(RateDelay(group.rate), delay) ELSE delay

----------------------------------------------------------------------------
(* The rules of a group *)

EndAnchored(pattern) == pattern # <<>> /\ Last(pattern) = "$"
Unanchored(pattern) == IF EndAnchored(pattern) THEN Front(pattern) ELSE pattern
RuleLength(pattern) ==
    LET body == Unanchored(pattern) IN Cardinality({i \in DOMAIN body : body[i] # "*"})

\* The regular expression the pattern becomes, by the positions of the path it can have
\* come to after each of its symbols: a star stands for any symbols.
PatternMatches(pattern, path) ==
    LET body == Unanchored(pattern)
        reached[i \in 0..Len(body)] ==
            IF i = 0 THEN {0}
            ELSE IF body[i] = "*" THEN {k \in 0..Len(path) : \E j \in reached[i - 1] : j <= k}
            ELSE {k \in 1..Len(path) : k - 1 \in reached[i - 1] /\ path[k] = body[i]}
        ends == IF EndAnchored(pattern) THEN {Len(path)} ELSE 0..Len(path)
    IN  pattern # <<>> /\ reached[Len(body)] \cap ends # {}

\* Mutant: the last of the longest rules wins.
BestRuleLast(rules, lengths, matching) ==
    FoldLeft(LAMBDA best, rule :
                IF rule.pattern \in matching /\ lengths[rule.pattern] >= best.length
                THEN [length |-> lengths[rule.pattern], allow |-> rule.allow]
                ELSE best,
             [length |-> -1, allow |-> TRUE], rules)

\* Of the rules whose pattern is a matching one the longest wins, and on a tie one that
\* allows.
BestRule(rules, lengths, matching) ==
    FoldLeft(LAMBDA best, rule :
                LET length == lengths[rule.pattern] IN
                IF /\ rule.pattern \in matching
                   /\ length > best.length \/ (length = best.length /\ rule.allow)
                THEN [length |-> length, allow |-> rule.allow]
                ELSE best,
             [length |-> -1, allow |-> TRUE], rules)

Patterns(rules) == {rule.pattern : rule \in Range(rules)}
CanFetch(groups, path, tokens) ==
    LET rules == GroupFor(groups, tokens).rules
        lengths == [p \in Patterns(rules) |-> RuleLength(p)]
    IN  BestRule(rules, lengths, {p \in Patterns(rules) : PatternMatches(p, path)}).allow

----------------------------------------------------------------------------
(* The other reader: one group after another, the product's or the star's; *)
(* patterns are plain prefixes.                                            *)

Product == <<"g", "s">>

SafetyReadLine(p, line) ==
    CASE line.key = "blank" -> [p EXCEPT !.active = FALSE]
      [] line.key = "user-agent" -> [p EXCEPT !.active = line.value \in {Star, Product}]
      [] line.key \in {"allow", "disallow"} /\ p.active /\ line.value # <<>> ->
            [p EXCEPT !.rules = Append(@, [pattern |-> line.value, allow |-> line.key = "allow"])]
      [] OTHER -> p

ParseRobotsRules(lines) ==
    FoldLeft(SafetyReadLine, [active |-> FALSE, rules |-> <<>>], lines).rules

\* robotsRules.allowed, where every symbol of a pattern counts.
Allowed(rules, path) ==
    BestRule(rules, [p \in Patterns(rules) |-> Len(p)], {p \in Patterns(rules) : IsPrefix(p, path)}).allow

----------------------------------------------------------------------------
(* What both readers promise *)

IsDirective(line) == line.key \in Directives
IsAgent(line) == line.key = "user-agent"

\* The agent lines a directive line is about: those before it in its block, up to the
\* directives of an earlier group of the block.
AgentsOf(lines, i) ==
    {j \in 1..(i - 1) :
        /\ IsAgent(lines[j])
        /\ \A k \in j..i : lines[k].key # "blank"
        /\ \A k, l \in j..i : k < l => ~(IsDirective(lines[k]) /\ IsAgent(lines[l]))}

\* How well line i speaks to an agent, by the best of the agents it is about.
BestScore(scores) == CHOOSE s \in scores \cup {-1} : \A t \in scores \cup {-1} : s >= t
ScoreOf(lines, agentLines, tokens) ==
    BestScore({AgentMatchScore(lines[j].value, tokens) : j \in agentLines})
HasAgents(lines) == {j \in DOMAIN lines : IsAgent(lines[j])}

\* The directive lines an agent has to heed: those of the groups that name it best.
HeededLines(lines, tokens) ==
    LET top == ScoreOf(lines, HasAgents(lines), tokens) IN
    {i \in DOMAIN lines :
        /\ IsDirective(lines[i]) /\ AgentsOf(lines, i) # {}
        /\ top > 0 /\ ScoreOf(lines, AgentsOf(lines, i), tokens) = top}

\* The verdict on a path: some most specific matching rule allows, or none matches.
Verdict(rules, Matches(_)) ==
    LET matching == {r \in rules : r.value # <<>> /\ Matches(r.value)}
        longest == {r \in matching : \A q \in matching : RuleLength(r.value) >= RuleLength(q.value)}
    IN  matching = {} \/ \E r \in longest : r.key = "allow"

\* A pattern fits a path when its symbols can be placed on it in order: a letter just
\* after what comes before it, a star anywhere from there.
Fits(pattern, path) ==
    LET body == Unanchored(pattern) IN
    \E at \in [0..Len(body) -> 0..Len(path)] :
        /\ at[0] = 0
        /\ \A i \in 1..Len(body) :
              IF body[i] = "*" THEN at[i] >= at[i - 1]
              ELSE at[i] = at[i - 1] + 1 /\ path[at[i]] = body[i]
        /\ EndAnchored(pattern) => at[Len(body)] = Len(path)

RulesIn(lines, is) == {lines[i] : i \in {j \in is : lines[j].key \in {"allow", "disallow"}}}

VerdictRight(lines, path, tokens) ==
    CanFetch(ParseRobotsTxt(lines), path, tokens)
        = Verdict(RulesIn(lines, HeededLines(lines, tokens)),
                  LAMBDA pattern : Fits(pattern, path))

\* A crawl waits as long as the slowest of the delays it has to heed, where the last
\* delay of a group counts.
DelayParses(line) ==
    \/ line.key = "crawl-delay" /\ line.value >= 0
    \/ line.key = "request-rate" /\ line.value.requests > 0
LastOfKey(lines, is, i) == \A k \in is : k > i /\ AgentsOf(lines, k) = AgentsOf(lines, i)
                                => lines[k].key # lines[i].key
DelayRight(lines, configured, tokens) ==
    LET heeded == {i \in HeededLines(lines, tokens) : DelayParses(lines[i])}
        is == {i \in heeded : LastOfKey(lines, heeded, i)}
        delays == {lines[i].value : i \in {j \in is : lines[j].key = "crawl-delay"}}
        rates == {RateDelay(lines[i].value) : i \in {j \in is : lines[j].key = "request-rate"}}
    IN  EffectiveDelay(configured, GroupFor(ParseRobotsTxt(lines), tokens))
            = BestScore(delays \cup rates \cup {configured})

\* On files whose groups have one agent each, the star or the product alone, and whose
\* patterns are plain, the two readers agree.
PlainFile(lines) ==
    /\ \A i \in DOMAIN lines : lines[i].key \in {"allow", "disallow"} =>
            ~\E k \in DOMAIN lines[i].value : lines[i].value[k] \in {"*", "$"}
    /\ \A i, j \in DOMAIN lines : IsAgent(lines[i]) /\ IsAgent(lines[j]) =>
            lines[i].value = lines[j].value /\ lines[i].value \in {Star, Product}
    /\ \A i \in DOMAIN lines \ {1} : IsAgent(lines[i]) => ~IsAgent(lines[i - 1])
ReadersAgree(lines, path) ==
    PlainFile(lines) => (CanFetch(ParseRobotsTxt(lines), path, <<Product>>)
                        <=> Allowed(ParseRobotsRules(lines), path))
=============================================================================

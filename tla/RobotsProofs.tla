---------------------------- MODULE RobotsProofs ----------------------------
(***************************************************************************)
(* What robots.txt means to the crawl, for every file, agent, path and     *)
(* configured delay: the parser, the choice of a group and the matching of *)
(* patterns, each a fold or a recursion over its data, come to what the    *)
(* lines of the file say.                                                  *)
(*                                                                         *)
(* Induction is by sets: the numbers at which a property holds are a set   *)
(* that has 0 and, with each number, the next (SetInduction, UpTo).  A     *)
(* fold over a sequence has a recursion that takes its elements in turn    *)
(* (FoldIsRecursion), along which UpTo carries an invariant.               *)
(***************************************************************************)
EXTENDS Library, FiniteSetTheorems, WellFoundedInduction, TLAPS

----------------------------------------------------------------------------
(* Induction over numbers, and over what a fold goes through *)

\* Induction over the naturals, for a set.
LEMMA SetInduction ==
    ASSUME NEW S, 0 \in S, \A n \in Nat : n \in S => n + 1 \in S
    PROVE  Nat \subseteq S
  <1> DEFINE T == Nat \ S
             Below == {ss \in Nat \X Nat : ss[1] < ss[2]}
  <1>1. SUFFICES ASSUME T # {}
                 PROVE  FALSE
    OBVIOUS
  <1>2. PICK x \in T : \A y \in T : ~ (<<y, x>> \in Below)
    <2>1. T \subseteq Nat
      OBVIOUS
    <2>2. IsWellFoundedOn(Below, Nat)
      BY NatLessThanWellFounded DEF OpToRel
    <2> HIDE DEF T, Below
    <2> QED
      BY <1>1, <2>1, <2>2, WFMin
  <1>3. x # 0 /\ x - 1 \in Nat
    OBVIOUS
  <1>4. x - 1 \in S
    <2>1. <<x - 1, x>> \in Below
      BY <1>3
    <2> QED
      BY <1>2, <1>3, <2>1
  <1>5. x - 1 + 1 = x
    OBVIOUS
  <1> QED
    BY <1>3, <1>4, <1>5

\* ... up to a bound.
LEMMA UpTo ==
    ASSUME NEW n \in Nat, NEW S, 0 \in S, \A i \in 0..(n - 1) : i \in S => i + 1 \in S
    PROVE  0..n \subseteq S
  <1> DEFINE T == {i \in Nat : i <= n => i \in S}
  <1>1. \A i \in Nat : i \in T => i + 1 \in T
    OBVIOUS
  <1>2. 0 \in T
    OBVIOUS
  <1> HIDE DEF T
  <1>3. Nat \subseteq T
    BY <1>1, <1>2, SetInduction
  <1> QED
    BY <1>3 DEF T

\* A nonempty set of numbers up to a bound has a greatest.
LEMMA MaxUpTo ==
    ASSUME NEW n \in Nat, NEW s \in SUBSET (0..n), s # {}
    PROVE  Max(s) \in s /\ \A y \in s : Max(s) >= y
  <1> DEFINE Has(x) == \A t \in SUBSET (0..x) : t # {} => \E m \in t : \A y \in t : m >= y
             S == {x \in Nat : Has(x)}
  <1>1. 0 \in S
    <2>1. ASSUME NEW t \in SUBSET (0..0), t # {}
          PROVE  \E m \in t : \A y \in t : m >= y
      <3>1. PICK x \in t : TRUE
        BY <2>1
      <3>2. \A y \in t : y = 0
        OBVIOUS
      <3> QED
        BY <3>1, <3>2
    <2> QED
      BY <2>1
  <1>2. ASSUME NEW k \in Nat, k \in S
        PROVE  k + 1 \in S
    <2> SUFFICES ASSUME NEW t \in SUBSET (0..(k + 1)), t # {}
                 PROVE  \E m \in t : \A y \in t : m >= y
      OBVIOUS
    <2>1. CASE k + 1 \in t
      BY <2>1
    <2>2. CASE k + 1 \notin t
      <3>1. t \in SUBSET (0..k)
        BY <2>2
      <3> QED
        BY <1>2, <3>1
    <2> QED
      BY <2>1, <2>2
  <1> HIDE DEF S
  <1>3. n \in S
    BY <1>1, <1>2, SetInduction
  <1>4. \E m \in s : \A y \in s : m >= y
    BY <1>3 DEF S
  <1> QED
    BY <1>4 DEF Max

LEMMA MaxOfPrefix ==
    ASSUME NEW i \in Nat, i > 0
    PROVE  Max(1..i) = i /\ (1..i) \ {i} = 1..(i - 1) /\ 1..i # {}
  <1>1. Max(1..i) \in 1..i /\ \A y \in 1..i : Max(1..i) >= y
    <2>1. 1..i \in SUBSET (0..i) /\ 1..i # {}
      OBVIOUS
    <2> HIDE DEF Max
    <2> QED
      BY <2>1, MaxUpTo
  <1> QED
    BY <1>1

\* What is computed step by step over a set of positions, the last of them last, is some
\* function: FoldLeft is defined by such a one.
FoldsOf(S, n, step, base) ==
    {f \in [SUBSET (1..n) -> S] :
        \A s \in SUBSET (1..n) : f[s] = IF s = {} THEN base ELSE step[Max(s)][f[s \ {Max(s)}]]}

LEMMA FoldExists ==
    ASSUME NEW S, NEW n \in Nat, NEW step \in [1..n -> [S -> S]], NEW base \in S
    PROVE  FoldsOf(S, n, step, base) # {}
  <1> DEFINE Folds(k) == FoldsOf(S, k, step, base)
             K == {k \in Nat : k <= n => Folds(k) # {}}
  <1>1. 0 \in K
    <2>1. 1..0 = {} /\ SUBSET (1..0) = {{}}
      OBVIOUS
    <2> DEFINE f == [s \in SUBSET (1..0) |-> base]
    <2>2. f \in Folds(0)
      BY <2>1 DEF FoldsOf
    <2> HIDE DEF f, Folds
    <2> QED
      BY <2>2
  <1>2. ASSUME NEW k \in Nat, k \in K
        PROVE  k + 1 \in K
    <2> SUFFICES ASSUME k + 1 <= n
                 PROVE  Folds(k + 1) # {}
      OBVIOUS
    <2>1. PICK f : f \in Folds(k)
      <3> HIDE DEF Folds
      <3> QED
        BY <1>2
    <2>a. /\ f \in [SUBSET (1..k) -> S]
          /\ \A s \in SUBSET (1..k) : f[s] = IF s = {} THEN base ELSE step[Max(s)][f[s \ {Max(s)}]]
      BY <2>1 DEF FoldsOf
    <2> HIDE DEF K, Folds
    <2> DEFINE g == [s \in SUBSET (1..(k + 1)) |->
                        IF k + 1 \in s THEN step[k + 1][f[s \ {k + 1}]] ELSE f[s]]
    <2>2. \A s \in SUBSET (1..(k + 1)) : s \ {k + 1} \in SUBSET (1..k)
      OBVIOUS
    <2>3. \A s \in SUBSET (1..(k + 1)) : k + 1 \notin s => s \in SUBSET (1..k)
      BY <2>2
    <2>4. step[k + 1] \in [S -> S]
      OBVIOUS
    <2>5. g \in [SUBSET (1..(k + 1)) -> S]
      BY <2>2, <2>3, <2>4, <2>a
    <2>6. ASSUME NEW s \in SUBSET (1..(k + 1))
          PROVE  g[s] = IF s = {} THEN base ELSE step[Max(s)][g[s \ {Max(s)}]]
      <3>1. CASE k + 1 \in s
        <4>1. Max(s) = k + 1
          <5> HIDE DEF g
          <5>1. s \in SUBSET (0..(k + 1))
            OBVIOUS
          <5>2. Max(s) \in s /\ Max(s) >= k + 1
            <6>1. s # {} /\ k + 1 \in Nat
              BY <3>1
            <6> QED
              BY <3>1, <5>1, <6>1, MaxUpTo
          <5>3. Max(s) \in 1..(k + 1)
            BY <5>2
          <5> QED
            BY <5>2, <5>3
        <4>2. g[s] = step[k + 1][f[s \ {k + 1}]] /\ g[s \ {k + 1}] = f[s \ {k + 1}]
          BY <3>1
        <4> HIDE DEF g
        <4> QED
          BY <3>1, <4>1, <4>2
      <3>2. CASE k + 1 \notin s
        <4>1. s \in SUBSET (1..k)
          BY <2>3, <3>2
        <4>2. s # {} => Max(s) \in s
          <5>1. s \in SUBSET (0..k)
            BY <4>1
          <5> HIDE DEF g
          <5> QED
            BY <5>1, MaxUpTo
        <4>3. s \ {Max(s)} \in SUBSET (1..k)
          BY <4>1
        <4>4. \A t \in SUBSET (1..k) : g[t] = f[t]
          OBVIOUS
        <4> HIDE DEF g
        <4> QED
          BY <2>a, <4>1, <4>3, <4>4
      <3> QED
        BY <3>1, <3>2
    <2> HIDE DEF g
    <2>7. g \in Folds(k + 1)
      BY <2>5, <2>6 DEF FoldsOf, Folds
    <2> QED
      BY <2>7
  <1> HIDE DEF K, Folds
  <1>3. n \in K
    BY <1>1, <1>2, SetInduction
  <1>4. Folds(n) # {}
    BY <1>3 DEF K
  <1> QED
    BY <1>4 DEF Folds

\* A function on the numbers up to a bound may be defined from each value to the next.
RecursionsOf(S, n, step, base) ==
    {f \in [0..n -> S] : f[0] = base /\ \A i \in 1..n : f[i] = step[i][f[i - 1]]}

LEMMA RecursionExists ==
    ASSUME NEW S, NEW n \in Nat, NEW step \in [1..n -> [S -> S]], NEW base \in S
    PROVE  RecursionsOf(S, n, step, base) # {}
  <1> DEFINE K == {k \in Nat : k <= n => RecursionsOf(S, k, step, base) # {}}
  <1>1. 0 \in K
    <2> DEFINE f == [i \in 0..0 |-> base]
    <2>1. f \in RecursionsOf(S, 0, step, base)
      BY DEF RecursionsOf
    <2> HIDE DEF f
    <2> QED
      BY <2>1
  <1>2. ASSUME NEW k \in Nat, k \in K
        PROVE  k + 1 \in K
    <2> SUFFICES ASSUME k + 1 <= n
                 PROVE  RecursionsOf(S, k + 1, step, base) # {}
      OBVIOUS
    <2>1. PICK f : f \in RecursionsOf(S, k, step, base)
      BY <1>2
    <2>2. f \in [0..k -> S] /\ f[0] = base /\ \A i \in 1..k : f[i] = step[i][f[i - 1]]
      BY <2>1 DEF RecursionsOf
    <2> HIDE DEF K
    <2> DEFINE g == [i \in 0..(k + 1) |-> IF i = k + 1 THEN step[k + 1][f[k]] ELSE f[i]]
    <2>3. g \in [0..(k + 1) -> S]
      BY <2>2
    <2>4. g[0] = base
      BY <2>2
    <2>5. ASSUME NEW i \in 1..(k + 1)
          PROVE  g[i] = step[i][g[i - 1]]
      BY <2>2
    <2> HIDE DEF g
    <2>6. g \in RecursionsOf(S, k + 1, step, base)
      BY <2>3, <2>4, <2>5 DEF RecursionsOf
    <2> QED
      BY <2>6
  <1> HIDE DEF K
  <1>3. n \in K
    BY <1>1, <1>2, SetInduction
  <1> QED
    BY <1>3 DEF K

\* A fold, as it is defined, goes from each position to the next.
Folds(f, S, n, step, base) ==
    /\ n \in Nat /\ base \in S /\ step \in [1..n -> [S -> S]]
    /\ f[{}] = base
    /\ \A s \in SUBSET (1..n) : s # {} /\ f[s \ {Max(s)}] \in S => f[s] = step[Max(s)][f[s \ {Max(s)}]]
GoesStepByStep(f, S, n, step, base) == \E F \in RecursionsOf(S, n, step, base) : F[n] = f[1..n]

LEMMA FoldIsRecursion ==
    ASSUME NEW S, NEW n, NEW step, NEW base, NEW f, Folds(f, S, n, step, base)
    PROVE  GoesStepByStep(f, S, n, step, base)
  <1>0. /\ n \in Nat /\ base \in S /\ step \in [1..n -> [S -> S]]
        /\ f[{}] = base
        /\ \A s \in SUBSET (1..n) : s # {} /\ f[s \ {Max(s)}] \in S => f[s] = step[Max(s)][f[s \ {Max(s)}]]
    BY DEF Folds
  <1> DEFINE F == [i \in 0..n |-> f[1..i]]
             T == {i \in 0..n : F[i] \in S}
  <1>1. F[0] = base
    <2>1. 1..0 = {}
      OBVIOUS
    <2> QED
      BY <1>0, <2>1
  <1>2. ASSUME NEW i \in 1..n, F[i - 1] \in S
        PROVE  F[i] = step[i][F[i - 1]]
    <2>1. i \in Nat /\ i > 0
      BY <1>0
    <2>2. Max(1..i) = i /\ (1..i) \ {i} = 1..(i - 1) /\ 1..i # {}
      BY <2>1, MaxOfPrefix
    <2>3. 1..i \in SUBSET (1..n)
      BY <1>0
    <2>4. F[i] = f[1..i] /\ F[i - 1] = f[1..(i - 1)]
      BY <1>0
    <2> HIDE DEF F
    <2>5. f[1..i] = step[Max(1..i)][f[(1..i) \ {Max(1..i)}]]
      BY <1>0, <1>2, <2>2, <2>3, <2>4
    <2> QED
      BY <2>2, <2>4, <2>5
  <1> HIDE DEF F
  <1>3. 0..n \subseteq T
    <2>1. 0 \in T
      BY <1>0, <1>1
    <2>2. \A i \in 0..(n - 1) : i \in T => i + 1 \in T
      <3> SUFFICES ASSUME NEW i \in 0..(n - 1), i \in T
                   PROVE  i + 1 \in T
        OBVIOUS
      <3>1. i + 1 \in 1..n /\ i + 1 - 1 = i
        BY <1>0
      <3>2. F[i + 1] = step[i + 1][F[i]]
        BY <1>2, <3>1
      <3> QED
        BY <1>0, <3>1, <3>2
    <2> HIDE DEF T
    <2> QED
      BY <1>0, <2>1, <2>2, UpTo
  <1>4. F \in [0..n -> S]
    BY <1>3 DEF F
  <1>5. F \in RecursionsOf(S, n, step, base)
    <2>1. ASSUME NEW i \in 1..n
          PROVE  F[i] = step[i][F[i - 1]]
      <3>1. F[i - 1] \in S
        BY <1>0, <1>4
      <3> QED
        BY <1>2, <3>1
    <2> QED
      BY <1>1, <1>4, <2>1 DEF RecursionsOf
  <1>6. F[n] = f[1..n]
    BY <1>0 DEF F
  <1> QED
    BY <1>5, <1>6 DEF GoesStepByStep

LEMMA MaxIn ==
    ASSUME NEW n \in Nat, NEW s \in SUBSET (1..n), s # {}
    PROVE  Max(s) \in 1..n /\ s \ {Max(s)} \in SUBSET (1..n)
  <1>1. s \in SUBSET (0..n)
    OBVIOUS
  <1>2. Max(s) \in s
    BY <1>1, MaxUpTo
  <1> QED
    BY <1>2

----------------------------------------------------------------------------
(* Lines, groups and rules *)

Rules == [pattern : Names, allow : BOOLEAN]
Rates == {NoRate} \cup [requests : Nat \ {0}, period : Nat]
Groups == [agents : Seq(Names), rules : Seq(Rules), delay : Nat, rate : Rates]
Parsers == [groups : Seq(Groups), group : Groups, directives : BOOLEAN]

LEMMA ScoreIsInt ==
    ASSUME NEW agent \in Names, NEW tokens
    PROVE  AgentMatchScore(agent, tokens) \in Int /\ AgentMatchScore(agent, tokens) >= -1
  <1>1. Len(agent) \in Nat
    BY DEF Names
  <1> QED
    BY <1>1 DEF AgentMatchScore

LEMMA EmptyIsAGroup == EmptyGroup \in Groups
  <1>1. <<>> \in Seq(Names) /\ <<>> \in Seq(Rules)
    OBVIOUS
  <1>2. NoRate \in Rates
    BY DEF Rates
  <1> QED
    BY <1>1, <1>2 DEF EmptyGroup, Groups

LEMMA FlushReads ==
    ASSUME NEW p \in Parsers
    PROVE  Flush(p) \in Parsers
  <1>1. p.groups \in Seq(Groups) /\ p.group \in Groups
    BY DEF Parsers
  <1>2. Append(p.groups, p.group) \in Seq(Groups)
    BY <1>1
  <1> QED
    BY <1>1, <1>2, EmptyIsAGroup DEF Flush, Parsers

\* What a directive does to the group that is read.
LEMMA DirectiveIs ==
    ASSUME NEW p \in Parsers, NEW line, IsLine(line)
    PROVE  /\ Directive(p, line) \in Parsers
           /\ Directive(p, line).groups = p.groups /\ Directive(p, line).directives
           /\ Directive(p, line).group.agents = p.group.agents
           /\ Directive(p, line).group.rules =
                 IF line.key \in {"allow", "disallow"} /\ line.value # <<>>
                 THEN Append(p.group.rules, [pattern |-> line.value, allow |-> line.key = "allow"])
                 ELSE p.group.rules
           /\ Directive(p, line).group.delay =
                 IF line.key = "crawl-delay" /\ line.value >= 0 THEN line.value ELSE p.group.delay
           /\ Directive(p, line).group.rate =
                 IF line.key = "request-rate" /\ line.value.requests > 0 THEN line.value ELSE p.group.rate
  <1> DEFINE q == [p EXCEPT !.directives = TRUE]
             rule == [pattern |-> line.value, allow |-> line.key = "allow"]
  <1>1. /\ q \in Parsers /\ q.groups = p.groups /\ q.group = p.group /\ q.directives
    BY DEF Parsers
  <1>2. /\ q.group \in Groups
        /\ q.group.agents \in Seq(Names) /\ q.group.rules \in Seq(Rules)
        /\ q.group.delay \in Nat /\ q.group.rate \in Rates
    BY <1>1 DEF Parsers, Groups
  <1> HIDE DEF q
  <1>3. CASE line.key \in {"allow", "disallow"} /\ line.value # <<>>
    <2>1. Directive(p, line) = [q EXCEPT !.group.rules = Append(@, rule)]
      BY <1>3 DEF Directive, q
    <2>2. rule \in Rules
      BY <1>3 DEF IsLine, Rules
    <2> DEFINE rules == Append(q.group.rules, rule)
    <2>3. rules \in Seq(Rules)
      BY <1>2, <2>2
    <2>4. Directive(p, line) = [q EXCEPT !.group.rules = rules]
      BY <1>1, <2>1 DEF Parsers, Groups
    <2> HIDE DEF rules
    <2>5. Directive(p, line) \in Parsers
      BY <1>1, <1>2, <2>3, <2>4 DEF Parsers, Groups
    <2>6. /\ Directive(p, line).groups = p.groups /\ Directive(p, line).directives
          /\ Directive(p, line).group = [q.group EXCEPT !.rules = rules]
      BY <1>1, <1>2, <2>4 DEF Parsers
    <2>7. /\ Directive(p, line).group.agents = p.group.agents /\ Directive(p, line).group.rules = rules
          /\ Directive(p, line).group.delay = p.group.delay /\ Directive(p, line).group.rate = p.group.rate
      BY <1>1, <1>2, <2>6 DEF Groups
    <2> QED
      BY <1>1, <1>3, <2>5, <2>6, <2>7 DEF rules
  <1>4. CASE line.key = "crawl-delay" /\ line.value >= 0
    <2>1. Directive(p, line) = [q EXCEPT !.group.delay = line.value]
      BY <1>4 DEF Directive, q
    <2>2. line.value \in Nat
      BY <1>4 DEF IsLine
    <2>3. Directive(p, line) \in Parsers
      BY <1>1, <1>2, <2>1, <2>2 DEF Parsers, Groups
    <2>4. /\ Directive(p, line).groups = p.groups /\ Directive(p, line).directives
          /\ Directive(p, line).group = [q.group EXCEPT !.delay = line.value]
      BY <1>1, <1>2, <2>1 DEF Parsers
    <2>5. /\ Directive(p, line).group.agents = p.group.agents /\ Directive(p, line).group.rules = p.group.rules
          /\ Directive(p, line).group.delay = line.value /\ Directive(p, line).group.rate = p.group.rate
      BY <1>1, <1>2, <2>4 DEF Groups
    <2> QED
      BY <1>1, <1>4, <2>3, <2>4, <2>5
  <1>5. CASE line.key = "request-rate" /\ line.value.requests > 0
    <2>1. Directive(p, line) = [q EXCEPT !.group.rate = line.value]
      BY <1>5 DEF Directive, q
    <2>2. line.value \in Rates
      BY <1>5 DEF IsLine, Rates
    <2>3. Directive(p, line) \in Parsers
      BY <1>1, <1>2, <2>1, <2>2 DEF Parsers, Groups
    <2>4. /\ Directive(p, line).groups = p.groups /\ Directive(p, line).directives
          /\ Directive(p, line).group = [q.group EXCEPT !.rate = line.value]
      BY <1>1, <1>2, <2>1 DEF Parsers
    <2>5. /\ Directive(p, line).group.agents = p.group.agents /\ Directive(p, line).group.rules = p.group.rules
          /\ Directive(p, line).group.delay = p.group.delay /\ Directive(p, line).group.rate = line.value
      BY <1>1, <1>2, <2>4 DEF Groups
    <2> QED
      BY <1>1, <1>5, <2>3, <2>4, <2>5
  <1>6. CASE /\ ~ (line.key \in {"allow", "disallow"} /\ line.value # <<>>)
             /\ ~ (line.key = "crawl-delay" /\ line.value >= 0)
             /\ ~ (line.key = "request-rate" /\ line.value.requests > 0)
    <2>1. Directive(p, line) = q
      BY <1>6 DEF Directive, q
    <2> QED
      BY <1>1, <1>2, <1>6, <2>1
  <1> QED
    BY <1>3, <1>4, <1>5, <1>6

LEMMA ReadLineReads ==
    ASSUME NEW p \in Parsers, NEW line, IsLine(line)
    PROVE  ReadLine(p, line) \in Parsers
  <1>1. CASE line.key = "user-agent"
    <2> DEFINE q == IF HasGroup(p) /\ p.directives THEN Flush(p) ELSE p
    <2>1. q \in Parsers
      BY FlushReads
    <2>2. ReadLine(p, line) = [q EXCEPT !.group.agents = Append(@, line.value)]
      BY <1>1 DEF ReadLine, Directives
    <2> HIDE DEF q
    <2>3. Append(q.group.agents, line.value) \in Seq(Names)
      BY <1>1, <2>1 DEF Parsers, Groups, IsLine
    <2> QED
      BY <2>1, <2>2, <2>3 DEF Parsers, Groups
  <1>2. CASE line.key # "user-agent"
    BY <1>2, FlushReads, DirectiveIs DEF ReadLine
  <1> QED
    BY <1>1, <1>2

LEMMA RangeOfConcat ==
    ASSUME NEW S, NEW s \in Seq(S), NEW t \in Seq(S)
    PROVE  Range(s \o t) = Range(s) \cup Range(t)
  <1>1. \A i \in 1..Len(t) : Len(s) + i \in 1..Len(s \o t) /\ (s \o t)[Len(s) + i] = t[i]
    OBVIOUS
  <1>2. \A i \in 1..Len(s) : i \in 1..Len(s \o t) /\ (s \o t)[i] = s[i]
    OBVIOUS
  <1>3. \A i \in 1..Len(s \o t) : i \in 1..Len(s) \/ (i - Len(s) \in 1..Len(t) /\ i = Len(s) + (i - Len(s)))
    OBVIOUS
  <1>4. DOMAIN s = 1..Len(s) /\ DOMAIN t = 1..Len(t) /\ DOMAIN (s \o t) = 1..Len(s \o t)
    OBVIOUS
  <1>5. ASSUME NEW x \in Range(s \o t)
        PROVE  x \in Range(s) \cup Range(t)
    BY <1>1, <1>2, <1>3, <1>4 DEF Range
  <1>6. ASSUME NEW x \in Range(s) \cup Range(t)
        PROVE  x \in Range(s \o t)
    BY <1>1, <1>2, <1>4 DEF Range
  <1> QED
    BY <1>5, <1>6

LEMMA RangeOfAppend ==
    ASSUME NEW S, NEW s \in Seq(S), NEW x \in S
    PROVE  Range(Append(s, x)) = Range(s) \cup {x}
  <1>1. DOMAIN s = 1..Len(s) /\ DOMAIN Append(s, x) = 1..(Len(s) + 1) /\ Len(s) \in Nat
    OBVIOUS
  <1>2. \A i \in 1..Len(s) : Append(s, x)[i] = s[i]
    OBVIOUS
  <1>3. Append(s, x)[Len(s) + 1] = x
    OBVIOUS
  <1>4. 1..(Len(s) + 1) = (1..Len(s)) \cup {Len(s) + 1}
    BY <1>1
  <1> QED
    BY <1>1, <1>2, <1>3, <1>4 DEF Range

\* How the lines of a file are read one after another.
LEMMA ParseSteps ==
    ASSUME NEW L, \A l \in L : IsLine(l), NEW lines \in Seq(L)
    PROVE  \E F \in [0..Len(lines) -> Parsers] :
              /\ F[0] = [groups |-> <<>>, group |-> EmptyGroup, directives |-> FALSE]
              /\ \A i \in 1..Len(lines) : F[i] = ReadLine(F[i - 1], lines[i])
              /\ ParseRobotsTxt(lines) = Flush(F[Len(lines)]).groups
  <1> DEFINE n == Len(lines)
             S == Parsers
             step == [k \in 1..n |-> [p \in S |-> ReadLine(p, lines[k])]]
             Value(f, s) == IF s = {} THEN [groups |-> <<>>, group |-> EmptyGroup, directives |-> FALSE] ELSE ReadLine(f[s \ {Max(s)}], lines[Max(s)])
             Is(f) == f = [s \in SUBSET DOMAIN lines |-> Value(f, s)]
             f == CHOOSE g : Is(g)
  <1>1. n \in Nat /\ DOMAIN lines = 1..n
    OBVIOUS
  <1>2. [groups |-> <<>>, group |-> EmptyGroup, directives |-> FALSE] \in S
    <2>1. <<>> \in Seq(Groups)
      OBVIOUS
    <2> QED
      BY <2>1, EmptyIsAGroup DEF Parsers
  <1>3. \A p \in S, k \in 1..n : ReadLine(p, lines[k]) \in S
    <2> SUFFICES ASSUME NEW p \in S, NEW k \in 1..n
                 PROVE  ReadLine(p, lines[k]) \in S
      OBVIOUS
    <2>1. IsLine(lines[k])
      OBVIOUS
    <2> QED
      BY <2>1, ReadLineReads
  <1>4. step \in [1..n -> [S -> S]]
    <2> HIDE DEF S, n
    <2> QED
      BY <1>3
  <1>5. ParseRobotsTxt(lines) = Flush(f[DOMAIN lines]).groups
    BY DEF ParseRobotsTxt, FoldLeft, MapThenFoldSet
  <1>6. PICK g : g \in FoldsOf(S, n, step, [groups |-> <<>>, group |-> EmptyGroup, directives |-> FALSE])
    <2> DEFINE b == [groups |-> <<>>, group |-> EmptyGroup, directives |-> FALSE]
    <2>1. b \in S /\ FoldsOf(S, n, step, b) = FoldsOf(S, n, step, [groups |-> <<>>, group |-> EmptyGroup, directives |-> FALSE])
      BY <1>2
    <2> HIDE DEF b
    <2> HIDE DEF S, n, step
    <2> QED
      BY <1>1, <1>2, <1>4, <2>1, FoldExists
  <1>7. Is(g)
    <2>1. g \in [SUBSET (1..n) -> S]
      <3> HIDE DEF S, n, step
      <3> QED
        BY <1>6 DEF FoldsOf
    <2>2. ASSUME NEW s \in SUBSET (1..n)
          PROVE  g[s] = Value(g, s)
      <3>1. CASE s = {}
        <4>1. g[s] = [groups |-> <<>>, group |-> EmptyGroup, directives |-> FALSE]
          <5> HIDE DEF S, n, step
          <5> QED
            BY <1>6, <3>1 DEF FoldsOf
        <4> QED
          BY <3>1, <4>1
      <3>2. CASE s # {}
        <4>1. Max(s) \in 1..n /\ s \ {Max(s)} \in SUBSET (1..n)
          <5> HIDE DEF n
          <5> QED
            BY <1>1, <3>2, MaxIn
        <4> HIDE DEF n, S
        <4>2. g[s] = step[Max(s)][g[s \ {Max(s)}]]
          <5> HIDE DEF step
          <5> QED
            BY <1>6, <3>2 DEF FoldsOf
        <4>3. g[s \ {Max(s)}] \in S
          BY <2>1, <4>1
        <4> QED
          BY <3>2, <4>1, <4>2, <4>3
      <3> QED
        BY <3>1, <3>2
    <2> HIDE DEF Value, n, S, step
    <2> QED
      BY <1>1, <2>1, <2>2
  <1>8. Is(f)
    <2> HIDE DEF Is
    <2> QED
      BY <1>7
  <1> HIDE DEF f
  <1>9. f[{}] = [groups |-> <<>>, group |-> EmptyGroup, directives |-> FALSE]
    BY <1>8
  <1>10. ASSUME NEW s \in SUBSET (1..n), s # {}, f[s \ {Max(s)}] \in S
         PROVE  f[s] = step[Max(s)][f[s \ {Max(s)}]]
    <2> HIDE DEF n, S
    <2>1. Max(s) \in 1..n
      BY <1>1, <1>10, MaxIn
    <2>2. f[s] = ReadLine(f[s \ {Max(s)}], lines[Max(s)])
      BY <1>1, <1>8, <1>10
    <2> QED
      BY <1>10, <2>1, <2>2
  <1> HIDE DEF S, n, step, Is, Value
  <1>11. \A s \in SUBSET (1..n) : s # {} /\ f[s \ {Max(s)}] \in S => f[s] = step[Max(s)][f[s \ {Max(s)}]]
    BY <1>10
  <1>12. Folds(f, S, n, step, [groups |-> <<>>, group |-> EmptyGroup, directives |-> FALSE])
    BY <1>1, <1>2, <1>4, <1>9, <1>11 DEF Folds
  <1>13. GoesStepByStep(f, S, n, step, [groups |-> <<>>, group |-> EmptyGroup, directives |-> FALSE])
    BY <1>12, FoldIsRecursion
  <1>14. PICK F \in RecursionsOf(S, n, step, [groups |-> <<>>, group |-> EmptyGroup, directives |-> FALSE]) : F[n] = f[1..n]
    BY <1>13 DEF GoesStepByStep
  <1>15. /\ F \in [0..n -> S] /\ F[0] = [groups |-> <<>>, group |-> EmptyGroup, directives |-> FALSE]
         /\ \A i \in 1..n : F[i] = step[i][F[i - 1]]
    BY <1>14 DEF RecursionsOf
  <1>16. ASSUME NEW i \in 1..n
         PROVE  F[i] = ReadLine(F[i - 1], lines[i])
    <2>1. F[i] = step[i][F[i - 1]] /\ F[i - 1] \in S
      BY <1>1, <1>15
    <2> QED
      BY <2>1 DEF step
  <1>17. ParseRobotsTxt(lines) = Flush(F[n]).groups
    BY <1>1, <1>5, <1>14
  <1> QED
    BY <1>15, <1>16, <1>17 DEF n, S

\* The best of the agents of a group.
LEMMA ScoreSteps ==
    ASSUME NEW tokens, NEW group, group.agents \in Seq(Names)
    PROVE  \E F \in [0..Len(group.agents) -> {i \in Int : i >= -1}] :
              /\ F[0] = -1
              /\ \A i \in 1..Len(group.agents) : F[i] = Longer(F[i - 1], AgentMatchScore(group.agents[i], tokens))
              /\ GroupMatchScore(group, tokens) = F[Len(group.agents)]
  <1> DEFINE n == Len(group.agents)
             S == {i \in Int : i >= -1}
             step == [k \in 1..n |-> [p \in S |-> Longer(p, AgentMatchScore(group.agents[k], tokens))]]
             Value(f, s) == IF s = {} THEN -1 ELSE Longer(f[s \ {Max(s)}], AgentMatchScore(group.agents[Max(s)], tokens))
             Is(f) == f = [s \in SUBSET DOMAIN group.agents |-> Value(f, s)]
             f == CHOOSE g : Is(g)
  <1>1. n \in Nat /\ DOMAIN group.agents = 1..n
    OBVIOUS
  <1>2. -1 \in S
    OBVIOUS
  <1>3. \A p \in S, k \in 1..n : Longer(p, AgentMatchScore(group.agents[k], tokens)) \in S
    <2> SUFFICES ASSUME NEW p \in S, NEW k \in 1..n
                 PROVE  Longer(p, AgentMatchScore(group.agents[k], tokens)) \in S
      OBVIOUS
    <2>1. group.agents[k] \in Names
      OBVIOUS
    <2>2. AgentMatchScore(group.agents[k], tokens) \in Int
      BY <2>1, ScoreIsInt
    <2> QED
      BY <2>2 DEF Longer
  <1>4. step \in [1..n -> [S -> S]]
    <2> HIDE DEF S, n
    <2> QED
      BY <1>3
  <1>5. GroupMatchScore(group, tokens) = f[DOMAIN group.agents]
    BY DEF GroupMatchScore, FoldLeft, MapThenFoldSet
  <1>6. PICK g : g \in FoldsOf(S, n, step, -1)
    <2> DEFINE b == -1
    <2>1. b \in S /\ FoldsOf(S, n, step, b) = FoldsOf(S, n, step, -1)
      BY <1>2
    <2> HIDE DEF b
    <2> HIDE DEF S, n, step
    <2> QED
      BY <1>1, <1>2, <1>4, <2>1, FoldExists
  <1>7. Is(g)
    <2>1. g \in [SUBSET (1..n) -> S]
      <3> HIDE DEF S, n, step
      <3> QED
        BY <1>6 DEF FoldsOf
    <2>2. ASSUME NEW s \in SUBSET (1..n)
          PROVE  g[s] = Value(g, s)
      <3>1. CASE s = {}
        <4>1. g[s] = -1
          <5> HIDE DEF S, n, step
          <5> QED
            BY <1>6, <3>1 DEF FoldsOf
        <4> QED
          BY <3>1, <4>1
      <3>2. CASE s # {}
        <4>1. Max(s) \in 1..n /\ s \ {Max(s)} \in SUBSET (1..n)
          <5> HIDE DEF n
          <5> QED
            BY <1>1, <3>2, MaxIn
        <4> HIDE DEF n, S
        <4>2. g[s] = step[Max(s)][g[s \ {Max(s)}]]
          <5> HIDE DEF step
          <5> QED
            BY <1>6, <3>2 DEF FoldsOf
        <4>3. g[s \ {Max(s)}] \in S
          BY <2>1, <4>1
        <4> QED
          BY <3>2, <4>1, <4>2, <4>3
      <3> QED
        BY <3>1, <3>2
    <2> HIDE DEF Value, n, S, step
    <2> QED
      BY <1>1, <2>1, <2>2
  <1>8. Is(f)
    <2> HIDE DEF Is
    <2> QED
      BY <1>7
  <1> HIDE DEF f
  <1>9. f[{}] = -1
    BY <1>8
  <1>10. ASSUME NEW s \in SUBSET (1..n), s # {}, f[s \ {Max(s)}] \in S
         PROVE  f[s] = step[Max(s)][f[s \ {Max(s)}]]
    <2> HIDE DEF n, S
    <2>1. Max(s) \in 1..n
      BY <1>1, <1>10, MaxIn
    <2>2. f[s] = Longer(f[s \ {Max(s)}], AgentMatchScore(group.agents[Max(s)], tokens))
      BY <1>1, <1>8, <1>10
    <2> QED
      BY <1>10, <2>1, <2>2
  <1> HIDE DEF S, n, step, Is, Value
  <1>11. \A s \in SUBSET (1..n) : s # {} /\ f[s \ {Max(s)}] \in S => f[s] = step[Max(s)][f[s \ {Max(s)}]]
    BY <1>10
  <1>12. Folds(f, S, n, step, -1)
    BY <1>1, <1>2, <1>4, <1>9, <1>11 DEF Folds
  <1>13. GoesStepByStep(f, S, n, step, -1)
    BY <1>12, FoldIsRecursion
  <1>14. PICK F \in RecursionsOf(S, n, step, -1) : F[n] = f[1..n]
    BY <1>13 DEF GoesStepByStep
  <1>15. /\ F \in [0..n -> S] /\ F[0] = -1
         /\ \A i \in 1..n : F[i] = step[i][F[i - 1]]
    BY <1>14 DEF RecursionsOf
  <1>16. ASSUME NEW i \in 1..n
         PROVE  F[i] = Longer(F[i - 1], AgentMatchScore(group.agents[i], tokens))
    <2>1. F[i] = step[i][F[i - 1]] /\ F[i - 1] \in S
      BY <1>1, <1>15
    <2> QED
      BY <2>1 DEF step
  <1>17. GroupMatchScore(group, tokens) = F[n]
    BY <1>1, <1>5, <1>14
  <1> QED
    BY <1>15, <1>16, <1>17 DEF n, S

\* s is the best of some scores, or -1.
IsBest(s, scores) == s \in scores \cup {-1} /\ \A t \in scores \cup {-1} : s >= t

LEMMA BestScoreIs ==
    ASSUME NEW scores \in SUBSET Int, NEW s, IsBest(s, scores)
    PROVE  BestScore(scores) = s
  <1>1. \A t \in scores \cup {-1} : t \in Int
    OBVIOUS
  <1>2. ASSUME NEW t, IsBest(t, scores)
        PROVE  t = s
    BY <1>1, <1>2 DEF IsBest
  <1>3. BestScore(scores) = CHOOSE t \in scores \cup {-1} : \A u \in scores \cup {-1} : t >= u
    BY DEF BestScore
  <1>4. IsBest(BestScore(scores), scores)
    BY <1>3 DEF IsBest
  <1> QED
    BY <1>2, <1>4

\* The better of the best of some scores and one more is the best of all.
LEMMA BestOfMore ==
    ASSUME NEW scores \in SUBSET Int, NEW s, NEW t \in Int, IsBest(s, scores)
    PROVE  IsBest(Longer(s, t), scores \cup {t}) \/ t < -1
  <1>1. s \in Int
    BY DEF IsBest
  <1> QED
    BY <1>1 DEF IsBest, Longer

LEMMA GroupScoreIs ==
    ASSUME NEW tokens, NEW group, group.agents \in Seq(Names)
    PROVE  /\ IsBest(GroupMatchScore(group, tokens), {AgentMatchScore(a, tokens) : a \in Range(group.agents)})
           /\ GroupMatchScore(group, tokens) \in Int
  <1> DEFINE agents == group.agents
             n == Len(agents)
             scores(i) == {AgentMatchScore(agents[k], tokens) : k \in 1..i}
  <1>1. n \in Nat /\ \A k \in 1..n : agents[k] \in Names
    OBVIOUS
  <1>2. PICK F \in [0..n -> {i \in Int : i >= -1}] :
              /\ F[0] = -1
              /\ \A i \in 1..n : F[i] = Longer(F[i - 1], AgentMatchScore(agents[i], tokens))
              /\ GroupMatchScore(group, tokens) = F[n]
    BY ScoreSteps
  <1>3. \A i \in 0..n : scores(i) \subseteq Int
    BY <1>1, ScoreIsInt
  <1> HIDE DEF n, agents
  <1> DEFINE T == {i \in 0..n : IsBest(F[i], scores(i))}
  <1>4. 0 \in T
    <2>1. scores(0) = {}
      OBVIOUS
    <2> QED
      BY <1>1, <1>2, <2>1 DEF IsBest
  <1>5. ASSUME NEW i \in 0..(n - 1), i \in T
        PROVE  i + 1 \in T
    <2>1. i \in 0..n /\ i + 1 \in 1..n /\ i + 1 \in 0..n /\ i + 1 - 1 = i
      BY <1>1
    <2> DEFINE t == AgentMatchScore(agents[i + 1], tokens)
    <2>2. F[i + 1] = Longer(F[i], t)
      BY <1>2, <2>1
    <2>3. scores(i + 1) = scores(i) \cup {t}
      <3>1. 1..(i + 1) = (1..i) \cup {i + 1}
        BY <2>1
      <3> QED
        BY <3>1
    <2>4. t \in Int /\ t >= -1
      BY <1>1, <2>1, ScoreIsInt
    <2>5. scores(i) \subseteq Int /\ IsBest(F[i], scores(i))
      BY <1>3, <1>5, <2>1
    <2> HIDE DEF t, scores
    <2>6. IsBest(Longer(F[i], t), scores(i) \cup {t})
      BY <2>4, <2>5, BestOfMore
    <2> QED
      BY <2>1, <2>2, <2>3, <2>6
  <1>6. IsBest(F[n], scores(n))
    <2> HIDE DEF T
    <2>1. n \in T
      <3>1. n \in 0..n
        BY <1>1
      <3> QED
        BY <1>1, <1>4, <1>5, <3>1, UpTo
    <2> QED
      BY <2>1 DEF T
  <1>7. scores(n) = {AgentMatchScore(a, tokens) : a \in Range(agents)}
    BY DEF Range, agents, n
  <1>8. F[n] \in Int
    BY <1>1, <1>2
  <1> HIDE DEF scores
  <1> QED
    BY <1>2, <1>6, <1>7, <1>8 DEF agents

\* What a group is to the groups that match best so far.
Matched(m, group, tokens) ==
    LET score == GroupMatchScore(group, tokens) IN
    IF score < 0 \/ score < m.best THEN m
    ELSE [best |-> score, matches |-> Append(IF score > m.best THEN <<>> ELSE m.matches, group)]

LEMMA MatchSteps ==
    ASSUME NEW tokens, NEW groups \in Seq(Groups)
    PROVE  \E F \in [0..Len(groups) -> [best : Int, matches : Seq(Groups)]] :
              /\ F[0] = [best |-> -1, matches |-> <<>>]
              /\ \A i \in 1..Len(groups) : F[i] = Matched(F[i - 1], groups[i], tokens)
              /\ MatchingGroups(groups, tokens) = F[Len(groups)].matches
  <1> DEFINE n == Len(groups)
             S == [best : Int, matches : Seq(Groups)]
             step == [k \in 1..n |-> [p \in S |-> Matched(p, groups[k], tokens)]]
             Value(f, s) == IF s = {} THEN [best |-> -1, matches |-> <<>>] ELSE Matched(f[s \ {Max(s)}], groups[Max(s)], tokens)
             Is(f) == f = [s \in SUBSET DOMAIN groups |-> Value(f, s)]
             f == CHOOSE g : Is(g)
  <1>1. n \in Nat /\ DOMAIN groups = 1..n
    OBVIOUS
  <1>2. [best |-> -1, matches |-> <<>>] \in S
    OBVIOUS
  <1>3. \A p \in S, k \in 1..n : Matched(p, groups[k], tokens) \in S
    <2> SUFFICES ASSUME NEW m \in S, NEW k \in 1..n
                 PROVE  Matched(m, groups[k], tokens) \in S
      OBVIOUS
    <2>1. groups[k] \in Groups
      OBVIOUS
    <2>2. GroupMatchScore(groups[k], tokens) \in Int
      BY <2>1, GroupScoreIs DEF Groups
    <2>3. Append(m.matches, groups[k]) \in Seq(Groups) /\ Append(<<>>, groups[k]) \in Seq(Groups)
      BY <2>1
    <2> QED
      BY <2>2, <2>3 DEF Matched
  <1>4. step \in [1..n -> [S -> S]]
    <2> HIDE DEF S, n
    <2> QED
      BY <1>3
  <1>5. MatchingGroups(groups, tokens) = f[DOMAIN groups].matches
    BY DEF MatchingGroups, Matched, FoldLeft, MapThenFoldSet
  <1>6. PICK g : g \in FoldsOf(S, n, step, [best |-> -1, matches |-> <<>>])
    <2> DEFINE b == [best |-> -1, matches |-> <<>>]
    <2>1. b \in S /\ FoldsOf(S, n, step, b) = FoldsOf(S, n, step, [best |-> -1, matches |-> <<>>])
      BY <1>2
    <2> HIDE DEF b
    <2> HIDE DEF S, n, step
    <2> QED
      BY <1>1, <1>2, <1>4, <2>1, FoldExists
  <1>7. Is(g)
    <2>1. g \in [SUBSET (1..n) -> S]
      <3> HIDE DEF S, n, step
      <3> QED
        BY <1>6 DEF FoldsOf
    <2>2. ASSUME NEW s \in SUBSET (1..n)
          PROVE  g[s] = Value(g, s)
      <3>1. CASE s = {}
        <4>1. g[s] = [best |-> -1, matches |-> <<>>]
          <5> HIDE DEF S, n, step
          <5> QED
            BY <1>6, <3>1 DEF FoldsOf
        <4> QED
          BY <3>1, <4>1
      <3>2. CASE s # {}
        <4>1. Max(s) \in 1..n /\ s \ {Max(s)} \in SUBSET (1..n)
          <5> HIDE DEF n
          <5> QED
            BY <1>1, <3>2, MaxIn
        <4> HIDE DEF n, S
        <4>2. g[s] = step[Max(s)][g[s \ {Max(s)}]]
          <5> HIDE DEF step
          <5> QED
            BY <1>6, <3>2 DEF FoldsOf
        <4>3. g[s \ {Max(s)}] \in S
          BY <2>1, <4>1
        <4> QED
          BY <3>2, <4>1, <4>2, <4>3
      <3> QED
        BY <3>1, <3>2
    <2> HIDE DEF Value, n, S, step
    <2> QED
      BY <1>1, <2>1, <2>2
  <1>8. Is(f)
    <2> HIDE DEF Is
    <2> QED
      BY <1>7
  <1> HIDE DEF f
  <1>9. f[{}] = [best |-> -1, matches |-> <<>>]
    BY <1>8
  <1>10. ASSUME NEW s \in SUBSET (1..n), s # {}, f[s \ {Max(s)}] \in S
         PROVE  f[s] = step[Max(s)][f[s \ {Max(s)}]]
    <2> HIDE DEF n, S
    <2>1. Max(s) \in 1..n
      BY <1>1, <1>10, MaxIn
    <2>2. f[s] = Matched(f[s \ {Max(s)}], groups[Max(s)], tokens)
      BY <1>1, <1>8, <1>10
    <2> QED
      BY <1>10, <2>1, <2>2
  <1> HIDE DEF S, n, step, Is, Value
  <1>11. \A s \in SUBSET (1..n) : s # {} /\ f[s \ {Max(s)}] \in S => f[s] = step[Max(s)][f[s \ {Max(s)}]]
    BY <1>10
  <1>12. Folds(f, S, n, step, [best |-> -1, matches |-> <<>>])
    BY <1>1, <1>2, <1>4, <1>9, <1>11 DEF Folds
  <1>13. GoesStepByStep(f, S, n, step, [best |-> -1, matches |-> <<>>])
    BY <1>12, FoldIsRecursion
  <1>14. PICK F \in RecursionsOf(S, n, step, [best |-> -1, matches |-> <<>>]) : F[n] = f[1..n]
    BY <1>13 DEF GoesStepByStep
  <1>15. /\ F \in [0..n -> S] /\ F[0] = [best |-> -1, matches |-> <<>>]
         /\ \A i \in 1..n : F[i] = step[i][F[i - 1]]
    BY <1>14 DEF RecursionsOf
  <1>16. ASSUME NEW i \in 1..n
         PROVE  F[i] = Matched(F[i - 1], groups[i], tokens)
    <2>1. F[i] = step[i][F[i - 1]] /\ F[i - 1] \in S
      BY <1>1, <1>15
    <2> QED
      BY <2>1 DEF step
  <1>17. MatchingGroups(groups, tokens) = F[n].matches
    BY <1>1, <1>5, <1>14
  <1> QED
    BY <1>15, <1>16, <1>17 DEF n, S

\* A group added to those before it.
Merged(merged, group) ==
    [agents |-> merged.agents \o group.agents,
     rules |-> merged.rules \o group.rules,
     delay |-> Longer(merged.delay, group.delay),
     rate |-> SlowerRate(merged.rate, group.rate)]

LEMMA SlowerIs ==
    ASSUME NEW left \in Rates, NEW right \in Rates
    PROVE  /\ SlowerRate(left, right) \in {left, right}
           /\ left # NoRate => SlowerRate(left, right) # NoRate /\ RateDelay(SlowerRate(left, right)) >= RateDelay(left)
           /\ right # NoRate => SlowerRate(left, right) # NoRate /\ RateDelay(SlowerRate(left, right)) >= RateDelay(right)
  <1>1. \A r \in Rates : r # NoRate => r.requests \in Nat \ {0} /\ r.period \in Nat
    BY DEF Rates
  <1>2. \A a \in Nat, b \in Nat \ {0} : a \div b \in Int
    OBVIOUS
  <1>3. \A r \in Rates : r # NoRate => RateDelay(r) \in Int
    BY <1>1, <1>2 DEF RateDelay
  <1> QED
    BY <1>3 DEF SlowerRate

LEMMA MergedIsAGroup ==
    ASSUME NEW merged \in Groups, NEW group \in Groups
    PROVE  /\ Merged(merged, group) \in Groups
           /\ Range(Merged(merged, group).rules) = Range(merged.rules) \cup Range(group.rules)
  <1>1. /\ merged.agents \in Seq(Names) /\ merged.rules \in Seq(Rules) /\ merged.delay \in Nat /\ merged.rate \in Rates
        /\ group.agents \in Seq(Names) /\ group.rules \in Seq(Rules) /\ group.delay \in Nat /\ group.rate \in Rates
    BY DEF Groups
  <1>2. SlowerRate(merged.rate, group.rate) \in Rates
    BY <1>1, SlowerIs
  <1>3. Longer(merged.delay, group.delay) \in Nat
    BY <1>1 DEF Longer
  <1>4. merged.agents \o group.agents \in Seq(Names) /\ merged.rules \o group.rules \in Seq(Rules)
    BY <1>1
  <1>5. Range(merged.rules \o group.rules) = Range(merged.rules) \cup Range(group.rules)
    BY <1>1, RangeOfConcat
  <1> QED
    BY <1>2, <1>3, <1>4, <1>5 DEF Merged, Groups

LEMMA MergeSteps ==
    ASSUME NEW groups \in Seq(Groups)
    PROVE  \E F \in [0..Len(groups) -> Groups] :
              /\ F[0] = EmptyGroup
              /\ \A i \in 1..Len(groups) : F[i] = Merged(F[i - 1], groups[i])
              /\ MergeGroups(groups) = F[Len(groups)]
  <1> DEFINE n == Len(groups)
             S == Groups
             step == [k \in 1..n |-> [p \in S |-> Merged(p, groups[k])]]
             Value(f, s) == IF s = {} THEN EmptyGroup ELSE Merged(f[s \ {Max(s)}], groups[Max(s)])
             Is(f) == f = [s \in SUBSET DOMAIN groups |-> Value(f, s)]
             f == CHOOSE g : Is(g)
  <1>1. n \in Nat /\ DOMAIN groups = 1..n
    OBVIOUS
  <1>2. EmptyGroup \in S
    BY EmptyIsAGroup
  <1>3. \A p \in S, k \in 1..n : Merged(p, groups[k]) \in S
    <2> SUFFICES ASSUME NEW p \in S, NEW k \in 1..n
                 PROVE  Merged(p, groups[k]) \in S
      OBVIOUS
    <2>1. groups[k] \in Groups
      OBVIOUS
    <2> QED
      BY <2>1, MergedIsAGroup
  <1>4. step \in [1..n -> [S -> S]]
    <2> HIDE DEF S, n
    <2> QED
      BY <1>3
  <1>5. MergeGroups(groups) = f[DOMAIN groups]
    BY DEF MergeGroups, Merged, FoldLeft, MapThenFoldSet
  <1>6. PICK g : g \in FoldsOf(S, n, step, EmptyGroup)
    <2> DEFINE b == EmptyGroup
    <2>1. b \in S /\ FoldsOf(S, n, step, b) = FoldsOf(S, n, step, EmptyGroup)
      BY <1>2
    <2> HIDE DEF b
    <2> HIDE DEF S, n, step
    <2> QED
      BY <1>1, <1>2, <1>4, <2>1, FoldExists
  <1>7. Is(g)
    <2>1. g \in [SUBSET (1..n) -> S]
      <3> HIDE DEF S, n, step
      <3> QED
        BY <1>6 DEF FoldsOf
    <2>2. ASSUME NEW s \in SUBSET (1..n)
          PROVE  g[s] = Value(g, s)
      <3>1. CASE s = {}
        <4>1. g[s] = EmptyGroup
          <5> HIDE DEF S, n, step
          <5> QED
            BY <1>6, <3>1 DEF FoldsOf
        <4> QED
          BY <3>1, <4>1
      <3>2. CASE s # {}
        <4>1. Max(s) \in 1..n /\ s \ {Max(s)} \in SUBSET (1..n)
          <5> HIDE DEF n
          <5> QED
            BY <1>1, <3>2, MaxIn
        <4> HIDE DEF n, S
        <4>2. g[s] = step[Max(s)][g[s \ {Max(s)}]]
          <5> HIDE DEF step
          <5> QED
            BY <1>6, <3>2 DEF FoldsOf
        <4>3. g[s \ {Max(s)}] \in S
          BY <2>1, <4>1
        <4> QED
          BY <3>2, <4>1, <4>2, <4>3
      <3> QED
        BY <3>1, <3>2
    <2> HIDE DEF Value, n, S, step
    <2> QED
      BY <1>1, <2>1, <2>2
  <1>8. Is(f)
    <2> HIDE DEF Is
    <2> QED
      BY <1>7
  <1> HIDE DEF f
  <1>9. f[{}] = EmptyGroup
    BY <1>8
  <1>10. ASSUME NEW s \in SUBSET (1..n), s # {}, f[s \ {Max(s)}] \in S
         PROVE  f[s] = step[Max(s)][f[s \ {Max(s)}]]
    <2> HIDE DEF n, S
    <2>1. Max(s) \in 1..n
      BY <1>1, <1>10, MaxIn
    <2>2. f[s] = Merged(f[s \ {Max(s)}], groups[Max(s)])
      BY <1>1, <1>8, <1>10
    <2> QED
      BY <1>10, <2>1, <2>2
  <1> HIDE DEF S, n, step, Is, Value
  <1>11. \A s \in SUBSET (1..n) : s # {} /\ f[s \ {Max(s)}] \in S => f[s] = step[Max(s)][f[s \ {Max(s)}]]
    BY <1>10
  <1>12. Folds(f, S, n, step, EmptyGroup)
    BY <1>1, <1>2, <1>4, <1>9, <1>11 DEF Folds
  <1>13. GoesStepByStep(f, S, n, step, EmptyGroup)
    BY <1>12, FoldIsRecursion
  <1>14. PICK F \in RecursionsOf(S, n, step, EmptyGroup) : F[n] = f[1..n]
    BY <1>13 DEF GoesStepByStep
  <1>15. /\ F \in [0..n -> S] /\ F[0] = EmptyGroup
         /\ \A i \in 1..n : F[i] = step[i][F[i - 1]]
    BY <1>14 DEF RecursionsOf
  <1>16. ASSUME NEW i \in 1..n
         PROVE  F[i] = Merged(F[i - 1], groups[i])
    <2>1. F[i] = step[i][F[i - 1]] /\ F[i - 1] \in S
      BY <1>1, <1>15
    <2> QED
      BY <2>1 DEF step
  <1>17. MergeGroups(groups) = F[n]
    BY <1>1, <1>5, <1>14
  <1> QED
    BY <1>15, <1>16, <1>17 DEF n, S

\* A rule against the best before it.
Better(best, rule, lengths, matching) ==
    LET length == lengths[rule.pattern] IN
    IF /\ rule.pattern \in matching
       /\ length > best.length \/ (length = best.length /\ rule.allow)
    THEN [length |-> length, allow |-> rule.allow]
    ELSE best

\* The rules have lengths to be compared by.
Measured(rules, lengths) == \A r \in Range(rules) : lengths[r.pattern] \in Nat

LEMMA LengthIsNat ==
    ASSUME NEW pattern \in Names
    PROVE  RuleLength(pattern) \in Nat
  <1> DEFINE body == Unanchored(pattern)
             letters == {i \in DOMAIN body : body[i] # "*"}
  <1>1. body \in Names
    <2>1. CASE EndAnchored(pattern)
      <3>1. pattern # <<>>
        BY <2>1 DEF EndAnchored
      <3>2. Front(pattern) \in Seq(STRING)
        BY <3>1 DEF Names, Front
      <3> QED
        BY <2>1, <3>2 DEF Unanchored, Names
    <2>2. CASE ~EndAnchored(pattern)
      BY <2>2 DEF Unanchored
    <2> QED
      BY <2>1, <2>2
  <1> HIDE DEF body
  <1>2. DOMAIN body = 1..Len(body) /\ Len(body) \in Nat
    BY <1>1 DEF Names
  <1>3. IsFiniteSet(letters)
    <2>1. IsFiniteSet(1..Len(body))
      BY <1>2, FS_Interval
    <2>2. letters \subseteq 1..Len(body)
      BY <1>2
    <2> QED
      BY <2>1, <2>2, FS_Subset
  <1>4. Cardinality(letters) \in Nat
    BY <1>3, FS_CardinalityType
  <1> QED
    BY <1>4 DEF RuleLength, letters, body

\* The best rule is what comes of weighing one rule after the other.
GoesRuleByRule(rules, lengths, matching) ==
    \E F \in [0..Len(rules) -> [length : Int, allow : BOOLEAN]] :
        /\ F[0] = [length |-> -1, allow |-> TRUE]
        /\ \A i \in 1..Len(rules) : F[i] = Better(F[i - 1], rules[i], lengths, matching)
        /\ BestRule(rules, lengths, matching) = F[Len(rules)]

LEMMA BestSteps ==
    ASSUME NEW rules \in Seq(Rules), NEW lengths, Measured(rules, lengths), NEW matching
    PROVE  GoesRuleByRule(rules, lengths, matching)
  <1> DEFINE n == Len(rules)
             S == [length : Int, allow : BOOLEAN]
             step == [k \in 1..n |-> [p \in S |-> Better(p, rules[k], lengths, matching)]]
             Value(f, s) == IF s = {} THEN [length |-> -1, allow |-> TRUE] ELSE Better(f[s \ {Max(s)}], rules[Max(s)], lengths, matching)
             Is(f) == f = [s \in SUBSET DOMAIN rules |-> Value(f, s)]
             f == CHOOSE g : Is(g)
  <1>1. n \in Nat /\ DOMAIN rules = 1..n
    OBVIOUS
  <1>2. [length |-> -1, allow |-> TRUE] \in S
    OBVIOUS
  <1>3. \A p \in S, k \in 1..n : Better(p, rules[k], lengths, matching) \in S
    <2> SUFFICES ASSUME NEW p \in S, NEW k \in 1..n
                 PROVE  Better(p, rules[k], lengths, matching) \in S
      OBVIOUS
    <2>0. rules[k] \in Rules
      OBVIOUS
    <2>1. rules[k].pattern \in Names /\ rules[k].allow \in BOOLEAN
      BY <2>0 DEF Rules
    <2>2. lengths[rules[k].pattern] \in Int
      <3>1. rules[k] \in Range(rules)
        BY <1>1 DEF Range
      <3> QED
        BY <3>1 DEF Measured
    <2> QED
      BY <2>1, <2>2 DEF Better
  <1>4. step \in [1..n -> [S -> S]]
    <2> HIDE DEF S, n
    <2> QED
      BY <1>3
  <1>5. BestRule(rules, lengths, matching) = f[DOMAIN rules]
    BY DEF BestRule, Better, FoldLeft, MapThenFoldSet
  <1>6. PICK g : g \in FoldsOf(S, n, step, [length |-> -1, allow |-> TRUE])
    <2> DEFINE b == [length |-> -1, allow |-> TRUE]
    <2>1. b \in S /\ FoldsOf(S, n, step, b) = FoldsOf(S, n, step, [length |-> -1, allow |-> TRUE])
      BY <1>2
    <2> HIDE DEF b
    <2> HIDE DEF S, n, step
    <2> QED
      BY <1>1, <1>2, <1>4, <2>1, FoldExists
  <1>7. Is(g)
    <2>1. g \in [SUBSET (1..n) -> S]
      <3> HIDE DEF S, n, step
      <3> QED
        BY <1>6 DEF FoldsOf
    <2>2. ASSUME NEW s \in SUBSET (1..n)
          PROVE  g[s] = Value(g, s)
      <3>1. CASE s = {}
        <4>1. g[s] = [length |-> -1, allow |-> TRUE]
          <5> HIDE DEF S, n, step
          <5> QED
            BY <1>6, <3>1 DEF FoldsOf
        <4> QED
          BY <3>1, <4>1
      <3>2. CASE s # {}
        <4>1. Max(s) \in 1..n /\ s \ {Max(s)} \in SUBSET (1..n)
          <5> HIDE DEF n
          <5> QED
            BY <1>1, <3>2, MaxIn
        <4> HIDE DEF n, S
        <4>2. g[s] = step[Max(s)][g[s \ {Max(s)}]]
          <5> HIDE DEF step
          <5> QED
            BY <1>6, <3>2 DEF FoldsOf
        <4>3. g[s \ {Max(s)}] \in S
          BY <2>1, <4>1
        <4> QED
          BY <3>2, <4>1, <4>2, <4>3
      <3> QED
        BY <3>1, <3>2
    <2> HIDE DEF Value, n, S, step
    <2> QED
      BY <1>1, <2>1, <2>2
  <1>8. Is(f)
    <2> HIDE DEF Is
    <2> QED
      BY <1>7
  <1> HIDE DEF f
  <1>9. f[{}] = [length |-> -1, allow |-> TRUE]
    BY <1>8
  <1>10. ASSUME NEW s \in SUBSET (1..n), s # {}, f[s \ {Max(s)}] \in S
         PROVE  f[s] = step[Max(s)][f[s \ {Max(s)}]]
    <2> HIDE DEF n, S
    <2>1. Max(s) \in 1..n
      BY <1>1, <1>10, MaxIn
    <2>2. f[s] = Better(f[s \ {Max(s)}], rules[Max(s)], lengths, matching)
      BY <1>1, <1>8, <1>10
    <2> QED
      BY <1>10, <2>1, <2>2
  <1> HIDE DEF S, n, step, Is, Value
  <1>11. \A s \in SUBSET (1..n) : s # {} /\ f[s \ {Max(s)}] \in S => f[s] = step[Max(s)][f[s \ {Max(s)}]]
    BY <1>10
  <1>12. Folds(f, S, n, step, [length |-> -1, allow |-> TRUE])
    BY <1>1, <1>2, <1>4, <1>9, <1>11 DEF Folds
  <1>13. GoesStepByStep(f, S, n, step, [length |-> -1, allow |-> TRUE])
    BY <1>12, FoldIsRecursion
  <1>14. PICK F \in RecursionsOf(S, n, step, [length |-> -1, allow |-> TRUE]) : F[n] = f[1..n]
    BY <1>13 DEF GoesStepByStep
  <1>15. /\ F \in [0..n -> S] /\ F[0] = [length |-> -1, allow |-> TRUE]
         /\ \A i \in 1..n : F[i] = step[i][F[i - 1]]
    BY <1>14 DEF RecursionsOf
  <1>16. ASSUME NEW i \in 1..n
         PROVE  F[i] = Better(F[i - 1], rules[i], lengths, matching)
    <2>1. F[i] = step[i][F[i - 1]] /\ F[i - 1] \in S
      BY <1>1, <1>15
    <2> QED
      BY <2>1 DEF step
  <1>17. BestRule(rules, lengths, matching) = F[n]
    BY <1>1, <1>5, <1>14
  <1> QED
    BY <1>15, <1>16, <1>17 DEF n, S, GoesRuleByRule

\* m holds the groups among gs that match an agent best.
AreBest(m, gs, tokens) ==
    /\ IsBest(m.best, {GroupMatchScore(g, tokens) : g \in gs})
    /\ Range(m.matches) = {g \in gs : m.best >= 0 /\ GroupMatchScore(g, tokens) = m.best}

LEMMA BestOneMore ==
    ASSUME NEW tokens, NEW m \in [best : Int, matches : Seq(Groups)], NEW gs \in SUBSET Groups,
           NEW group \in Groups, AreBest(m, gs, tokens)
    PROVE  AreBest(Matched(m, group, tokens), gs \cup {group}, tokens)
  <1> DEFINE sc(g) == GroupMatchScore(g, tokens)
             score == sc(group)
             scores == {sc(g) : g \in gs}
             more == {sc(g) : g \in gs \cup {group}}
             new == Matched(m, group, tokens)
  <1>1. score \in Int /\ score >= -1 /\ \A g \in gs : sc(g) \in Int
    <2>1. \A g \in Groups : sc(g) \in Int /\ IsBest(sc(g), {AgentMatchScore(a, tokens) : a \in Range(g.agents)})
      <3> SUFFICES ASSUME NEW g \in Groups
                   PROVE  sc(g) \in Int /\ IsBest(sc(g), {AgentMatchScore(a, tokens) : a \in Range(g.agents)})
        OBVIOUS
      <3>1. g.agents \in Seq(Names)
        BY DEF Groups
      <3> QED
        BY <3>1, GroupScoreIs
    <2> QED
      BY <2>1 DEF IsBest
  <1>2. m.best \in Int /\ m.matches \in Seq(Groups) /\ IsBest(m.best, scores)
        /\ Range(m.matches) = {g \in gs : m.best >= 0 /\ sc(g) = m.best}
    BY DEF AreBest
  <1>3. more = scores \cup {score}
    OBVIOUS
  <1>4. scores \subseteq Int
    BY <1>1
  <1>5. CASE score < 0 \/ score < m.best
    <2>1. new = m
      BY <1>5 DEF Matched
    <2>2. IsBest(m.best, more)
      <3> HIDE DEF score, scores, more
      <3> QED
        BY <1>1, <1>2, <1>3, <1>4, <1>5 DEF IsBest
    <2>3. {g \in gs \cup {group} : m.best >= 0 /\ sc(g) = m.best} = {g \in gs : m.best >= 0 /\ sc(g) = m.best}
      <3>1. ~(m.best >= 0 /\ score = m.best)
        BY <1>1, <1>2, <1>5
      <3> QED
        BY <3>1
    <2> QED
      BY <1>2, <2>1, <2>2, <2>3 DEF AreBest
  <1>6. CASE score >= 0 /\ score >= m.best
    <2> DEFINE old == IF score > m.best THEN <<>> ELSE m.matches
    <2>1. new = [best |-> score, matches |-> Append(old, group)]
      BY <1>1, <1>2, <1>6 DEF Matched
    <2>2. IsBest(score, more)
      <3> HIDE DEF score, scores, more
      <3> QED
        BY <1>1, <1>2, <1>3, <1>4, <1>6 DEF IsBest
    <2>3. old \in Seq(Groups)
      BY <1>2
    <2>4. Range(old) = {g \in gs : sc(g) = score}
      <3>1. CASE score > m.best
        <4>1. \A g \in gs : sc(g) \in scores
          OBVIOUS
        <4>2. \A g \in gs : sc(g) # score
          <5> HIDE DEF scores
          <5> QED
            BY <1>1, <1>2, <3>1, <4>1 DEF IsBest
        <4>3. Range(<<>>) = {}
          BY DEF Range
        <4> QED
          BY <3>1, <4>2, <4>3
      <3>2. CASE ~(score > m.best)
        <4>1. score = m.best /\ m.best >= 0
          BY <1>1, <1>2, <1>6, <3>2
        <4> QED
          BY <1>2, <3>2, <4>1
      <3> QED
        BY <3>1, <3>2
    <2> HIDE DEF old
    <2>5. Range(Append(old, group)) = Range(old) \cup {group}
      BY <2>3, RangeOfAppend
    <2>6. Range(Append(old, group)) = {g \in gs \cup {group} : score >= 0 /\ sc(g) = score}
      BY <1>6, <2>4, <2>5
    <2> HIDE DEF score
    <2>7. new.best = score /\ new.matches = Append(old, group)
      BY <2>1
    <2> QED
      BY <2>2, <2>6, <2>7 DEF AreBest
  <1> QED
    BY <1>1, <1>2, <1>5, <1>6

\* The groups for an agent are those that match it best.
LEMMA MatchingIs ==
    ASSUME NEW tokens, NEW groups \in Seq(Groups)
    PROVE  \E m \in [best : Int, matches : Seq(Groups)] :
              AreBest(m, Range(groups), tokens) /\ MatchingGroups(groups, tokens) = m.matches
  <1> DEFINE n == Len(groups)
             Seen(i) == {groups[k] : k \in 1..i}
  <1>1. n \in Nat
    OBVIOUS
  <1>2. PICK F \in [0..n -> [best : Int, matches : Seq(Groups)]] :
              /\ F[0] = [best |-> -1, matches |-> <<>>]
              /\ \A i \in 1..n : F[i] = Matched(F[i - 1], groups[i], tokens)
              /\ MatchingGroups(groups, tokens) = F[n].matches
    BY MatchSteps
  <1> HIDE DEF n
  <1> DEFINE T == {i \in 0..n : AreBest(F[i], Seen(i), tokens)}
  <1>3. 0 \in T
    <2>1. Seen(0) = {}
      OBVIOUS
    <2>2. AreBest(F[0], {}, tokens)
      <3>1. Range(<<>>) = {}
        BY DEF Range
      <3>2. F[0].best = -1 /\ F[0].matches = <<>>
        BY <1>2
      <3> QED
        BY <3>1, <3>2 DEF AreBest, IsBest
    <2> HIDE DEF Seen
    <2>3. AreBest(F[0], Seen(0), tokens)
      BY <2>1, <2>2
    <2>4. 0 \in 0..n
      BY <1>1
    <2> QED
      BY <2>3, <2>4
  <1>4. ASSUME NEW i \in 0..(n - 1), i \in T
        PROVE  i + 1 \in T
    <2>1. i \in 0..n /\ i + 1 \in 1..n /\ i + 1 \in 0..n /\ i + 1 - 1 = i
      BY <1>1
    <2>2. F[i] \in [best : Int, matches : Seq(Groups)] /\ F[i + 1] = Matched(F[i], groups[i + 1], tokens)
      BY <1>2, <2>1
    <2>3. groups[i + 1] \in Groups
      BY <2>1 DEF n
    <2>4. AreBest(F[i], Seen(i), tokens)
      BY <1>4
    <2>5. Seen(i + 1) = Seen(i) \cup {groups[i + 1]}
      <3>1. 1..(i + 1) = (1..i) \cup {i + 1}
        BY <2>1
      <3> QED
        BY <3>1
    <2>6. \A g \in Seen(i) : g \in Groups
      BY <1>1, <2>1 DEF n
    <2> HIDE DEF Seen
    <2>7. AreBest(F[i + 1], Seen(i) \cup {groups[i + 1]}, tokens)
      <3>1. Seen(i) \in SUBSET Groups
        BY <2>6
      <3> QED
        BY <2>2, <2>3, <2>4, <3>1, BestOneMore
    <2> QED
      BY <2>1, <2>5, <2>7
  <1>5. AreBest(F[n], Seen(n), tokens)
    <2>1. n \in 0..n
      BY <1>1
    <2> HIDE DEF T
    <2>2. n \in T
      BY <1>1, <1>3, <1>4, <2>1, UpTo
    <2> QED
      BY <2>2 DEF T
  <1>6. Seen(n) = Range(groups)
    BY DEF Range, n
  <1>7. F[n] \in [best : Int, matches : Seq(Groups)]
    BY <1>1, <1>2
  <1> HIDE DEF Seen
  <1> QED
    BY <1>2, <1>5, <1>6, <1>7

\* m is what the groups gs come to together.
IsMergeOf(m, gs) ==
    /\ Range(m.rules) = UNION {Range(g.rules) : g \in gs}
    /\ m.delay \in {0} \cup {g.delay : g \in gs} /\ \A g \in gs : m.delay >= g.delay
    /\ m.rate \in {NoRate} \cup {g.rate : g \in gs}
    /\ \A g \in gs : g.rate # NoRate => m.rate # NoRate /\ RateDelay(m.rate) >= RateDelay(g.rate)

LEMMA DelayIsInt ==
    ASSUME NEW r \in Rates, r # NoRate
    PROVE  RateDelay(r) \in Nat /\ r.requests > 0
  <1>1. r.requests \in Nat \ {0} /\ r.period \in Nat
    BY DEF Rates
  <1>2. \A a \in Nat, b \in Nat \ {0} : a \div b \in Nat
    OBVIOUS
  <1> QED
    BY <1>1, <1>2 DEF RateDelay

LEMMA MergeOneMore ==
    ASSUME NEW m \in Groups, NEW gs \in SUBSET Groups, NEW group \in Groups, IsMergeOf(m, gs)
    PROVE  IsMergeOf(Merged(m, group), gs \cup {group})
  <1> DEFINE new == Merged(m, group)
             all == gs \cup {group}
             slower == SlowerRate(m.rate, group.rate)
  <1>1. /\ m.delay \in Nat /\ m.rate \in Rates /\ group.delay \in Nat /\ group.rate \in Rates
        /\ \A g \in gs : g.delay \in Nat /\ g.rate \in Rates
    BY DEF Groups
  <1>2. /\ Range(m.rules) = UNION {Range(g.rules) : g \in gs}
        /\ m.delay \in {0} \cup {g.delay : g \in gs} /\ \A g \in gs : m.delay >= g.delay
        /\ m.rate \in {NoRate} \cup {g.rate : g \in gs}
        /\ \A g \in gs : g.rate # NoRate => m.rate # NoRate /\ RateDelay(m.rate) >= RateDelay(g.rate)
    BY DEF IsMergeOf
  <1>3. new.delay = Longer(m.delay, group.delay) /\ new.rate = slower
    BY DEF Merged
  <1>4. Range(new.rules) = UNION {Range(g.rules) : g \in all}
    BY <1>2, MergedIsAGroup
  <1>5. new.delay \in {0} \cup {g.delay : g \in all} /\ \A g \in all : new.delay >= g.delay
    BY <1>1, <1>2, <1>3 DEF Longer
  <1>6. /\ slower \in {m.rate, group.rate}
        /\ m.rate # NoRate => slower # NoRate /\ RateDelay(slower) >= RateDelay(m.rate)
        /\ group.rate # NoRate => slower # NoRate /\ RateDelay(slower) >= RateDelay(group.rate)
    BY <1>1, SlowerIs
  <1>7. slower \in Rates
    BY <1>1, <1>6
  <1>8. \A r \in Rates : r # NoRate => RateDelay(r) \in Nat
    BY DelayIsInt
  <1> HIDE DEF slower, new
  <1>9. new.rate \in {NoRate} \cup {g.rate : g \in all}
    BY <1>2, <1>3, <1>6
  <1>10. ASSUME NEW g \in all, g.rate # NoRate
         PROVE  new.rate # NoRate /\ RateDelay(new.rate) >= RateDelay(g.rate)
    <2>1. CASE g = group
      BY <1>3, <1>6, <1>10, <2>1
    <2>2. CASE g \in gs
      <3>1. m.rate # NoRate /\ RateDelay(m.rate) >= RateDelay(g.rate)
        BY <1>2, <1>10, <2>2
      <3>2. slower # NoRate /\ RateDelay(slower) >= RateDelay(m.rate)
        BY <1>6, <3>1
      <3>3. RateDelay(m.rate) \in Nat /\ RateDelay(slower) \in Nat /\ RateDelay(g.rate) \in Nat
        BY <1>1, <1>7, <1>8, <1>10, <2>2, <3>1, <3>2
      <3> QED
        BY <1>3, <3>1, <3>2, <3>3
    <2> QED
      BY <2>1, <2>2
  <1> QED
    BY <1>4, <1>5, <1>9, <1>10 DEF IsMergeOf, new

LEMMA MergeIs ==
    ASSUME NEW groups \in Seq(Groups)
    PROVE  MergeGroups(groups) \in Groups /\ IsMergeOf(MergeGroups(groups), Range(groups))
  <1> DEFINE n == Len(groups)
             Seen(i) == {groups[k] : k \in 1..i}
  <1>1. n \in Nat
    OBVIOUS
  <1>2. PICK F \in [0..n -> Groups] :
              /\ F[0] = EmptyGroup
              /\ \A i \in 1..n : F[i] = Merged(F[i - 1], groups[i])
              /\ MergeGroups(groups) = F[n]
    BY MergeSteps
  <1> HIDE DEF n
  <1> DEFINE T == {i \in 0..n : IsMergeOf(F[i], Seen(i))}
  <1>3. 0 \in T
    <2>1. Seen(0) = {}
      OBVIOUS
    <2>2. IsMergeOf(F[0], {})
      <3>1. Range(<<>>) = {}
        BY DEF Range
      <3> QED
        BY <1>2, <3>1 DEF IsMergeOf, EmptyGroup
    <2> HIDE DEF Seen
    <2>3. IsMergeOf(F[0], Seen(0))
      BY <2>1, <2>2
    <2>4. 0 \in 0..n
      BY <1>1
    <2> QED
      BY <2>3, <2>4
  <1>4. ASSUME NEW i \in 0..(n - 1), i \in T
        PROVE  i + 1 \in T
    <2>1. i \in 0..n /\ i + 1 \in 1..n /\ i + 1 \in 0..n /\ i + 1 - 1 = i
      BY <1>1
    <2>2. F[i] \in Groups /\ F[i + 1] = Merged(F[i], groups[i + 1])
      BY <1>2, <2>1
    <2>3. groups[i + 1] \in Groups
      BY <2>1 DEF n
    <2>4. IsMergeOf(F[i], Seen(i))
      BY <1>4
    <2>5. Seen(i + 1) = Seen(i) \cup {groups[i + 1]}
      <3>1. 1..(i + 1) = (1..i) \cup {i + 1}
        BY <2>1
      <3> QED
        BY <3>1
    <2>6. \A g \in Seen(i) : g \in Groups
      BY <1>1, <2>1 DEF n
    <2> HIDE DEF Seen
    <2>7. IsMergeOf(F[i + 1], Seen(i) \cup {groups[i + 1]})
      <3>1. Seen(i) \in SUBSET Groups
        BY <2>6
      <3> QED
        BY <2>2, <2>3, <2>4, <3>1, MergeOneMore
    <2> QED
      BY <2>1, <2>5, <2>7
  <1>5. IsMergeOf(F[n], Seen(n))
    <2>1. n \in 0..n
      BY <1>1
    <2> HIDE DEF T
    <2>2. n \in T
      BY <1>1, <1>3, <1>4, <2>1, UpTo
    <2> QED
      BY <2>2 DEF T
  <1>6. Seen(n) = Range(groups)
    BY DEF Range, n
  <1>7. F[n] \in Groups
    BY <1>1, <1>2
  <1> HIDE DEF Seen
  <1> QED
    BY <1>2, <1>5, <1>6, <1>7

\* best is the verdict of the rules rs whose pattern is one of those that match.
IsVerdictOf(best, rs, lengths, matching) ==
    LET fit == {r \in rs : r.pattern \in matching} IN
    IF fit = {} THEN best.length = -1 /\ best.allow
    ELSE /\ \E r \in fit : lengths[r.pattern] = best.length
         /\ \A r \in fit : lengths[r.pattern] <= best.length
         /\ best.allow <=> \E r \in fit : lengths[r.pattern] = best.length /\ r.allow

LEMMA VerdictOneMore ==
    ASSUME NEW best \in [length : Int, allow : BOOLEAN], NEW rs \in SUBSET Rules, NEW rule \in Rules,
           NEW lengths, lengths[rule.pattern] \in Nat, \A r \in rs : lengths[r.pattern] \in Nat,
           NEW matching, IsVerdictOf(best, rs, lengths, matching)
    PROVE  IsVerdictOf(Better(best, rule, lengths, matching), rs \cup {rule}, lengths, matching)
  <1> DEFINE fit == {r \in rs : r.pattern \in matching}
             more == {r \in rs \cup {rule} : r.pattern \in matching}
             len(r) == lengths[r.pattern]
             new == Better(best, rule, lengths, matching)
  <1>1. len(rule) \in Nat /\ \A r \in rs : len(r) \in Nat
    OBVIOUS
  <1>2. best.length \in Int /\ best.allow \in BOOLEAN /\ rule.allow \in BOOLEAN
    BY DEF Rules
  <1>3. IF fit = {} THEN best.length = -1 /\ best.allow
        ELSE /\ \E r \in fit : len(r) = best.length
             /\ \A r \in fit : len(r) <= best.length
             /\ best.allow <=> \E r \in fit : len(r) = best.length /\ r.allow
    BY DEF IsVerdictOf
  <1>4. \A r \in fit : len(r) \in Nat
    BY <1>1
  <1>5. SUFFICES IF more = {} THEN new.length = -1 /\ new.allow
                 ELSE /\ \E r \in more : len(r) = new.length
                      /\ \A r \in more : len(r) <= new.length
                      /\ new.allow <=> \E r \in more : len(r) = new.length /\ r.allow
    BY DEF IsVerdictOf
  <1>6. CASE rule.pattern \notin matching
    <2>1. new = best /\ more = fit
      BY <1>6 DEF Better
    <2> HIDE DEF new, more, fit, len
    <2> QED
      BY <1>3, <2>1
  <1>7. CASE rule.pattern \in matching
    <2>1. more = fit \cup {rule}
      BY <1>7
    <2>2. CASE len(rule) > best.length \/ (len(rule) = best.length /\ rule.allow)
      <3>1. new.length = len(rule) /\ new.allow = rule.allow
        BY <1>7, <2>2 DEF Better
      <3> HIDE DEF new, more, fit, len
      <3>2. \A r \in fit : len(r) <= best.length
        BY <1>3
      <3>3. \A r \in more : len(r) <= new.length
        BY <1>1, <1>2, <1>4, <2>1, <2>2, <3>1, <3>2
      <3>4. CASE len(rule) > best.length
        <4>1. \A r \in more : len(r) = new.length => r = rule
          BY <1>1, <1>2, <1>4, <2>1, <3>1, <3>2, <3>4
        <4> QED
          BY <2>1, <3>1, <3>3, <4>1
      <3>5. CASE len(rule) = best.length /\ rule.allow
        BY <2>1, <3>1, <3>3, <3>5
      <3> QED
        BY <2>2, <3>4, <3>5
    <2>3. CASE ~(len(rule) > best.length \/ (len(rule) = best.length /\ rule.allow))
      <3>1. new = best
        BY <1>7, <2>3 DEF Better
      <3> HIDE DEF new, more, fit, len
      <3>2. fit # {}
        BY <1>1, <1>3, <2>3
      <3>3. \A r \in more : len(r) <= new.length
        BY <1>1, <1>2, <1>3, <2>1, <2>3, <3>1, <3>2
      <3> QED
        BY <1>1, <1>2, <1>3, <2>1, <2>3, <3>1, <3>2, <3>3
    <2> QED
      BY <2>2, <2>3
  <1> QED
    BY <1>6, <1>7

LEMMA BestIs ==
    ASSUME NEW rules \in Seq(Rules), NEW lengths, Measured(rules, lengths), NEW matching
    PROVE  /\ BestRule(rules, lengths, matching) \in [length : Int, allow : BOOLEAN]
           /\ IsVerdictOf(BestRule(rules, lengths, matching), Range(rules), lengths, matching)
  <1> DEFINE n == Len(rules)
             Seen(i) == {rules[k] : k \in 1..i}
  <1>1. n \in Nat
    OBVIOUS
  <1>2. PICK F \in [0..n -> [length : Int, allow : BOOLEAN]] :
              /\ F[0] = [length |-> -1, allow |-> TRUE]
              /\ \A i \in 1..n : F[i] = Better(F[i - 1], rules[i], lengths, matching)
              /\ BestRule(rules, lengths, matching) = F[n]
    <2>1. GoesRuleByRule(rules, lengths, matching)
      BY BestSteps
    <2> QED
      BY <2>1 DEF GoesRuleByRule
  <1> HIDE DEF n
  <1> DEFINE T == {i \in 0..n : IsVerdictOf(F[i], Seen(i), lengths, matching)}
  <1>3. 0 \in T
    <2>1. Seen(0) = {}
      OBVIOUS
    <2>2. IsVerdictOf(F[0], {}, lengths, matching)
      BY <1>2 DEF IsVerdictOf
    <2> HIDE DEF Seen
    <2>3. IsVerdictOf(F[0], Seen(0), lengths, matching)
      BY <2>1, <2>2
    <2>4. 0 \in 0..n
      BY <1>1
    <2> QED
      BY <2>3, <2>4
  <1>4. ASSUME NEW i \in 0..(n - 1), i \in T
        PROVE  i + 1 \in T
    <2>1. i \in 0..n /\ i + 1 \in 1..n /\ i + 1 \in 0..n /\ i + 1 - 1 = i
      BY <1>1
    <2>2. F[i] \in [length : Int, allow : BOOLEAN] /\ F[i + 1] = Better(F[i], rules[i + 1], lengths, matching)
      BY <1>2, <2>1
    <2>3. rules[i + 1] \in Rules
      BY <2>1 DEF n
    <2>4. IsVerdictOf(F[i], Seen(i), lengths, matching)
      BY <1>4
    <2>5. Seen(i + 1) = Seen(i) \cup {rules[i + 1]}
      <3>1. 1..(i + 1) = (1..i) \cup {i + 1}
        BY <2>1
      <3> QED
        BY <3>1
    <2>6. \A g \in Seen(i) : g \in Rules
      BY <1>1, <2>1 DEF n
    <2>8. lengths[rules[i + 1].pattern] \in Nat /\ \A g \in Seen(i) : lengths[g.pattern] \in Nat
      <3>1. rules[i + 1] \in Range(rules) /\ \A g \in Seen(i) : g \in Range(rules)
        BY <2>1 DEF n, Range
      <3> QED
        BY <3>1 DEF Measured
    <2> HIDE DEF Seen
    <2>7. IsVerdictOf(F[i + 1], Seen(i) \cup {rules[i + 1]}, lengths, matching)
      <3>1. Seen(i) \in SUBSET Rules
        BY <2>6
      <3> QED
        BY <2>2, <2>3, <2>4, <2>8, <3>1, VerdictOneMore
    <2> QED
      BY <2>1, <2>5, <2>7
  <1>5. IsVerdictOf(F[n], Seen(n), lengths, matching)
    <2>1. n \in 0..n
      BY <1>1
    <2> HIDE DEF T
    <2>2. n \in T
      BY <1>1, <1>3, <1>4, <2>1, UpTo
    <2> QED
      BY <2>2 DEF T
  <1>6. Seen(n) = Range(rules)
    BY DEF Range, n
  <1>7. F[n] \in [length : Int, allow : BOOLEAN]
    BY <1>1, <1>2
  <1> HIDE DEF Seen
  <1> QED
    BY <1>2, <1>5, <1>6, <1>7

----------------------------------------------------------------------------
(* What has been read of a file *)

\* The agent lines a directive behind line i would be about.
Open(lines, i) ==
    {j \in 1..i :
        /\ IsAgent(lines[j])
        /\ \A k \in j..i : lines[k].key # "blank"
        /\ \A k, l \in j..i : k < l => ~(IsDirective(lines[k]) /\ IsAgent(lines[l]))}

\* The directives up to line i that are about the agent lines A.
DirectivesOf(lines, i, A) == {k \in 1..i : IsDirective(lines[k]) /\ AgentsOf(lines, k) = A}

LEMMA KeysApart ==
    ASSUME NEW line
    PROVE  /\ IsDirective(line) => ~IsAgent(line) /\ line.key # "blank"
           /\ IsAgent(line) => line.key # "blank"
  BY DEF IsDirective, IsAgent, Directives

LEMMA OpenBefore ==
    ASSUME NEW lines, NEW i \in Nat, IsDirective(lines[i + 1])
    PROVE  AgentsOf(lines, i + 1) = Open(lines, i)
  <1>1. i + 1 - 1 = i
    OBVIOUS
  <1>2. ASSUME NEW j \in 1..i
        PROVE  /\ (\A k \in j..(i + 1) : lines[k].key # "blank") <=> (\A k \in j..i : lines[k].key # "blank")
               /\ (\A k, l \in j..(i + 1) : k < l => ~(IsDirective(lines[k]) /\ IsAgent(lines[l])))
                     <=> (\A k, l \in j..i : k < l => ~(IsDirective(lines[k]) /\ IsAgent(lines[l])))
    <2>1. j..(i + 1) = (j..i) \cup {i + 1}
      OBVIOUS
    <2>2. lines[i + 1].key # "blank" /\ ~IsAgent(lines[i + 1])
      BY KeysApart
    <2>3. (\A k \in j..(i + 1) : lines[k].key # "blank") <=> (\A k \in j..i : lines[k].key # "blank")
      BY <2>1, <2>2
    <2>4. (\A k, l \in j..(i + 1) : k < l => ~(IsDirective(lines[k]) /\ IsAgent(lines[l])))
             <=> (\A k, l \in j..i : k < l => ~(IsDirective(lines[k]) /\ IsAgent(lines[l])))
      <3>1. ASSUME \A k, l \in j..i : k < l => ~(IsDirective(lines[k]) /\ IsAgent(lines[l])),
                   NEW k \in j..(i + 1), NEW l \in j..(i + 1), k < l, IsDirective(lines[k]), IsAgent(lines[l])
            PROVE  FALSE
        <4>1. l # i + 1
          BY <2>2, <3>1
        <4>2. l \in j..i /\ k \in j..i
          BY <3>1, <4>1
        <4> QED
          BY <3>1, <4>2
      <3> QED
        BY <2>1, <3>1
    <2> QED
      BY <2>3, <2>4
  <1> QED
    BY <1>1, <1>2 DEF AgentsOf, Open

\* What the next line does to the agents that are open.
LEMMA OpenNext ==
    ASSUME NEW lines, NEW i \in Nat
    PROVE  /\ lines[i + 1].key = "blank" => Open(lines, i + 1) = {}
           /\ lines[i + 1].key # "blank" /\ ~IsAgent(lines[i + 1]) => Open(lines, i + 1) = Open(lines, i)
           /\ Open(lines, i + 1) \subseteq Open(lines, i) \cup {i + 1}
  <1>1. \A j \in 1..(i + 1) : i + 1 \in j..(i + 1)
    OBVIOUS
  <1>2. lines[i + 1].key = "blank" => Open(lines, i + 1) = {}
    BY <1>1 DEF Open
  <1>3. Open(lines, i + 1) \subseteq Open(lines, i) \cup {i + 1}
    <2> SUFFICES ASSUME NEW j \in Open(lines, i + 1), j # i + 1
                 PROVE  j \in Open(lines, i)
      OBVIOUS
    <2>1. j \in 1..i /\ j..i \subseteq j..(i + 1)
      BY DEF Open
    <2> QED
      BY <2>1 DEF Open
  <1>4. ASSUME lines[i + 1].key # "blank", ~IsAgent(lines[i + 1])
        PROVE  Open(lines, i + 1) = Open(lines, i)
    <2>1. i + 1 \notin Open(lines, i + 1)
      BY <1>4 DEF Open
    <2>2. ASSUME NEW j \in Open(lines, i)
          PROVE  j \in Open(lines, i + 1)
      <3>1. j \in 1..(i + 1) /\ j..(i + 1) = (j..i) \cup {i + 1} /\ IsAgent(lines[j])
        BY DEF Open
      <3>2. \A k \in j..(i + 1) : lines[k].key # "blank"
        BY <1>4, <3>1 DEF Open
      <3>3. ASSUME NEW k \in j..(i + 1), NEW l \in j..(i + 1), k < l, IsDirective(lines[k]), IsAgent(lines[l])
            PROVE  FALSE
        <4>1. l # i + 1
          BY <1>4, <3>3
        <4>2. l \in j..i /\ k \in j..i
          BY <3>3, <4>1
        <4> QED
          BY <3>3, <4>2 DEF Open
      <3> QED
        BY <3>1, <3>2, <3>3 DEF Open
    <2> QED
      BY <1>3, <2>1, <2>2
  <1> QED
    BY <1>2, <1>3, <1>4

\* An agent line opens a group of its own iff the open one has directives.
LEMMA OpenAgent ==
    ASSUME NEW lines, NEW i \in Nat, IsAgent(lines[i + 1])
    PROVE  Open(lines, i + 1) =
              IF DirectivesOf(lines, i, Open(lines, i)) # {} THEN {i + 1} ELSE Open(lines, i) \cup {i + 1}
  <1> DEFINE O == Open(lines, i)
             D == DirectivesOf(lines, i, O)
  <1>1. i + 1 \in Open(lines, i + 1)
    <2>1. (i + 1)..(i + 1) = {i + 1} /\ i + 1 \in 1..(i + 1)
      OBVIOUS
    <2>2. lines[i + 1].key # "blank"
      BY KeysApart
    <2>3. \A k, l \in (i + 1)..(i + 1) : k < l => FALSE
      BY <2>1
    <2> QED
      BY <2>1, <2>2, <2>3 DEF Open
  <1>2. ASSUME D # {}, NEW j \in O, j \in Open(lines, i + 1)
        PROVE  FALSE
    <2>1. PICK k \in 1..i : IsDirective(lines[k]) /\ AgentsOf(lines, k) = O
      BY <1>2 DEF DirectivesOf
    <2>2. j \in 1..(k - 1)
      BY <1>2, <2>1 DEF AgentsOf
    <2>3. k \in j..(i + 1) /\ i + 1 \in j..(i + 1) /\ k < i + 1
      BY <2>2
    <2> QED
      BY <1>2, <2>1, <2>3 DEF Open
  <1>3. ASSUME D = {}, NEW j \in O
        PROVE  j \in Open(lines, i + 1)
    <2>1. /\ j \in 1..i /\ IsAgent(lines[j]) /\ \A k \in j..i : lines[k].key # "blank"
          /\ \A k, l \in j..i : k < l => ~(IsDirective(lines[k]) /\ IsAgent(lines[l]))
      BY DEF Open
    <2>2. ASSUME NEW k \in j..i, IsDirective(lines[k])
          PROVE  FALSE
      <3>1. k \in 1..i /\ k # j /\ j < k /\ k - 1 \in Nat /\ k - 1 + 1 = k
        BY <2>1, <2>2, KeysApart
      <3>2. AgentsOf(lines, k) = Open(lines, k - 1)
        BY <2>2, <3>1, OpenBefore
      <3>3. ASSUME NEW m \in Open(lines, k - 1)
            PROVE  m \in O
        <4>1. /\ m \in 1..(k - 1) /\ IsAgent(lines[m]) /\ \A x \in m..(k - 1) : lines[x].key # "blank"
              /\ \A x, y \in m..(k - 1) : x < y => ~(IsDirective(lines[x]) /\ IsAgent(lines[y]))
          BY DEF Open
        <4>2. \A x \in m..i : x \in m..(k - 1) \/ x \in j..i
          BY <2>1, <3>1, <4>1
        <4>3. \A x \in m..i : lines[x].key # "blank"
          BY <2>1, <4>1, <4>2
        <4>4. ASSUME NEW x \in m..i, NEW y \in m..i, x < y, IsDirective(lines[x]), IsAgent(lines[y])
              PROVE  FALSE
          <5>1. y # k
            BY <2>2, <4>4, KeysApart
          <5>2. CASE y > k
            <6>1. y \in j..i /\ k < y
              BY <2>1, <3>1, <4>4, <5>2
            <6> QED
              BY <2>1, <2>2, <4>4, <6>1
          <5>3. CASE y < k
            <6>1. x \in m..(k - 1) /\ y \in m..(k - 1)
              BY <3>1, <4>4, <5>3
            <6> QED
              BY <4>1, <4>4, <6>1
          <5> QED
            BY <3>1, <5>1, <5>2, <5>3
        <4>5. m \in 1..i
          BY <3>1, <4>1
        <4> QED
          BY <4>1, <4>3, <4>4, <4>5 DEF Open
      <3>4. ASSUME NEW m \in O
            PROVE  m \in Open(lines, k - 1)
        <4>1. /\ m \in 1..i /\ IsAgent(lines[m]) /\ \A x \in m..i : lines[x].key # "blank"
              /\ \A x, y \in m..i : x < y => ~(IsDirective(lines[x]) /\ IsAgent(lines[y]))
          BY DEF Open
        <4>2. m # k
          BY <2>2, <4>1, KeysApart
        <4>3. ~(m > k)
          <5>0. m \in 1..i /\ k \in 1..i /\ j \in 1..i /\ j < k
            BY <2>1, <3>1, <4>1
          <5>1. m > k => m \in j..i
            BY <5>0
          <5> QED
            BY <2>1, <2>2, <4>1, <5>1
        <4>4. m \in 1..(k - 1) /\ m..(k - 1) \subseteq m..i
          BY <3>1, <4>1, <4>2, <4>3
        <4> QED
          BY <4>1, <4>4 DEF Open
      <3>5. AgentsOf(lines, k) = O
        BY <3>2, <3>3, <3>4
      <3> QED
        BY <1>3, <2>2, <3>1, <3>5 DEF DirectivesOf
    <2>3. \A k \in j..(i + 1) : k \in j..i \/ k = i + 1
      BY <2>1
    <2>4. \A k \in j..(i + 1) : lines[k].key # "blank"
      BY <2>1, <2>3, KeysApart
    <2>5. \A k, l \in j..(i + 1) : k < l => ~(IsDirective(lines[k]) /\ IsAgent(lines[l]))
      BY <2>2, <2>3, KeysApart
    <2> QED
      BY <2>1, <2>4, <2>5 DEF Open
  <1>4. Open(lines, i + 1) \subseteq O \cup {i + 1}
    BY OpenNext
  <1> HIDE DEF O, D
  <1>5. CASE D # {}
    BY <1>1, <1>2, <1>4, <1>5 DEF O, D
  <1>6. CASE D = {}
    BY <1>1, <1>3, <1>4, <1>6 DEF O, D
  <1> QED
    BY <1>5, <1>6

RuleOf(line) == [pattern |-> line.value, allow |-> line.key = "allow"]
IsRule(line) == line.key \in {"allow", "disallow"} /\ line.value # <<>>
GivesDelay(line) == line.key = "crawl-delay" /\ line.value >= 0
GivesRate(line) == line.key = "request-rate" /\ line.value.requests > 0
IsLatest(k, is) == k \in is /\ \A l \in is : l <= k

\* The group g is what the directives among some lines say of the agent lines A.
Says(g, A, lines, D) ==
    LET rules == {k \in D : IsRule(lines[k])}
        delays == {k \in D : GivesDelay(lines[k])}
        rates == {k \in D : GivesRate(lines[k])}
    IN  /\ Range(g.agents) = {lines[j].value : j \in A}
        /\ Range(g.rules) = {RuleOf(lines[k]) : k \in rules}
        /\ IF delays = {} THEN g.delay = 0 ELSE \E k \in delays : IsLatest(k, delays) /\ g.delay = lines[k].value
        /\ IF rates = {} THEN g.rate = NoRate ELSE \E k \in rates : IsLatest(k, rates) /\ g.rate = lines[k].value

LEMMA NothingSaid ==
    ASSUME NEW g, NEW A, NEW lines, g.rules = <<>>, g.delay = 0, g.rate = NoRate,
           Range(g.agents) = {lines[j].value : j \in A}
    PROVE  Says(g, A, lines, {})
  <1>1. Range(<<>>) = {}
    BY DEF Range
  <1> QED
    BY <1>1 DEF Says

\* A directive is heeded by the group that is open.
LEMMA OneMoreSaid ==
    ASSUME NEW p \in Parsers, NEW lines, NEW i \in Nat, IsLine(lines[i + 1]), IsDirective(lines[i + 1]),
           NEW A, NEW D \in SUBSET (1..i), Says(p.group, A, lines, D)
    PROVE  Says(Directive(p, lines[i + 1]).group, A, lines, D \cup {i + 1})
  <1> DEFINE line == lines[i + 1]
             g == p.group
             h == Directive(p, line).group
             rules(is) == {k \in is : IsRule(lines[k])}
             delays(is) == {k \in is : GivesDelay(lines[k])}
             rates(is) == {k \in is : GivesRate(lines[k])}
             E == D \cup {i + 1}
  <1>1. /\ h.agents = g.agents
        /\ h.rules = IF IsRule(line) THEN Append(g.rules, RuleOf(line)) ELSE g.rules
        /\ h.delay = IF GivesDelay(line) THEN line.value ELSE g.delay
        /\ h.rate = IF GivesRate(line) THEN line.value ELSE g.rate
    BY DirectiveIs DEF IsRule, RuleOf, GivesDelay, GivesRate
  <1>2. /\ Range(g.agents) = {lines[j].value : j \in A}
        /\ Range(g.rules) = {RuleOf(lines[k]) : k \in rules(D)}
        /\ IF delays(D) = {} THEN g.delay = 0
           ELSE \E k \in delays(D) : IsLatest(k, delays(D)) /\ g.delay = lines[k].value
        /\ IF rates(D) = {} THEN g.rate = NoRate
           ELSE \E k \in rates(D) : IsLatest(k, rates(D)) /\ g.rate = lines[k].value
    BY DEF Says
  <1>3. \A k \in D : k <= i + 1 /\ k # i + 1
    OBVIOUS
  <1>4. Range(h.rules) = {RuleOf(lines[k]) : k \in rules(E)}
    <2>1. CASE IsRule(line)
      <3>1. g.rules \in Seq(Rules)
        BY DEF Parsers, Groups
      <3>2. RuleOf(line) \in Rules
        BY <2>1 DEF IsRule, RuleOf, IsLine, Rules
      <3>3. Range(h.rules) = Range(g.rules) \cup {RuleOf(line)}
        BY <1>1, <2>1, <3>1, <3>2, RangeOfAppend
      <3>4. rules(E) = rules(D) \cup {i + 1}
        BY <2>1
      <3> QED
        BY <1>2, <3>3, <3>4
    <2>2. CASE ~IsRule(line)
      <3>1. rules(E) = rules(D)
        BY <2>2
      <3> QED
        BY <1>1, <1>2, <2>2, <3>1
    <2> QED
      BY <2>1, <2>2
  <1>5. IF delays(E) = {} THEN h.delay = 0
        ELSE \E k \in delays(E) : IsLatest(k, delays(E)) /\ h.delay = lines[k].value
    <2>1. CASE GivesDelay(line)
      <3>1. i + 1 \in delays(E) /\ \A k \in delays(E) : k <= i + 1
        BY <1>3, <2>1
      <3> HIDE DEF delays, h
      <3> QED
        BY <1>1, <2>1, <3>1 DEF IsLatest
    <2>2. CASE ~GivesDelay(line)
      <3>1. delays(E) = delays(D)
        BY <2>2
      <3> HIDE DEF delays, h
      <3> QED
        BY <1>1, <1>2, <2>2, <3>1
    <2> QED
      BY <2>1, <2>2
  <1>6. IF rates(E) = {} THEN h.rate = NoRate
        ELSE \E k \in rates(E) : IsLatest(k, rates(E)) /\ h.rate = lines[k].value
    <2>1. CASE GivesRate(line)
      <3>1. i + 1 \in rates(E) /\ \A k \in rates(E) : k <= i + 1
        BY <1>3, <2>1
      <3> HIDE DEF rates, h
      <3> QED
        BY <1>1, <2>1, <3>1 DEF IsLatest
    <2>2. CASE ~GivesRate(line)
      <3>1. rates(E) = rates(D)
        BY <2>2
      <3> HIDE DEF rates, h
      <3> QED
        BY <1>1, <1>2, <2>2, <3>1
    <2> QED
      BY <2>1, <2>2
  <1> HIDE DEF h
  <1> QED
    BY <1>1, <1>2, <1>4, <1>5, <1>6 DEF Says, h

\* The agent lines of a group that is closed, for each of them, and nothing but them.
Closed(gs, C, lines, i) ==
    /\ \A A \in C : /\ A # {} /\ A \subseteq 1..i /\ \A j \in A : IsAgent(lines[j])
                    /\ \E g \in gs : Says(g, A, lines, DirectivesOf(lines, i, A))
    /\ \A g \in gs : \E A \in C : Says(g, A, lines, DirectivesOf(lines, i, A))
\* All agents and directives of the first i lines are in one of the groups.
Covers(C, lines, i) ==
    /\ \A j \in 1..i : IsAgent(lines[j]) => \E A \in C : j \in A
    /\ \A k \in 1..i : IsDirective(lines[k]) /\ AgentsOf(lines, k) # {} => AgentsOf(lines, k) \in C
\* What has been read of a file after i lines: C are the agents of the groups before the
\* open one.
ReadSoFar(p, C, lines, i) ==
    LET O == Open(lines, i) IN
    /\ HasGroup(p) <=> O # {}
    /\ ~HasGroup(p) => p.group = EmptyGroup /\ ~p.directives
    /\ HasGroup(p) => /\ Says(p.group, O, lines, DirectivesOf(lines, i, O))
                      /\ p.directives <=> DirectivesOf(lines, i, O) # {}
    /\ Closed(Range(p.groups), C, lines, i)
    /\ \A A \in C : A \cap O = {}
    /\ Covers(C \cup {O}, lines, i)

LEMMA DirectivesNext ==
    ASSUME NEW lines, NEW i \in Nat, NEW A
    PROVE  DirectivesOf(lines, i + 1, A) =
              IF IsDirective(lines[i + 1]) /\ Open(lines, i) = A
              THEN DirectivesOf(lines, i, A) \cup {i + 1} ELSE DirectivesOf(lines, i, A)
  <1>1. 1..(i + 1) = (1..i) \cup {i + 1}
    OBVIOUS
  <1>2. IsDirective(lines[i + 1]) => AgentsOf(lines, i + 1) = Open(lines, i)
    BY OpenBefore
  <1> QED
    BY <1>1, <1>2 DEF DirectivesOf

LEMMA OpenAreAgents ==
    ASSUME NEW lines, NEW i \in Nat
    PROVE  Open(lines, i) \subseteq 1..i /\ \A j \in Open(lines, i) : IsAgent(lines[j])
  BY DEF Open

\* The groups that are closed stay as they are.
LEMMA ClosedNext ==
    ASSUME NEW lines, NEW i \in Nat, NEW gs, NEW C, Closed(gs, C, lines, i),
           IsDirective(lines[i + 1]) => Open(lines, i) \notin C
    PROVE  Closed(gs, C, lines, i + 1)
  <1>1. \A A \in C : DirectivesOf(lines, i + 1, A) = DirectivesOf(lines, i, A)
    BY DirectivesNext
  <1>2. 1..i \subseteq 1..(i + 1)
    OBVIOUS
  <1> QED
    BY <1>1, <1>2 DEF Closed

LEMMA CoversNext ==
    ASSUME NEW lines, NEW i \in Nat, NEW C, NEW E, Covers(C, lines, i),
           \A A \in C : \E B \in E : A \subseteq B,
           \A A \in C : (\E k \in 1..i : IsDirective(lines[k]) /\ AgentsOf(lines, k) = A) /\ A # {} => A \in E,
           IsAgent(lines[i + 1]) => \E A \in E : i + 1 \in A,
           IsDirective(lines[i + 1]) /\ Open(lines, i) # {} => Open(lines, i) \in E
    PROVE  Covers(E, lines, i + 1)
  <1>1. 1..(i + 1) = (1..i) \cup {i + 1}
    OBVIOUS
  <1>2. ASSUME NEW j \in 1..(i + 1), IsAgent(lines[j])
        PROVE  \E A \in E : j \in A
    <2>1. CASE j \in 1..i
      <3>1. PICK A \in C : j \in A
        BY <1>2, <2>1 DEF Covers
      <3> QED
        BY <3>1
    <2>2. CASE j = i + 1
      BY <1>2, <2>2
    <2> QED
      BY <1>1, <2>1, <2>2
  <1>3. ASSUME NEW k \in 1..(i + 1), IsDirective(lines[k]), AgentsOf(lines, k) # {}
        PROVE  AgentsOf(lines, k) \in E
    <2>1. CASE k \in 1..i
      <3>1. AgentsOf(lines, k) \in C
        BY <1>3, <2>1 DEF Covers
      <3> QED
        BY <1>3, <2>1, <3>1
    <2>2. CASE k = i + 1
      BY <1>3, <2>2, OpenBefore
    <2> QED
      BY <1>1, <2>1, <2>2
  <1> QED
    BY <1>2, <1>3 DEF Covers

\* Closing the open group.
LEMMA FlushCloses ==
    ASSUME NEW lines, NEW i \in Nat, NEW p \in Parsers, NEW C, ReadSoFar(p, C, lines, i)
    PROVE  /\ Closed(Range(Flush(p).groups), C \cup ({Open(lines, i)} \ {{}}), lines, i)
           /\ Flush(p).group = EmptyGroup /\ ~Flush(p).directives
           /\ Flush(p) \in Parsers /\ ~HasGroup(Flush(p))
  <1> DEFINE O == Open(lines, i)
             E == C \cup ({O} \ {{}})
             gs == Range(Flush(p).groups)
  <1>1. Flush(p).group = EmptyGroup /\ ~Flush(p).directives /\ ~HasGroup(Flush(p)) /\ Flush(p) \in Parsers
    BY FlushReads DEF Flush, HasGroup, EmptyGroup
  <1>2. Closed(Range(p.groups), C, lines, i) /\ (HasGroup(p) <=> O # {})
        /\ (HasGroup(p) => Says(p.group, O, lines, DirectivesOf(lines, i, O)))
    BY DEF ReadSoFar
  <1>3. p.groups \in Seq(Groups) /\ p.group \in Groups
    BY DEF Parsers
  <1>4. CASE HasGroup(p)
    <2>1. gs = Range(p.groups) \cup {p.group}
      BY <1>3, <1>4, RangeOfAppend DEF Flush
    <2>2. E = C \cup {O} /\ O # {}
      BY <1>2, <1>4
    <2>3. O \subseteq 1..i /\ \A j \in O : IsAgent(lines[j])
      BY OpenAreAgents
    <2> HIDE DEF gs, E, O
    <2>4. Closed(gs, E, lines, i)
      BY <1>2, <1>4, <2>1, <2>2, <2>3 DEF Closed
    <2> QED
      BY <1>1, <2>4 DEF gs, E, O
  <1>5. CASE ~HasGroup(p)
    <2>1. gs = Range(p.groups) /\ E = C
      BY <1>2, <1>5 DEF Flush
    <2> QED
      BY <1>1, <1>2, <2>1
  <1> QED
    BY <1>4, <1>5

LEMMA ReadAgent ==
    ASSUME NEW lines, NEW i \in Nat, NEW p \in Parsers, NEW C, ReadSoFar(p, C, lines, i),
           IsLine(lines[i + 1]), IsAgent(lines[i + 1])
    PROVE  \E E : ReadSoFar(ReadLine(p, lines[i + 1]), E, lines, i + 1)
  <1> DEFINE O == Open(lines, i)
             line == lines[i + 1]
             q == IF HasGroup(p) /\ p.directives THEN Flush(p) ELSE p
             r == ReadLine(p, line)
             N == Open(lines, i + 1)
             E == IF HasGroup(p) /\ p.directives THEN C \cup {O} ELSE C
  <1>1. /\ HasGroup(p) <=> O # {}
        /\ ~HasGroup(p) => p.group = EmptyGroup /\ ~p.directives
        /\ HasGroup(p) => /\ Says(p.group, O, lines, DirectivesOf(lines, i, O))
                          /\ p.directives <=> DirectivesOf(lines, i, O) # {}
        /\ Closed(Range(p.groups), C, lines, i)
        /\ \A A \in C : A \cap O = {}
        /\ Covers(C \cup {O}, lines, i)
    BY DEF ReadSoFar
  <1>2. line.key = "user-agent" /\ line.value \in Names /\ ~IsDirective(line)
    BY KeysApart DEF IsAgent, IsLine
  <1>3. q \in Parsers /\ r = [q EXCEPT !.group.agents = Append(@, line.value)]
    <2>1. q \in Parsers
      BY FlushReads
    <2>2. ReadLine(p, line) = [q EXCEPT !.group.agents = Append(@, line.value)]
      BY <1>2 DEF ReadLine, Directives
    <2> QED
      BY <2>1, <2>2
  <1> HIDE DEF q, r
  <1>4. /\ r.groups = q.groups /\ r.directives = q.directives
        /\ r.group.agents = Append(q.group.agents, line.value) /\ r.group.rules = q.group.rules
        /\ r.group.delay = q.group.delay /\ r.group.rate = q.group.rate
    BY <1>3 DEF Parsers, Groups
  <1>5. Range(r.group.agents) = Range(q.group.agents) \cup {line.value} /\ HasGroup(r)
    <2>1. q.group.agents \in Seq(Names)
      BY <1>3 DEF Parsers, Groups
    <2>2. Append(q.group.agents, line.value) # <<>>
      <3>1. Len(Append(q.group.agents, line.value)) = Len(q.group.agents) + 1 /\ Len(q.group.agents) \in Nat
        BY <1>2, <2>1
      <3> QED
        BY <3>1
    <2> QED
      BY <1>2, <1>4, <2>1, <2>2, RangeOfAppend DEF HasGroup
  <1>6. i + 1 \in N /\ N = IF HasGroup(p) /\ ~p.directives THEN O \cup {i + 1} ELSE {i + 1}
    BY <1>1, OpenAgent, ZenonT(40)
  <1>7. \A A : DirectivesOf(lines, i + 1, A) = DirectivesOf(lines, i, A)
    BY <1>2, DirectivesNext
  <1>8. DirectivesOf(lines, i + 1, N) = {}
    <2>1. \A k \in 1..i : i + 1 \notin AgentsOf(lines, k)
      BY DEF AgentsOf
    <2> QED
      BY <1>6, <1>7, <2>1 DEF DirectivesOf
  <1>9. Closed(Range(q.groups), E, lines, i) /\ ~q.directives
    BY <1>1, FlushCloses DEF q
  <1>10. Closed(Range(r.groups), E, lines, i + 1)
    BY <1>2, <1>4, <1>9, ClosedNext
  <1>11. \A A \in E : A \cap N = {}
    <2>1. \A A \in E : A \subseteq 1..i
      BY <1>9 DEF Closed
    <2>2. \A A \in E : i + 1 \notin A
      BY <2>1
    <2> HIDE DEF O, N
    <2> QED
      BY <1>1, <1>6, <2>2
  <1>12. Covers(E \cup {N}, lines, i + 1)
    <2>1. \A A \in C \cup {O} : \E B \in E \cup {N} : A \subseteq B
      <3> SUFFICES \E B \in E \cup {N} : O \subseteq B
        OBVIOUS
      <3>1. CASE HasGroup(p) /\ p.directives
        BY <3>1
      <3>2. CASE HasGroup(p) /\ ~p.directives
        BY <1>6, <3>2
      <3>3. CASE ~HasGroup(p)
        BY <1>1, <3>3
      <3> QED
        BY <3>1, <3>2, <3>3
    <2>2. ASSUME NEW A \in C \cup {O}, \E k \in 1..i : IsDirective(lines[k]) /\ AgentsOf(lines, k) = A, A # {}
          PROVE  A \in E \cup {N}
      <3>1. CASE A \in C
        BY <3>1
      <3>2. CASE A = O
        <4>1. DirectivesOf(lines, i, O) # {}
          BY <2>2, <3>2 DEF DirectivesOf
        <4> HIDE DEF O
        <4>2. HasGroup(p) /\ p.directives
          BY <1>1, <2>2, <3>2, <4>1
        <4> QED
          BY <3>2, <4>2
      <3> QED
        BY <3>1, <3>2
    <2>3. IsAgent(lines[i + 1]) => \E A \in E \cup {N} : i + 1 \in A
      BY <1>6
    <2>4. Covers(C \cup {O}, lines, i) /\ ~IsDirective(lines[i + 1])
      BY <1>1, <1>2
    <2>5. \A A \in C \cup {O} : (\E k \in 1..i : IsDirective(lines[k]) /\ AgentsOf(lines, k) = A) /\ A # {} => A \in E \cup {N}
      BY <2>2
    <2> DEFINE X == C \cup {O}
               Y == E \cup {N}
    <2> HIDE DEF X, Y
    <2>6. /\ Covers(X, lines, i)
          /\ \A A \in X : \E B \in Y : A \subseteq B
          /\ \A A \in X : (\E k \in 1..i : IsDirective(lines[k]) /\ AgentsOf(lines, k) = A) /\ A # {} => A \in Y
          /\ IsAgent(lines[i + 1]) => \E A \in Y : i + 1 \in A
          /\ ~IsDirective(lines[i + 1])
      BY <2>1, <2>3, <2>4, <2>5 DEF X, Y
    <2>7. Covers(Y, lines, i + 1)
      BY <2>6, CoversNext
    <2> QED
      BY <2>7 DEF Y
  <1>13. Says(r.group, N, lines, {})
    <2>1. CASE HasGroup(p) /\ ~p.directives
      <3>1. q = p /\ DirectivesOf(lines, i, O) = {} /\ Says(p.group, O, lines, {}) /\ N = O \cup {i + 1}
        BY <1>1, <1>6, <2>1 DEF q
      <3>2. Range(r.group.agents) = {lines[j].value : j \in N}
        <4>1. Range(p.group.agents) = {lines[j].value : j \in O}
          BY <3>1 DEF Says
        <4> HIDE DEF O, N
        <4> QED
          BY <1>5, <3>1, <4>1
      <3> HIDE DEF N, O
      <3> QED
        BY <1>4, <3>1, <3>2 DEF Says
    <2>2. CASE ~(HasGroup(p) /\ ~p.directives)
      <3>1. q.group = EmptyGroup /\ N = {i + 1}
        BY <1>1, <1>6, <2>2, FlushCloses DEF q
      <3>2. Range(<<>>) = {}
        BY DEF Range
      <3>3. Range(r.group.agents) = {lines[j].value : j \in N}
        BY <1>5, <3>1, <3>2 DEF EmptyGroup
      <3>4. r.group.rules = <<>> /\ r.group.delay = 0 /\ r.group.rate = NoRate
        BY <1>4, <3>1 DEF EmptyGroup
      <3> HIDE DEF N
      <3> QED
        BY <3>3, <3>4, NothingSaid
    <2> QED
      BY <2>1, <2>2
  <1> HIDE DEF E, N, O
  <1>14. ReadSoFar(r, E, lines, i + 1)
    BY <1>4, <1>5, <1>6, <1>8, <1>9, <1>10, <1>11, <1>12, <1>13 DEF ReadSoFar, N
  <1> QED
    BY <1>14 DEF r

LEMMA ReadOneMore ==
    ASSUME NEW lines, NEW i \in Nat, NEW p \in Parsers, NEW C, ReadSoFar(p, C, lines, i), IsLine(lines[i + 1])
    PROVE  \E E : ReadSoFar(ReadLine(p, lines[i + 1]), E, lines, i + 1)
  <1> DEFINE O == Open(lines, i)
             line == lines[i + 1]
             N == Open(lines, i + 1)
  <1>1. /\ HasGroup(p) <=> O # {}
        /\ ~HasGroup(p) => p.group = EmptyGroup /\ ~p.directives
        /\ HasGroup(p) => /\ Says(p.group, O, lines, DirectivesOf(lines, i, O))
                          /\ p.directives <=> DirectivesOf(lines, i, O) # {}
        /\ Closed(Range(p.groups), C, lines, i)
        /\ \A A \in C : A \cap O = {}
        /\ Covers(C \cup {O}, lines, i)
    BY DEF ReadSoFar
  <1>2. CASE IsAgent(line)
    BY <1>2, ReadAgent
  <1>3. CASE line.key = "blank"
    <2> DEFINE E == C \cup ({O} \ {{}})
               r == ReadLine(p, line)
    <2>1. r = Flush(p) /\ ~IsAgent(line) /\ ~IsDirective(line)
      BY <1>3 DEF ReadLine, IsAgent, IsDirective, Directives
    <2>2. N = {}
      BY <1>3, OpenNext
    <2>3. Closed(Range(r.groups), E, lines, i) /\ r.group = EmptyGroup /\ ~r.directives /\ ~HasGroup(r)
      BY <2>1, FlushCloses
    <2>4. Closed(Range(r.groups), E, lines, i + 1)
      BY <2>1, <2>3, ClosedNext
    <2>5. Covers(E \cup {N}, lines, i + 1)
      <3> DEFINE X == C \cup {O}
                 Y == E \cup {N}
      <3>1. /\ \A A \in X : \E B \in Y : A \subseteq B
            /\ \A A \in X : A # {} => A \in Y
        BY <2>2
      <3>2. Covers(X, lines, i)
        BY <1>1
      <3> HIDE DEF X, Y
      <3>3. Covers(Y, lines, i + 1)
        BY <2>1, <3>1, <3>2, CoversNext
      <3> QED
        BY <3>3 DEF Y
    <2>6. ReadSoFar(r, E, lines, i + 1)
      <3> HIDE DEF r, E
      <3> QED
        BY <2>2, <2>3, <2>4, <2>5 DEF ReadSoFar
    <2> QED
      BY <2>6
  <1>4. CASE IsDirective(line) /\ HasGroup(p)
    <2> DEFINE r == ReadLine(p, line)
    <2>1. r = Directive(p, line) /\ ~IsAgent(line) /\ line.key # "blank"
      BY <1>4, KeysApart DEF ReadLine, IsDirective, IsAgent
    <2>2. N = O /\ O # {}
      BY <1>1, <1>4, <2>1, OpenNext
    <2>3. r.groups = p.groups /\ r.directives /\ r.group.agents = p.group.agents
      <3> HIDE DEF r
      <3>1. IsLine(line)
        OBVIOUS
      <3> HIDE DEF line
      <3> QED
        BY <2>1, <3>1, DirectiveIs
    <2>4. HasGroup(r)
      BY <1>4, <2>3 DEF HasGroup
    <2>5. DirectivesOf(lines, i + 1, N) = DirectivesOf(lines, i, O) \cup {i + 1}
      BY <1>4, <2>2, DirectivesNext
    <2>6. Says(r.group, N, lines, DirectivesOf(lines, i + 1, N))
      <3>1. DirectivesOf(lines, i, O) \in SUBSET (1..i)
        BY DEF DirectivesOf
      <3>2. Says(p.group, O, lines, DirectivesOf(lines, i, O))
        BY <1>1, <1>4
      <3> HIDE DEF O, N
      <3>3. Says(Directive(p, line).group, O, lines, DirectivesOf(lines, i, O) \cup {i + 1})
        BY <1>4, <3>1, <3>2, OneMoreSaid
      <3> QED
        BY <2>1, <2>2, <2>5, <3>3
    <2>7. O \notin C
      BY <1>1, <2>2
    <2>8. Closed(Range(r.groups), C, lines, i + 1)
      BY <1>1, <2>3, <2>7, ClosedNext
    <2>9. Covers(C \cup {N}, lines, i + 1)
      <3> DEFINE X == C \cup {O}
      <3>1. O \in X /\ \A A \in X : A \subseteq A
        OBVIOUS
      <3>2. Covers(X, lines, i)
        BY <1>1
      <3> HIDE DEF X
      <3>3. Covers(X, lines, i + 1)
        BY <2>1, <3>1, <3>2, CoversNext
      <3> QED
        BY <2>2, <3>3 DEF X
    <2>10. ReadSoFar(r, C, lines, i + 1)
      <3>1. DirectivesOf(lines, i + 1, N) # {}
        BY <2>5
      <3>2. \A A \in C : A \cap N = {}
        BY <1>1, <2>2
      <3> HIDE DEF r, O
      <3> QED
        BY <2>2, <2>3, <2>4, <2>6, <2>8, <2>9, <3>1, <3>2 DEF ReadSoFar, N
    <2> QED
      BY <2>10
  <1>5. CASE ~IsAgent(line) /\ line.key # "blank" /\ ~(IsDirective(line) /\ HasGroup(p))
    <2> DEFINE r == ReadLine(p, line)
    <2>1. r = p
      BY <1>5 DEF ReadLine, IsDirective, IsAgent
    <2>2. N = O
      BY <1>5, OpenNext
    <2>3. \A A : A # {} => DirectivesOf(lines, i + 1, A) = DirectivesOf(lines, i, A)
      BY <1>1, <1>5, DirectivesNext
    <2>4. Closed(Range(r.groups), C, lines, i + 1)
      <3>1. IsDirective(line) => O = {}
        BY <1>1, <1>5
      <3>2. {} \notin C
        BY <1>1 DEF Closed
      <3> QED
        BY <1>1, <2>1, <3>1, <3>2, ClosedNext
    <2>5. Covers(C \cup {N}, lines, i + 1)
      <3> DEFINE X == C \cup {O}
      <3>1. O \in X /\ \A A \in X : A \subseteq A
        OBVIOUS
      <3>2. Covers(X, lines, i)
        BY <1>1
      <3> HIDE DEF X
      <3>3. Covers(X, lines, i + 1)
        BY <1>5, <3>1, <3>2, CoversNext
      <3> QED
        BY <2>2, <3>3 DEF X
    <2>6. ReadSoFar(r, C, lines, i + 1)
      <3> HIDE DEF r, O, N
      <3>1. HasGroup(p) => DirectivesOf(lines, i + 1, O) = DirectivesOf(lines, i, O)
        BY <1>1, <2>3
      <3> QED
        BY <1>1, <2>1, <2>2, <2>4, <2>5, <3>1 DEF ReadSoFar, O, N
    <2> QED
      BY <2>6
  <1> QED
    BY <1>2, <1>3, <1>4, <1>5

\* A file is read as its lines say: one group for each block of agents, with the directives
\* about them.
LEMMA ParsedIs ==
    ASSUME NEW lines, IsFile(lines)
    PROVE  /\ ParseRobotsTxt(lines) \in Seq(Groups)
           /\ \E C : /\ Closed(Range(ParseRobotsTxt(lines)), C, lines, Len(lines))
                     /\ Covers(C, lines, Len(lines))
  <1> DEFINE n == Len(lines)
             start == [groups |-> <<>>, group |-> EmptyGroup, directives |-> FALSE]
  <1>1. n \in Nat /\ DOMAIN lines = 1..n /\ \A i \in 1..n : IsLine(lines[i])
    BY DEF IsFile
  <1>2. PICK F \in [0..n -> Parsers] :
              /\ F[0] = start
              /\ \A i \in 1..n : F[i] = ReadLine(F[i - 1], lines[i])
              /\ ParseRobotsTxt(lines) = Flush(F[n]).groups
    <2>1. lines \in Seq(Range(lines)) /\ \A l \in Range(lines) : IsLine(l)
      BY DEF IsFile, Range
    <2> QED
      BY <2>1, ParseSteps
  <1> HIDE DEF n
  <1> DEFINE T == {i \in 0..n : \E C : ReadSoFar(F[i], C, lines, i)}
  <1>3. 0 \in T
    <2>1. Open(lines, 0) = {} /\ 1..0 = {} /\ Range(<<>>) = {}
      BY DEF Open, Range
    <2>2. F[0].group = EmptyGroup /\ ~F[0].directives /\ F[0].groups = <<>> /\ ~HasGroup(F[0])
      BY <1>2 DEF HasGroup, EmptyGroup
    <2>3. Closed(Range(F[0].groups), {}, lines, 0) /\ Covers({} \cup {{}}, lines, 0)
      BY <2>1, <2>2 DEF Closed, Covers
    <2>4. ReadSoFar(F[0], {}, lines, 0)
      BY <2>1, <2>2, <2>3 DEF ReadSoFar
    <2>5. 0 \in 0..n
      BY <1>1
    <2> QED
      BY <2>4, <2>5
  <1>4. ASSUME NEW i \in 0..(n - 1), i \in T
        PROVE  i + 1 \in T
    <2>1. i \in Nat /\ i \in 0..n /\ i + 1 \in 1..n /\ i + 1 \in 0..n /\ i + 1 - 1 = i
      BY <1>1
    <2>2. F[i] \in Parsers /\ F[i + 1] = ReadLine(F[i], lines[i + 1])
      BY <1>2, <2>1
    <2>3. PICK C : ReadSoFar(F[i], C, lines, i)
      BY <1>4
    <2>4. IsLine(lines[i + 1])
      BY <1>1, <2>1
    <2>5. \E E : ReadSoFar(ReadLine(F[i], lines[i + 1]), E, lines, i + 1)
      BY <2>1, <2>2, <2>3, <2>4, ReadOneMore
    <2> QED
      BY <2>1, <2>2, <2>5
  <1>5. PICK C : ReadSoFar(F[n], C, lines, n)
    <2>1. n \in 0..n
      BY <1>1
    <2> HIDE DEF T
    <2>2. n \in T
      BY <1>1, <1>3, <1>4, <2>1, UpTo
    <2> QED
      BY <2>2 DEF T
  <1>6. F[n] \in Parsers
    BY <1>1, <1>2
  <1> DEFINE O == Open(lines, n)
             E == C \cup ({O} \ {{}})
  <1>7. Closed(Range(Flush(F[n]).groups), E, lines, n) /\ Flush(F[n]) \in Parsers
    BY <1>1, <1>5, <1>6, FlushCloses
  <1>8. Covers(E, lines, n)
    <2>1. Covers(C \cup {O}, lines, n)
      BY <1>5 DEF ReadSoFar
    <2> QED
      BY <2>1 DEF Covers
  <1>9. Flush(F[n]).groups \in Seq(Groups)
    BY <1>7 DEF Parsers
  <1> QED
    BY <1>2, <1>7, <1>8, <1>9 DEF n

----------------------------------------------------------------------------
(* Patterns *)

LEMMA UnanchoredIsName ==
    ASSUME NEW pattern \in Names
    PROVE  Unanchored(pattern) \in Names
  <1>1. CASE EndAnchored(pattern)
    <2>1. pattern # <<>>
      BY <1>1 DEF EndAnchored
    <2>2. Front(pattern) \in Seq(STRING)
      BY <2>1 DEF Names, Front
    <2> QED
      BY <1>1, <2>2 DEF Unanchored, Names
  <1>2. CASE ~EndAnchored(pattern)
    BY <1>2 DEF Unanchored
  <1> QED
    BY <1>1, <1>2

\* The symbols of a body up to the i-th are placed on a path.
Placed(at, i, body, path) ==
    /\ at[0] = 0
    /\ \A x \in 1..i : IF body[x] = "*" THEN at[x] >= at[x - 1]
                       ELSE at[x] = at[x - 1] + 1 /\ path[at[x]] = body[x]
\* Where the i-th symbol can come to.
Ends(i, body, path) ==
    {k \in 0..Len(path) : \E at \in [0..i -> 0..Len(path)] : Placed(at, i, body, path) /\ at[i] = k}
\* ... from where the one before it came to.
NextEnds(X, i, body, path) ==
    IF body[i] = "*" THEN {k \in 0..Len(path) : \E j \in X : j <= k}
    ELSE {k \in 1..Len(path) : k - 1 \in X /\ path[k] = body[i]}

LEMMA EndsNext ==
    ASSUME NEW body \in Names, NEW path \in Names, NEW i \in Nat
    PROVE  Ends(i + 1, body, path) = NextEnds(Ends(i, body, path), i + 1, body, path)
  <1> DEFINE m == Len(path)
  <1>1. m \in Nat /\ i + 1 \in 1..(i + 1) /\ i + 1 - 1 = i /\ 1..(i + 1) = (1..i) \cup {i + 1}
    BY DEF Names
  <1> HIDE DEF m
  <1>2. ASSUME NEW k \in Ends(i + 1, body, path)
        PROVE  k \in NextEnds(Ends(i, body, path), i + 1, body, path)
    <2>1. PICK at \in [0..(i + 1) -> 0..m] : Placed(at, i + 1, body, path) /\ at[i + 1] = k
      BY <1>2 DEF Ends, m
    <2> DEFINE less == [x \in 0..i |-> at[x]]
    <2>2. less \in [0..i -> 0..m] /\ less[i] = at[i] /\ at[i] \in 0..m /\ at[i + 1] \in 0..m
      BY <1>1
    <2>3. Placed(less, i, body, path)
      <3>1. \A x \in 1..i : less[x] = at[x] /\ less[x - 1] = at[x - 1] /\ x \in 1..(i + 1)
        OBVIOUS
      <3>2. less[0] = at[0]
        OBVIOUS
      <3> HIDE DEF less
      <3> QED
        BY <2>1, <3>1, <3>2 DEF Placed
    <2>4. at[i] \in Ends(i, body, path)
      <3> HIDE DEF less
      <3> QED
        BY <2>2, <2>3 DEF Ends, m
    <2>5. IF body[i + 1] = "*" THEN at[i + 1] >= at[i]
          ELSE at[i + 1] = at[i] + 1 /\ path[at[i + 1]] = body[i + 1]
      BY <1>1, <2>1 DEF Placed
    <2>6. k = at[i + 1] /\ k \in 0..m
      BY <2>1, <2>2
    <2>7. CASE body[i + 1] = "*"
      BY <2>2, <2>4, <2>5, <2>6, <2>7 DEF NextEnds, m
    <2>8. CASE body[i + 1] # "*"
      <3>1. k \in 1..m /\ k - 1 = at[i]
        BY <1>1, <2>2, <2>5, <2>6, <2>8
      <3> QED
        BY <2>4, <2>5, <2>6, <2>8, <3>1 DEF NextEnds, m
    <2> QED
      BY <2>7, <2>8
  <1>3. ASSUME NEW k \in NextEnds(Ends(i, body, path), i + 1, body, path)
        PROVE  k \in Ends(i + 1, body, path)
    <2>1. /\ k \in 0..m
          /\ \E j \in Ends(i, body, path) :
                IF body[i + 1] = "*" THEN k >= j ELSE k = j + 1 /\ path[k] = body[i + 1]
      <3>1. CASE body[i + 1] = "*"
        <4>1. k \in 0..m /\ \E j \in Ends(i, body, path) : j <= k
          BY <1>3, <3>1 DEF NextEnds, m
        <4>2. \A j \in Ends(i, body, path) : j \in 0..m
          BY DEF Ends, m
        <4> QED
          BY <1>1, <3>1, <4>1, <4>2
      <3>2. CASE body[i + 1] # "*"
        <4>1. k \in 1..m /\ k - 1 \in Ends(i, body, path) /\ path[k] = body[i + 1]
          BY <1>3, <3>2 DEF NextEnds, m
        <4>2. k \in 0..m /\ k = k - 1 + 1
          BY <1>1, <4>1
        <4> QED
          BY <3>2, <4>1, <4>2
      <3> QED
        BY <3>1, <3>2
    <2>2. PICK j \in Ends(i, body, path) :
                IF body[i + 1] = "*" THEN k >= j ELSE k = j + 1 /\ path[k] = body[i + 1]
      BY <2>1
    <2>3. PICK at \in [0..i -> 0..m] : Placed(at, i, body, path) /\ at[i] = j
      BY DEF Ends, m
    <2> DEFINE more == [x \in 0..(i + 1) |-> IF x = i + 1 THEN k ELSE at[x]]
    <2>4. more \in [0..(i + 1) -> 0..m] /\ more[i + 1] = k /\ more[i] = at[i]
      BY <2>1
    <2>5. Placed(more, i + 1, body, path)
      <3>1. \A x \in 1..i : more[x] = at[x] /\ more[x - 1] = at[x - 1]
        OBVIOUS
      <3>2. more[0] = at[0]
        OBVIOUS
      <3> HIDE DEF more
      <3>3. ASSUME NEW x \in 1..(i + 1)
            PROVE  IF body[x] = "*" THEN more[x] >= more[x - 1]
                   ELSE more[x] = more[x - 1] + 1 /\ path[more[x]] = body[x]
        <4>1. CASE x \in 1..i
          BY <2>3, <3>1, <4>1 DEF Placed
        <4>2. CASE x = i + 1
          <5>1. more[x] = k /\ more[x - 1] = j
            BY <1>1, <2>3, <2>4, <4>2
          <5> QED
            BY <2>2, <4>2, <5>1
        <4> QED
          BY <1>1, <4>1, <4>2
      <3> QED
        BY <2>3, <3>2, <3>3 DEF Placed
    <2> HIDE DEF more
    <2> QED
      BY <2>1, <2>4, <2>5 DEF Ends, m
  <1> QED
    BY <1>2, <1>3

\* A pattern matches a path, symbol by symbol, iff it fits it.
LEMMA MatchesIffFits ==
    ASSUME NEW pattern \in Names, NEW path \in Names
    PROVE  PatternMatches(pattern, path) <=> pattern # <<>> /\ Fits(pattern, path)
  <1> DEFINE body == Unanchored(pattern)
             n == Len(body)
             m == Len(path)
             S == SUBSET (0..m)
             step == [i \in 1..n |-> [X \in S |-> NextEnds(X, i, body, path)]]
             Is(f) == f = [i \in 0..n |->
                             IF i = 0 THEN {0}
                             ELSE IF body[i] = "*" THEN {k \in 0..m : \E j \in f[i - 1] : j <= k}
                             ELSE {k \in 1..m : k - 1 \in f[i - 1] /\ path[k] = body[i]}]
             reached == CHOOSE f : Is(f)
             ends == IF EndAnchored(pattern) THEN {m} ELSE 0..m
  <1>1. body \in Names /\ n \in Nat /\ m \in Nat
    BY UnanchoredIsName DEF Names
  <1>2. PatternMatches(pattern, path) <=> pattern # <<>> /\ reached[n] \cap ends # {}
    BY DEF PatternMatches
  <1> HIDE DEF body
  <1> HIDE DEF n, m
  <1>3. step \in [1..n -> [S -> S]] /\ {0} \in S
    BY <1>1 DEF NextEnds, m
  <1>4. PICK f : f \in RecursionsOf(S, n, step, {0})
    <2> DEFINE b == {0}
    <2>1. b \in S /\ RecursionsOf(S, n, step, b) = RecursionsOf(S, n, step, {0})
      BY <1>3
    <2> HIDE DEF b, S, step
    <2> QED
      BY <1>1, <1>3, <2>1, RecursionExists
  <1>5. f \in [0..n -> S] /\ f[0] = {0} /\ \A i \in 1..n : f[i] = step[i][f[i - 1]]
    BY <1>4 DEF RecursionsOf
  <1>6. Is(f)
    <2>1. \A i \in 1..n : f[i] = NextEnds(f[i - 1], i, body, path)
      <3> SUFFICES ASSUME NEW i \in 1..n
                   PROVE  f[i] = NextEnds(f[i - 1], i, body, path)
        OBVIOUS
      <3>1. f[i - 1] \in S
        BY <1>1, <1>5
      <3> HIDE DEF S
      <3> QED
        BY <1>5, <3>1
    <2> DEFINE g == [i \in 0..n |-> IF i = 0 THEN {0} ELSE NextEnds(f[i - 1], i, body, path)]
    <2>2. f = g
      <3>1. f = [i \in 0..n |-> f[i]]
        BY <1>5
      <3>2. \A i \in 0..n : f[i] = IF i = 0 THEN {0} ELSE NextEnds(f[i - 1], i, body, path)
        <4>1. \A i \in 0..n : i # 0 => i \in 1..n
          BY <1>1
        <4> QED
          BY <1>5, <2>1, <4>1
      <3> QED
        BY <3>1, <3>2
    <2>3. Is(f) <=> f = g
      BY DEF NextEnds, m
    <2> QED
      BY <2>2, <2>3
  <1>7. Is(reached)
    <2> HIDE DEF Is
    <2> QED
      BY <1>6
  <1> HIDE DEF reached, step
  <1>8. reached[0] = {0} /\ \A i \in 1..n : reached[i] = NextEnds(reached[i - 1], i, body, path)
    <2>1. reached = [i \in 0..n |-> IF i = 0 THEN {0} ELSE NextEnds(reached[i - 1], i, body, path)]
      BY <1>7 DEF NextEnds, m
    <2>2. 0 \in 0..n /\ \A i \in 1..n : i \in 0..n /\ i # 0
      BY <1>1
    <2> HIDE DEF Is
    <2> QED
      BY <2>1, <2>2
  <1> HIDE DEF Is
  <1> DEFINE T == {i \in 0..n : reached[i] = Ends(i, body, path)}
  <1>9. 0 \in T
    <2>1. Ends(0, body, path) = {0}
      <3> DEFINE at == [x \in 0..0 |-> 0]
      <3>1. at \in [0..0 -> 0..m] /\ at[0] = 0 /\ 1..0 = {}
        BY <1>1
      <3>2. Placed(at, 0, body, path)
        BY <3>1 DEF Placed
      <3> HIDE DEF at
      <3>3. 0 \in Ends(0, body, path)
        BY <1>1, <3>1, <3>2 DEF Ends, m
      <3>4. \A k \in Ends(0, body, path) : k = 0
        BY DEF Ends, Placed
      <3> QED
        BY <3>3, <3>4
    <2>2. 0 \in 0..n
      BY <1>1
    <2> QED
      BY <1>8, <2>1, <2>2
  <1>10. ASSUME NEW i \in 0..(n - 1), i \in T
         PROVE  i + 1 \in T
    <2>1. i \in Nat /\ i + 1 \in 1..n /\ i + 1 \in 0..n /\ i + 1 - 1 = i
      BY <1>1
    <2>2. reached[i + 1] = NextEnds(Ends(i, body, path), i + 1, body, path)
      BY <1>8, <1>10, <2>1
    <2> QED
      BY <1>1, <2>1, <2>2, EndsNext
  <1>11. reached[n] = Ends(n, body, path)
    <2>1. n \in 0..n
      BY <1>1
    <2> HIDE DEF T
    <2>2. n \in T
      BY <1>1, <1>9, <1>10, <2>1, UpTo
    <2> QED
      BY <2>2 DEF T
  <1>12. Fits(pattern, path) <=>
           \E at \in [0..n -> 0..m] : Placed(at, n, body, path) /\ (EndAnchored(pattern) => at[n] = m)
    BY DEF Fits, Placed, body, n, m
  <1>13. Fits(pattern, path) <=> Ends(n, body, path) \cap ends # {}
    <2>1. ASSUME NEW at \in [0..n -> 0..m], Placed(at, n, body, path), EndAnchored(pattern) => at[n] = m
          PROVE  Ends(n, body, path) \cap ends # {}
      <3>1. at[n] \in 0..m
        BY <1>1
      <3>2. at[n] \in Ends(n, body, path)
        BY <2>1, <3>1 DEF Ends, m
      <3> QED
        BY <2>1, <3>1, <3>2
    <2>2. ASSUME NEW k \in Ends(n, body, path), k \in ends
          PROVE  Fits(pattern, path)
      <3>1. PICK at \in [0..n -> 0..m] : Placed(at, n, body, path) /\ at[n] = k
        BY DEF Ends, m
      <3> QED
        BY <1>12, <2>2, <3>1
    <2> HIDE DEF ends
    <2> QED
      BY <1>12, <2>1, <2>2
  <1> QED
    BY <1>2, <1>11, <1>13

----------------------------------------------------------------------------
(* The group of an agent *)

LEMMA ScoreIsNotZero ==
    ASSUME NEW agent \in Names, NEW tokens, AgentMatchScore(agent, tokens) >= 0
    PROVE  AgentMatchScore(agent, tokens) > 0
  <1>1. Len(agent) \in Nat
    BY DEF Names
  <1> QED
    BY <1>1 DEF AgentMatchScore

\* A group scores what its agent lines do.
LEMMA ScoresAgree ==
    ASSUME NEW lines, NEW tokens, NEW g \in Groups, NEW A, NEW D, Says(g, A, lines, D)
    PROVE  /\ IsBest(GroupMatchScore(g, tokens), {AgentMatchScore(lines[j].value, tokens) : j \in A})
           /\ ScoreOf(lines, A, tokens) = GroupMatchScore(g, tokens)
  <1> DEFINE scores == {AgentMatchScore(lines[j].value, tokens) : j \in A}
  <1>1. g.agents \in Seq(Names) /\ Range(g.agents) = {lines[j].value : j \in A}
    BY DEF Says, Groups
  <1>2. Range(g.agents) \subseteq Names
    BY <1>1 DEF Range
  <1>3. {AgentMatchScore(a, tokens) : a \in Range(g.agents)} = scores
    BY <1>1
  <1>4. IsBest(GroupMatchScore(g, tokens), scores)
    BY <1>1, <1>3, GroupScoreIs
  <1>5. scores \in SUBSET Int
    BY <1>2, <1>3, ScoreIsInt
  <1> HIDE DEF scores
  <1>6. BestScore(scores) = GroupMatchScore(g, tokens)
    BY <1>4, <1>5, BestScoreIs
  <1> QED
    BY <1>4, <1>6 DEF ScoreOf, scores

\* The groups gs carry the directives an agent has to heed, and no others.
Serve(gs, lines, tokens) ==
    LET heeded == HeededLines(lines, tokens)
        about(A) == DirectivesOf(lines, Len(lines), A)
    IN  /\ \A g \in gs : \E A : Says(g, A, lines, about(A)) /\ about(A) \subseteq heeded
        /\ \A k \in heeded : \E g \in gs : /\ Says(g, AgentsOf(lines, k), lines, about(AgentsOf(lines, k)))
                                           /\ about(AgentsOf(lines, k)) \subseteq heeded

LEMMA MatchingServe ==
    ASSUME NEW lines, IsFile(lines), NEW tokens
    PROVE  /\ MatchingGroups(ParseRobotsTxt(lines), tokens) \in Seq(Groups)
           /\ Serve(Range(MatchingGroups(ParseRobotsTxt(lines), tokens)), lines, tokens)
  <1> DEFINE G == ParseRobotsTxt(lines)
             M == MatchingGroups(G, tokens)
             n == Len(lines)
             about(A) == DirectivesOf(lines, n, A)
             heeded == HeededLines(lines, tokens)
             sc(g) == GroupMatchScore(g, tokens)
             top == ScoreOf(lines, HasAgents(lines), tokens)
  <1>1. n \in Nat /\ DOMAIN lines = 1..n /\ \A i \in 1..n : IsLine(lines[i])
    BY DEF IsFile
  <1>2. G \in Seq(Groups)
    BY ParsedIs
  <1>3. PICK C : Closed(Range(G), C, lines, n) /\ Covers(C, lines, n)
    BY ParsedIs
  <1> HIDE DEF G, n
  <1>4. PICK m \in [best : Int, matches : Seq(Groups)] : AreBest(m, Range(G), tokens) /\ M = m.matches
    BY <1>2, MatchingIs
  <1>5. /\ M \in Seq(Groups) /\ IsBest(m.best, {sc(g) : g \in Range(G)})
        /\ Range(M) = {g \in Range(G) : m.best >= 0 /\ sc(g) = m.best}
    BY <1>4 DEF AreBest
  <1>6. \A g \in Range(G) : g \in Groups
    BY <1>2 DEF Range
  <1>7. /\ \A A \in C : /\ A # {} /\ A \subseteq 1..n /\ \A j \in A : IsAgent(lines[j])
                        /\ \E g \in Range(G) : Says(g, A, lines, about(A))
        /\ \A g \in Range(G) : \E A \in C : Says(g, A, lines, about(A))
    BY <1>3 DEF Closed
  <1>8. \A j \in HasAgents(lines) : j \in 1..n /\ IsAgent(lines[j]) /\ lines[j].value \in Names
    BY <1>1 DEF HasAgents, IsAgent, IsLine
  <1>9. top = m.best
    <2> DEFINE scores == {AgentMatchScore(lines[j].value, tokens) : j \in HasAgents(lines)}
    <2>1. scores \in SUBSET Int
      BY <1>8, ScoreIsInt
    <2>2. m.best \in scores \cup {-1}
      <3>1. ASSUME NEW g \in Range(G)
            PROVE  sc(g) \in scores \cup {-1}
        <4>1. PICK A \in C : Says(g, A, lines, about(A))
          BY <1>7
        <4>2. IsBest(sc(g), {AgentMatchScore(lines[j].value, tokens) : j \in A})
          BY <1>6, <4>1, ScoresAgree
        <4>3. A \subseteq HasAgents(lines)
          BY <1>1, <1>7 DEF HasAgents
        <4> QED
          BY <4>2, <4>3 DEF IsBest
      <3> QED
        BY <1>5, <3>1 DEF IsBest
    <2>3. ASSUME NEW j \in HasAgents(lines)
          PROVE  m.best >= AgentMatchScore(lines[j].value, tokens)
      <3>1. PICK A \in C : j \in A
        BY <1>3, <1>8 DEF Covers
      <3>2. PICK g \in Range(G) : Says(g, A, lines, about(A))
        BY <1>7
      <3>3. IsBest(sc(g), {AgentMatchScore(lines[x].value, tokens) : x \in A})
        BY <1>6, <3>2, ScoresAgree
      <3>4. sc(g) >= AgentMatchScore(lines[j].value, tokens)
        BY <3>1, <3>3 DEF IsBest
      <3>5. m.best >= sc(g)
        BY <1>5 DEF IsBest
      <3>6. m.best \in Int /\ sc(g) \in Int /\ AgentMatchScore(lines[j].value, tokens) \in Int
        <4>1. g.agents \in Seq(Names)
          BY <1>6 DEF Groups
        <4>2. sc(g) \in Int
          BY <4>1, GroupScoreIs
        <4> QED
          BY <1>4, <1>8, <4>2, ScoreIsInt
      <3> HIDE DEF sc
      <3> QED
        BY <3>4, <3>5, <3>6
    <2>4. m.best >= -1
      BY <1>5 DEF IsBest
    <2>5. IsBest(m.best, scores)
      BY <2>2, <2>3, <2>4 DEF IsBest
    <2> HIDE DEF scores
    <2>6. BestScore(scores) = m.best
      BY <2>1, <2>5, BestScoreIs
    <2> QED
      BY <2>6 DEF ScoreOf, scores
  <1>10. m.best \in Int /\ (m.best >= 0 => m.best > 0)
    <2>1. m.best >= 0 => \E g \in Range(G) : m.best = sc(g)
      BY <1>5 DEF IsBest
    <2>2. ASSUME NEW g \in Range(G), sc(g) >= 0
          PROVE  sc(g) > 0
      <3>1. g.agents \in Seq(Names)
        BY <1>6 DEF Groups
      <3>2. IsBest(sc(g), {AgentMatchScore(a, tokens) : a \in Range(g.agents)})
        BY <3>1, GroupScoreIs
      <3>3. \A a \in Range(g.agents) : a \in Names
        BY <3>1 DEF Range
      <3>4. PICK a \in Range(g.agents) : sc(g) = AgentMatchScore(a, tokens)
        BY <2>2, <3>2 DEF IsBest
      <3> QED
        BY <2>2, <3>3, <3>4, ScoreIsNotZero
    <2> QED
      BY <1>4, <2>1, <2>2
  <1>11. \A g \in Range(G), A \in C : Says(g, A, lines, about(A)) => ScoreOf(lines, A, tokens) = sc(g)
    BY <1>6, ScoresAgree
  <1>12. heeded = {i \in 1..n : /\ IsDirective(lines[i]) /\ AgentsOf(lines, i) # {}
                                /\ top > 0 /\ ScoreOf(lines, AgentsOf(lines, i), tokens) = top}
    BY <1>1 DEF HeededLines
  <1>13. ASSUME NEW A \in C, m.best > 0, ScoreOf(lines, A, tokens) = m.best
         PROVE  about(A) \subseteq heeded
    <2> SUFFICES ASSUME NEW k \in about(A)
                 PROVE  k \in heeded
      OBVIOUS
    <2>1. k \in 1..n /\ IsDirective(lines[k]) /\ AgentsOf(lines, k) = A
      BY DEF DirectivesOf
    <2>2. A # {}
      BY <1>7
    <2> HIDE DEF heeded, top, about
    <2> QED
      BY <1>9, <1>12, <1>13, <2>1, <2>2
  <1> HIDE DEF heeded, top, about, sc
  <1>14. ASSUME NEW g \in Range(M)
         PROVE  \E A : Says(g, A, lines, about(A)) /\ about(A) \subseteq heeded
    <2>1. g \in Range(G) /\ m.best > 0 /\ sc(g) = m.best
      BY <1>5, <1>10
    <2>2. PICK A \in C : Says(g, A, lines, about(A))
      BY <1>7, <2>1
    <2> QED
      BY <1>11, <1>13, <2>1, <2>2
  <1>15. ASSUME NEW k \in heeded
         PROVE  \E g \in Range(M) : Says(g, AgentsOf(lines, k), lines, about(AgentsOf(lines, k)))
                                      /\ about(AgentsOf(lines, k)) \subseteq heeded
    <2> DEFINE A == AgentsOf(lines, k)
    <2>1. /\ k \in 1..n /\ IsDirective(lines[k]) /\ A # {} /\ m.best > 0
          /\ ScoreOf(lines, A, tokens) = m.best
      BY <1>9, <1>12
    <2>2. A \in C
      BY <1>3, <2>1 DEF Covers
    <2> HIDE DEF A
    <2>3. PICK g \in Range(G) : Says(g, A, lines, about(A))
      BY <1>7, <2>2
    <2>4. sc(g) = m.best
      BY <1>11, <2>1, <2>2, <2>3
    <2>5. g \in Range(M)
      BY <1>5, <1>10, <2>1, <2>4
    <2>6. about(A) \subseteq heeded
      BY <1>13, <2>1, <2>2
    <2> QED
      BY <2>3, <2>5, <2>6 DEF A
  <1> QED
    BY <1>5, <1>14, <1>15 DEF Serve, heeded, about, n, G

\* The group an agent gets has the rules it has to heed.
LEMMA RulesServe ==
    ASSUME NEW lines, IsFile(lines), NEW tokens
    PROVE  /\ GroupFor(ParseRobotsTxt(lines), tokens) \in Groups
           /\ Range(GroupFor(ParseRobotsTxt(lines), tokens).rules)
                 = {RuleOf(lines[k]) : k \in {i \in HeededLines(lines, tokens) : IsRule(lines[i])}}
  <1> DEFINE M == MatchingGroups(ParseRobotsTxt(lines), tokens)
             merged == MergeGroups(M)
             heeded == HeededLines(lines, tokens)
             about(A) == DirectivesOf(lines, Len(lines), A)
  <1>1. M \in Seq(Groups) /\ Serve(Range(M), lines, tokens)
    BY MatchingServe
  <1> HIDE DEF M
  <1>2. merged \in Groups /\ IsMergeOf(merged, Range(M))
    BY <1>1, MergeIs
  <1>3. /\ \A g \in Range(M) : \E A : Says(g, A, lines, about(A)) /\ about(A) \subseteq heeded
        /\ \A k \in heeded : \E g \in Range(M) : Says(g, AgentsOf(lines, k), lines, about(AgentsOf(lines, k)))
    BY <1>1 DEF Serve
  <1>4. Range(merged.rules) = UNION {Range(g.rules) : g \in Range(M)}
    BY <1>2 DEF IsMergeOf
  <1>5. \A g, A : Says(g, A, lines, about(A)) => Range(g.rules) = {RuleOf(lines[k]) : k \in {i \in about(A) : IsRule(lines[i])}}
    BY DEF Says
  <1>6. \A k \in heeded : k \in about(AgentsOf(lines, k))
    BY DEF HeededLines, DirectivesOf, IsFile
  <1> HIDE DEF heeded, about, merged
  <1>7. ASSUME NEW r \in Range(merged.rules)
        PROVE  \E k \in heeded : IsRule(lines[k]) /\ r = RuleOf(lines[k])
    <2>1. PICK g \in Range(M) : r \in Range(g.rules)
      BY <1>4
    <2>2. PICK A : Says(g, A, lines, about(A)) /\ about(A) \subseteq heeded
      BY <1>3
    <2>3. r \in {RuleOf(lines[k]) : k \in {i \in about(A) : IsRule(lines[i])}}
      BY <1>5, <2>1, <2>2
    <2> QED
      BY <2>2, <2>3
  <1>8. ASSUME NEW k \in heeded, IsRule(lines[k])
        PROVE  RuleOf(lines[k]) \in Range(merged.rules)
    <2>1. PICK g \in Range(M) : Says(g, AgentsOf(lines, k), lines, about(AgentsOf(lines, k)))
      BY <1>3
    <2>2. RuleOf(lines[k]) \in Range(g.rules)
      BY <1>5, <1>6, <1>8, <2>1
    <2> QED
      BY <1>4, <2>2
  <1>9. Range(merged.rules) = {RuleOf(lines[k]) : k \in {i \in heeded : IsRule(lines[i])}}
    BY <1>7, <1>8
  <1> QED
    BY <1>2, <1>9 DEF GroupFor, merged, heeded, M

----------------------------------------------------------------------------
(* Verdicts *)

\* What a verdict is, by the rules that match.
Wins(matching) ==
    LET longest == {r \in matching : \A q \in matching : RuleLength(r.value) >= RuleLength(q.value)}
    IN  matching = {} \/ \E r \in longest : r.key = "allow"

LEMMA WinnerIs ==
    ASSUME NEW X, \A l \in X : l.value \in Names,
           NEW fit, fit = {RuleOf(l) : l \in X}, NEW best \in [length : Int, allow : BOOLEAN],
           IF fit = {} THEN best.length = -1 /\ best.allow
           ELSE /\ \E r \in fit : RuleLength(r.pattern) = best.length
                /\ \A r \in fit : RuleLength(r.pattern) <= best.length
                /\ best.allow <=> \E r \in fit : RuleLength(r.pattern) = best.length /\ r.allow
    PROVE  best.allow <=> Wins(X)
  <1>1. CASE fit = {}
    BY <1>1 DEF Wins
  <1>2. CASE fit # {}
    <2>1. \A l \in X : /\ RuleOf(l) \in fit /\ RuleOf(l).pattern = l.value
                       /\ RuleOf(l).allow <=> l.key = "allow"
      BY DEF RuleOf
    <2>2. \A r \in fit : \E l \in X : r = RuleOf(l)
      OBVIOUS
    <2>3. \A l \in X : RuleLength(l.value) \in Nat
      BY LengthIsNat
    <2> HIDE DEF RuleOf
    <2>4. PICK m \in X : RuleLength(m.value) = best.length
      BY <1>2, <2>1, <2>2
    <2>5. \A l \in X : RuleLength(l.value) <= best.length
      BY <1>2, <2>1
    <2>6. best.allow <=> \E l \in X : RuleLength(l.value) = best.length /\ l.key = "allow"
      BY <1>2, <2>1, <2>2
    <2>7. ASSUME NEW l \in X
          PROVE  (\A q \in X : RuleLength(l.value) >= RuleLength(q.value)) <=> RuleLength(l.value) = best.length
      BY <2>3, <2>4, <2>5
    <2>8. Wins(X) <=> \E l \in X : RuleLength(l.value) = best.length /\ l.key = "allow"
      BY <2>4, <2>7 DEF Wins
    <2> QED
      BY <2>6, <2>8
  <1> QED
    BY <1>1, <1>2

\* The verdict of the parser and the matcher is that of the file.
THEOREM VerdictAlwaysRight ==
    ASSUME NEW lines, IsFile(lines), NEW path \in Names, NEW tokens
    PROVE  VerdictRight(lines, path, tokens)
  <1> DEFINE group == GroupFor(ParseRobotsTxt(lines), tokens)
             heeded == HeededLines(lines, tokens)
             matching == {p \in Patterns(group.rules) : PatternMatches(p, path)}
             lengths == [p \in Patterns(group.rules) |-> RuleLength(p)]
             best == BestRule(group.rules, lengths, matching)
             X == {r \in RulesIn(lines, heeded) : r.value # <<>> /\ Fits(r.value, path)}
             fit == {r \in Range(group.rules) : r.pattern \in matching}
  <1>1. group \in Groups /\ Range(group.rules) = {RuleOf(lines[k]) : k \in {i \in heeded : IsRule(lines[i])}}
    BY RulesServe
  <1>2. \A k \in heeded : lines[k].key \in {"allow", "disallow"} => lines[k].value \in Names
    BY DEF HeededLines, IsFile, IsLine
  <1> HIDE DEF heeded, group
  <1>3. \A l \in X : l.value \in Names
    BY <1>2 DEF RulesIn
  <1>4. \A r \in Range(group.rules) : r.pattern \in Patterns(group.rules)
    BY DEF Patterns
  <1>5. fit = {RuleOf(l) : l \in X}
    <2>1. ASSUME NEW k \in heeded, lines[k].key \in {"allow", "disallow"}
          PROVE  RuleOf(lines[k]).pattern = lines[k].value
                 /\ (PatternMatches(lines[k].value, path) <=> lines[k].value # <<>> /\ Fits(lines[k].value, path))
      BY <1>2, <2>1, MatchesIffFits DEF RuleOf
    <2>2. ASSUME NEW r \in fit
          PROVE  \E l \in X : r = RuleOf(l)
      <3>1. PICK k \in heeded : IsRule(lines[k]) /\ r = RuleOf(lines[k])
        BY <1>1
      <3>2. r.pattern = lines[k].value /\ PatternMatches(lines[k].value, path) /\ lines[k].key \in {"allow", "disallow"}
        BY <2>1, <3>1 DEF IsRule
      <3>3. lines[k] \in RulesIn(lines, heeded)
        BY <3>2 DEF RulesIn
      <3>4. lines[k] \in X
        BY <2>1, <3>2, <3>3
      <3> QED
        BY <3>1, <3>4
    <2>3. ASSUME NEW l \in X
          PROVE  RuleOf(l) \in fit
      <3>1. PICK k \in heeded : lines[k].key \in {"allow", "disallow"} /\ l = lines[k]
        BY DEF RulesIn
      <3>2. IsRule(lines[k]) /\ PatternMatches(lines[k].value, path) /\ RuleOf(l).pattern = lines[k].value
        BY <2>1, <3>1 DEF IsRule
      <3>3. RuleOf(l) \in Range(group.rules)
        BY <1>1, <3>1, <3>2
      <3> QED
        BY <1>4, <3>2, <3>3
    <2> QED
      BY <2>2, <2>3
  <1>6. group.rules \in Seq(Rules)
    BY <1>1 DEF Groups
  <1>13. \A r \in Range(group.rules) : lengths[r.pattern] = RuleLength(r.pattern) /\ RuleLength(r.pattern) \in Nat
    <2>1. \A r \in Range(group.rules) : r.pattern \in Names
      <3>1. \A r \in Range(group.rules) : r \in Rules
        BY <1>6 DEF Range
      <3> QED
        BY <3>1 DEF Rules
    <2> QED
      BY <1>4, <2>1, LengthIsNat
  <1> HIDE DEF lengths
  <1>7. best \in [length : Int, allow : BOOLEAN] /\ IsVerdictOf(best, Range(group.rules), lengths, matching)
    <2>1. Measured(group.rules, lengths)
      BY <1>13 DEF Measured
    <2> QED
      BY <1>6, <2>1, BestIs
  <1>8. IF fit = {} THEN best.length = -1 /\ best.allow
        ELSE /\ \E r \in fit : RuleLength(r.pattern) = best.length
             /\ \A r \in fit : RuleLength(r.pattern) <= best.length
             /\ best.allow <=> \E r \in fit : RuleLength(r.pattern) = best.length /\ r.allow
    <2>1. \A r \in fit : lengths[r.pattern] = RuleLength(r.pattern)
      BY <1>13
    <2> QED
      BY <1>7, <2>1 DEF IsVerdictOf
  <1> HIDE DEF fit, X, best, matching
  <1>9. best.allow <=> Wins(X)
    BY <1>3, <1>5, <1>7, <1>8, WinnerIs
  <1>10. best.allow \in BOOLEAN
    BY <1>7
  <1>11. CanFetch(ParseRobotsTxt(lines), path, tokens) = best.allow
    BY DEF CanFetch, best, lengths, matching, group
  <1>12. Wins(X) = Verdict(RulesIn(lines, heeded), LAMBDA pattern : Fits(pattern, path))
    BY DEF Wins, X, Verdict
  <1> QED
    BY <1>9, <1>10, <1>11, <1>12 DEF VerdictRight, heeded, Wins

----------------------------------------------------------------------------
(* Delays *)

\* The delays an agent has to heed, those of them that count, and those of one group.
Waits(lines, tokens) == {i \in HeededLines(lines, tokens) : DelayParses(lines[i])}
LastWaits(lines, tokens) == {i \in Waits(lines, tokens) : LastOfKey(lines, Waits(lines, tokens), i)}
WaitsOf(lines, A, key) ==
    {l \in DirectivesOf(lines, Len(lines), A) : DelayParses(lines[l]) /\ lines[l].key = key}

LEMMA LatestIsLast ==
    ASSUME NEW lines, IsFile(lines), NEW tokens, NEW A,
           DirectivesOf(lines, Len(lines), A) \subseteq HeededLines(lines, tokens), NEW key, NEW k
    PROVE  IsLatest(k, WaitsOf(lines, A, key))
              <=> k \in LastWaits(lines, tokens) /\ AgentsOf(lines, k) = A /\ lines[k].key = key
  <1>1. \A l \in HeededLines(lines, tokens) : l \in 1..Len(lines) /\ IsDirective(lines[l])
    BY DEF HeededLines, IsFile
  <1>2. \A l : l \in WaitsOf(lines, A, key)
                 <=> l \in Waits(lines, tokens) /\ AgentsOf(lines, l) = A /\ lines[l].key = key
    BY <1>1 DEF WaitsOf, Waits, DirectivesOf
  <1>3. \A l \in Waits(lines, tokens) : l \in Int
    BY <1>1 DEF Waits
  <1>4. ASSUME IsLatest(k, WaitsOf(lines, A, key))
        PROVE  k \in LastWaits(lines, tokens)
    BY <1>2, <1>3, <1>4 DEF IsLatest, LastWaits, LastOfKey
  <1>5. ASSUME k \in LastWaits(lines, tokens), AgentsOf(lines, k) = A, lines[k].key = key
        PROVE  IsLatest(k, WaitsOf(lines, A, key))
    <2>1. k \in WaitsOf(lines, A, key)
      BY <1>2, <1>5 DEF LastWaits
    <2>2. \A l \in WaitsOf(lines, A, key) : l <= k
      BY <1>2, <1>3, <1>5, <2>1 DEF LastWaits, LastOfKey
    <2> QED
      BY <2>1, <2>2 DEF IsLatest
  <1> QED
    BY <1>2, <1>4, <1>5 DEF IsLatest

LEMMA WaitsAre ==
    ASSUME NEW g, NEW A, NEW lines, Says(g, A, lines, DirectivesOf(lines, Len(lines), A))
    PROVE  LET delays == WaitsOf(lines, A, "crawl-delay")
               rates == WaitsOf(lines, A, "request-rate")
           IN  /\ IF delays = {} THEN g.delay = 0
                  ELSE \E k \in delays : IsLatest(k, delays) /\ g.delay = lines[k].value
               /\ IF rates = {} THEN g.rate = NoRate
                  ELSE \E k \in rates : IsLatest(k, rates) /\ g.rate = lines[k].value
  <1> DEFINE D == DirectivesOf(lines, Len(lines), A)
  <1>1. {k \in D : GivesDelay(lines[k])} = WaitsOf(lines, A, "crawl-delay")
    BY DEF GivesDelay, WaitsOf, DelayParses
  <1>2. {k \in D : GivesRate(lines[k])} = WaitsOf(lines, A, "request-rate")
    BY DEF GivesRate, WaitsOf, DelayParses
  <1> QED
    BY <1>1, <1>2 DEF Says

\* The delay and the rate of the group an agent gets are those it has to heed.
WaitsRight(g, lines, is) ==
    /\ \A i \in is : /\ lines[i].key = "crawl-delay" => g.delay >= lines[i].value
                     /\ lines[i].key = "request-rate" =>
                            g.rate # NoRate /\ RateDelay(g.rate) >= RateDelay(lines[i].value)
    /\ g.delay = 0 \/ \E i \in is : lines[i].key = "crawl-delay" /\ g.delay = lines[i].value
    /\ g.rate = NoRate \/ \E i \in is : lines[i].key = "request-rate" /\ g.rate = lines[i].value

LEMMA WaitsServe ==
    ASSUME NEW lines, IsFile(lines), NEW tokens
    PROVE  WaitsRight(GroupFor(ParseRobotsTxt(lines), tokens), lines, LastWaits(lines, tokens))
  <1> DEFINE M == MatchingGroups(ParseRobotsTxt(lines), tokens)
             g == MergeGroups(M)
             heeded == HeededLines(lines, tokens)
             about(A) == DirectivesOf(lines, Len(lines), A)
             is == LastWaits(lines, tokens)
  <1>1. M \in Seq(Groups) /\ Serve(Range(M), lines, tokens)
    BY MatchingServe
  <1> HIDE DEF M
  <1>2. g \in Groups /\ IsMergeOf(g, Range(M))
    BY <1>1, MergeIs
  <1>3. /\ \A h \in Range(M) : \E A : Says(h, A, lines, about(A)) /\ about(A) \subseteq heeded
        /\ \A k \in heeded : \E h \in Range(M) : Says(h, AgentsOf(lines, k), lines, about(AgentsOf(lines, k)))
                                                  /\ about(AgentsOf(lines, k)) \subseteq heeded
    BY <1>1 DEF Serve
  <1>4. /\ g.delay \in {0} \cup {h.delay : h \in Range(M)} /\ \A h \in Range(M) : g.delay >= h.delay
        /\ g.rate \in {NoRate} \cup {h.rate : h \in Range(M)}
        /\ \A h \in Range(M) : h.rate # NoRate => g.rate # NoRate /\ RateDelay(g.rate) >= RateDelay(h.rate)
    BY <1>2 DEF IsMergeOf
  <1> HIDE DEF g
  <1>5. ASSUME NEW h \in Range(M), NEW A, Says(h, A, lines, about(A)), about(A) \subseteq heeded
        PROVE  /\ h.delay = 0 \/ \E i \in is : lines[i].key = "crawl-delay" /\ h.delay = lines[i].value
               /\ h.rate = NoRate \/ \E i \in is : lines[i].key = "request-rate" /\ h.rate = lines[i].value
    <2>1. DirectivesOf(lines, Len(lines), A) \subseteq HeededLines(lines, tokens)
      BY <1>5
    <2>2. \A key, k : IsLatest(k, WaitsOf(lines, A, key)) => k \in is /\ lines[k].key = key
      BY <2>1, LatestIsLast
    <2> HIDE DEF is
    <2> QED
      BY <1>5, <2>2, WaitsAre
  <1>6. ASSUME NEW i \in is
        PROVE  /\ lines[i].key = "crawl-delay" => g.delay >= lines[i].value
               /\ lines[i].key = "request-rate" =>
                     g.rate # NoRate /\ RateDelay(g.rate) >= RateDelay(lines[i].value)
    <2> DEFINE A == AgentsOf(lines, i)
    <2>1. i \in heeded /\ DelayParses(lines[i])
      BY DEF LastWaits, Waits
    <2>2. PICK h \in Range(M) : Says(h, A, lines, about(A)) /\ about(A) \subseteq heeded
      BY <1>3, <2>1
    <2>3. IsLatest(i, WaitsOf(lines, A, lines[i].key))
      BY <2>2, LatestIsLast
    <2> HIDE DEF is, A
    <2>4. \A k, X : IsLatest(i, X) /\ IsLatest(k, X) /\ i \in Int /\ k \in Int => i = k
      BY DEF IsLatest
    <2>5. \A k \in WaitsOf(lines, A, lines[i].key) : k \in Int
      BY DEF WaitsOf, DirectivesOf
    <2>6. i \in WaitsOf(lines, A, lines[i].key)
      BY <2>3 DEF IsLatest
    <2>7. CASE lines[i].key = "crawl-delay"
      <3>1. h.delay = lines[i].value
        BY <2>2, <2>3, <2>4, <2>5, <2>6, <2>7, WaitsAre
      <3> QED
        BY <1>4, <2>7, <3>1
    <2>8. CASE lines[i].key = "request-rate"
      <3>1. h.rate = lines[i].value
        BY <2>2, <2>3, <2>4, <2>5, <2>6, <2>8, WaitsAre
      <3>2. lines[i].value.requests > 0
        BY <2>1, <2>8 DEF DelayParses
      <3>3. h.rate # NoRate
        BY <3>1, <3>2 DEF NoRate
      <3> QED
        BY <1>4, <2>8, <3>1, <3>3
    <2> QED
      BY <2>7, <2>8
  <1>7. g.delay = 0 \/ \E i \in is : lines[i].key = "crawl-delay" /\ g.delay = lines[i].value
    <2> HIDE DEF is, about, heeded
    <2> QED
      BY <1>3, <1>4, <1>5
  <1>8. g.rate = NoRate \/ \E i \in is : lines[i].key = "request-rate" /\ g.rate = lines[i].value
    <2> HIDE DEF is, about, heeded
    <2> QED
      BY <1>3, <1>4, <1>5
  <1> HIDE DEF is
  <1>9. WaitsRight(g, lines, is)
    BY <1>6, <1>7, <1>8 DEF WaitsRight
  <1> QED
    BY <1>9 DEF g, M, is, GroupFor

\* A crawl waits as long as the slowest of the delays it has to heed.
THEOREM DelayAlwaysRight ==
    ASSUME NEW lines, IsFile(lines), NEW configured \in Nat, NEW tokens
    PROVE  DelayRight(lines, configured, tokens)
  <1> DEFINE g == GroupFor(ParseRobotsTxt(lines), tokens)
             is == LastWaits(lines, tokens)
             delays == {lines[i].value : i \in {j \in is : lines[j].key = "crawl-delay"}}
             rates == {RateDelay(lines[i].value) : i \in {j \in is : lines[j].key = "request-rate"}}
             all == delays \cup rates \cup {configured}
             most == EffectiveDelay(configured, g)
  <1>1. g \in Groups
    BY RulesServe
  <1>2. WaitsRight(g, lines, is)
    BY WaitsServe
  <1>3. g.delay \in Nat /\ g.rate \in Rates
    BY <1>1 DEF Groups
  <1>4. \A i \in is : /\ lines[i].key = "crawl-delay" => lines[i].value \in Nat
                      /\ lines[i].key = "request-rate" => RateDelay(lines[i].value) \in Nat
    <2> SUFFICES ASSUME NEW i \in is
                 PROVE  /\ lines[i].key = "crawl-delay" => lines[i].value \in Nat
                        /\ lines[i].key = "request-rate" => RateDelay(lines[i].value) \in Nat
      OBVIOUS
    <2>1. IsLine(lines[i]) /\ DelayParses(lines[i])
      BY DEF LastWaits, Waits, HeededLines, IsFile
    <2>2. ASSUME lines[i].key = "request-rate"
          PROVE  RateDelay(lines[i].value) \in Nat
      <3>1. lines[i].value.requests \in Nat \ {0} /\ lines[i].value.period \in Nat
        BY <2>1, <2>2 DEF IsLine, DelayParses
      <3>2. \A a \in Nat, b \in Nat \ {0} : a \div b \in Nat
        OBVIOUS
      <3> QED
        BY <3>1, <3>2 DEF RateDelay
    <2>3. ASSUME lines[i].key = "crawl-delay"
          PROVE  lines[i].value \in Nat
      BY <2>1, <2>3 DEF IsLine, DelayParses
    <2> QED
      BY <2>2, <2>3
  <1> HIDE DEF g, is
  <1>5. /\ \A d \in delays : g.delay >= d /\ d \in Nat
        /\ g.delay = 0 \/ g.delay \in delays
    BY <1>2, <1>4 DEF WaitsRight
  <1>6. /\ \A x \in rates : x \in Nat /\ g.rate # NoRate /\ RateDelay(g.rate) >= x
        /\ g.rate = NoRate \/ RateDelay(g.rate) \in rates
    BY <1>2, <1>4 DEF WaitsRight
  <1>7. /\ g.rate = NoRate => ~(g.rate.requests > 0)
        /\ g.rate # NoRate => g.rate.requests > 0 /\ RateDelay(g.rate) \in Nat
    BY <1>3, DelayIsInt DEF NoRate
  <1>8. all \in SUBSET Int
    BY <1>5, <1>6
  <1> HIDE DEF delays, rates
  <1>9. IsBest(most, all)
    <2>1. CASE g.rate = NoRate
      <3>1. most = Longer(configured, g.delay)
        BY <1>7, <2>1 DEF EffectiveDelay
      <3>2. most \in all /\ most >= configured /\ most >= g.delay
        BY <1>3, <1>5, <3>1 DEF Longer
      <3>3. rates = {}
        BY <1>6, <2>1
      <3> HIDE DEF most
      <3> QED
        BY <1>3, <1>5, <1>8, <3>2, <3>3 DEF IsBest
    <2>2. CASE g.rate # NoRate
      <3>1. most = Longer(RateDelay(g.rate), Longer(configured, g.delay))
        BY <1>7, <2>2 DEF EffectiveDelay
      <3>2. most \in all /\ most >= configured /\ most >= g.delay /\ most >= RateDelay(g.rate)
        BY <1>3, <1>5, <1>6, <1>7, <2>2, <3>1 DEF Longer
      <3> HIDE DEF most
      <3> QED
        BY <1>3, <1>5, <1>6, <1>7, <1>8, <2>2, <3>2 DEF IsBest
    <2> QED
      BY <2>1, <2>2
  <1> HIDE DEF all, most
  <1>10. BestScore(all) = most
    BY <1>8, <1>9, BestScoreIs
  <1> QED
    BY <1>10 DEF DelayRight, all, most, delays, rates, is, g, LastWaits, Waits

----------------------------------------------------------------------------
(* The other reader *)

Readers == [active : BOOLEAN, rules : Seq(Rules)]

\* What one line does to the other reader.
LEMMA SafetyLineReads ==
    ASSUME NEW p \in Readers, NEW line, IsLine(line)
    PROVE  /\ SafetyReadLine(p, line) \in Readers
           /\ SafetyReadLine(p, line).active <=>
                  IF IsAgent(line) THEN line.value \in {Star, Product}
                  ELSE line.key # "blank" /\ p.active
           /\ SafetyReadLine(p, line).rules =
                  IF p.active /\ IsRule(line) THEN Append(p.rules, RuleOf(line)) ELSE p.rules
  <1> DEFINE q == SafetyReadLine(p, line)
  <1>1. p.active \in BOOLEAN /\ p.rules \in Seq(Rules)
    BY DEF Readers
  <1>2. CASE line.key = "blank"
    <2>1. q = [p EXCEPT !.active = FALSE]
      BY <1>2 DEF SafetyReadLine
    <2>2. q \in Readers /\ q.active = FALSE /\ q.rules = p.rules
      BY <2>1 DEF Readers
    <2> QED
      BY <1>2, <2>2 DEF IsAgent, IsRule
  <1>3. CASE line.key = "user-agent"
    <2>1. q = [p EXCEPT !.active = line.value \in {Star, Product}]
      BY <1>3 DEF SafetyReadLine
    <2> DEFINE b == line.value \in {Star, Product}
    <2>2. b \in BOOLEAN
      OBVIOUS
    <2> HIDE DEF b
    <2>3. q = [p EXCEPT !.active = b]
      BY <2>1 DEF b
    <2>4. q \in Readers /\ q.active = b /\ q.rules = p.rules
      BY <2>2, <2>3 DEF Readers
    <2> QED
      BY <1>3, <2>4 DEF IsAgent, IsRule, b
  <1>4. CASE line.key \in {"allow", "disallow"} /\ p.active /\ line.value # <<>>
    <2>1. q = [p EXCEPT !.rules = Append(@, [pattern |-> line.value, allow |-> line.key = "allow"])]
      BY <1>4 DEF SafetyReadLine
    <2>2. q = [p EXCEPT !.rules = Append(p.rules, RuleOf(line))]
      BY <2>1 DEF RuleOf
    <2>3. RuleOf(line) \in Rules
      BY <1>4 DEF IsLine, RuleOf, Rules
    <2>4. Append(p.rules, RuleOf(line)) \in Seq(Rules)
      BY <1>1, <2>3
    <2>5. q \in Readers /\ q.active = p.active /\ q.rules = Append(p.rules, RuleOf(line))
      BY <2>2, <2>4 DEF Readers
    <2>6. ~IsAgent(line) /\ line.key # "blank" /\ IsRule(line)
      BY <1>4 DEF IsAgent, IsRule
    <2> QED
      BY <1>1, <1>4, <2>5, <2>6
  <1>5. CASE /\ line.key # "blank" /\ line.key # "user-agent"
             /\ ~(line.key \in {"allow", "disallow"} /\ p.active /\ line.value # <<>>)
    <2>1. q = p
      BY <1>5 DEF SafetyReadLine
    <2> QED
      BY <1>1, <1>5, <2>1 DEF IsAgent, IsRule
  <1> QED
    BY <1>2, <1>3, <1>4, <1>5

\* How the lines of a file are read one after another by the other reader.
LEMMA SafetySteps ==
    ASSUME NEW L, \A l \in L : IsLine(l), NEW lines \in Seq(L)
    PROVE  \E F \in [0..Len(lines) -> Readers] :
              /\ F[0] = [active |-> FALSE, rules |-> <<>>]
              /\ \A i \in 1..Len(lines) : F[i] = SafetyReadLine(F[i - 1], lines[i])
              /\ ParseRobotsRules(lines) = F[Len(lines)].rules
  <1> DEFINE n == Len(lines)
             S == Readers
             step == [k \in 1..n |-> [p \in S |-> SafetyReadLine(p, lines[k])]]
             Value(f, s) == IF s = {} THEN [active |-> FALSE, rules |-> <<>>] ELSE SafetyReadLine(f[s \ {Max(s)}], lines[Max(s)])
             Is(f) == f = [s \in SUBSET DOMAIN lines |-> Value(f, s)]
             f == CHOOSE g : Is(g)
  <1>1. n \in Nat /\ DOMAIN lines = 1..n
    OBVIOUS
  <1>2. [active |-> FALSE, rules |-> <<>>] \in S
    BY DEF Readers
  <1>3. \A p \in S, k \in 1..n : SafetyReadLine(p, lines[k]) \in S
    <2> SUFFICES ASSUME NEW p \in S, NEW k \in 1..n
                 PROVE  SafetyReadLine(p, lines[k]) \in S
      OBVIOUS
    <2>1. IsLine(lines[k])
      OBVIOUS
    <2> QED
      BY <2>1, SafetyLineReads
  <1>4. step \in [1..n -> [S -> S]]
    <2> HIDE DEF S, n
    <2> QED
      BY <1>3
  <1>5. ParseRobotsRules(lines) = f[DOMAIN lines].rules
    BY DEF ParseRobotsRules, FoldLeft, MapThenFoldSet
  <1>6. PICK g : g \in FoldsOf(S, n, step, [active |-> FALSE, rules |-> <<>>])
    <2> DEFINE b == [active |-> FALSE, rules |-> <<>>]
    <2>1. b \in S /\ FoldsOf(S, n, step, b) = FoldsOf(S, n, step, [active |-> FALSE, rules |-> <<>>])
      BY <1>2
    <2> HIDE DEF b
    <2> HIDE DEF S, n, step
    <2> QED
      BY <1>1, <1>2, <1>4, <2>1, FoldExists
  <1>7. Is(g)
    <2>1. g \in [SUBSET (1..n) -> S]
      <3> HIDE DEF S, n, step
      <3> QED
        BY <1>6 DEF FoldsOf
    <2>2. ASSUME NEW s \in SUBSET (1..n)
          PROVE  g[s] = Value(g, s)
      <3>1. CASE s = {}
        <4>1. g[s] = [active |-> FALSE, rules |-> <<>>]
          <5> HIDE DEF S, n, step
          <5> QED
            BY <1>6, <3>1 DEF FoldsOf
        <4> QED
          BY <3>1, <4>1
      <3>2. CASE s # {}
        <4>1. Max(s) \in 1..n /\ s \ {Max(s)} \in SUBSET (1..n)
          <5> HIDE DEF n
          <5> QED
            BY <1>1, <3>2, MaxIn
        <4> HIDE DEF n, S
        <4>2. g[s] = step[Max(s)][g[s \ {Max(s)}]]
          <5> HIDE DEF step
          <5> QED
            BY <1>6, <3>2 DEF FoldsOf
        <4>3. g[s \ {Max(s)}] \in S
          BY <2>1, <4>1
        <4> QED
          BY <3>2, <4>1, <4>2, <4>3
      <3> QED
        BY <3>1, <3>2
    <2> HIDE DEF Value, n, S, step
    <2> QED
      BY <1>1, <2>1, <2>2
  <1>8. Is(f)
    <2> HIDE DEF Is
    <2> QED
      BY <1>7
  <1> HIDE DEF f
  <1>9. f[{}] = [active |-> FALSE, rules |-> <<>>]
    BY <1>8
  <1>10. ASSUME NEW s \in SUBSET (1..n), s # {}, f[s \ {Max(s)}] \in S
         PROVE  f[s] = step[Max(s)][f[s \ {Max(s)}]]
    <2> HIDE DEF n, S
    <2>1. Max(s) \in 1..n
      BY <1>1, <1>10, MaxIn
    <2>2. f[s] = SafetyReadLine(f[s \ {Max(s)}], lines[Max(s)])
      BY <1>1, <1>8, <1>10
    <2> QED
      BY <1>10, <2>1, <2>2
  <1> HIDE DEF S, n, step, Is, Value
  <1>11. \A s \in SUBSET (1..n) : s # {} /\ f[s \ {Max(s)}] \in S => f[s] = step[Max(s)][f[s \ {Max(s)}]]
    BY <1>10
  <1>12. Folds(f, S, n, step, [active |-> FALSE, rules |-> <<>>])
    BY <1>1, <1>2, <1>4, <1>9, <1>11 DEF Folds
  <1>13. GoesStepByStep(f, S, n, step, [active |-> FALSE, rules |-> <<>>])
    BY <1>12, FoldIsRecursion
  <1>14. PICK F \in RecursionsOf(S, n, step, [active |-> FALSE, rules |-> <<>>]) : F[n] = f[1..n]
    BY <1>13 DEF GoesStepByStep
  <1>15. /\ F \in [0..n -> S] /\ F[0] = [active |-> FALSE, rules |-> <<>>]
         /\ \A i \in 1..n : F[i] = step[i][F[i - 1]]
    BY <1>14 DEF RecursionsOf
  <1>16. ASSUME NEW i \in 1..n
         PROVE  F[i] = SafetyReadLine(F[i - 1], lines[i])
    <2>1. F[i] = step[i][F[i - 1]] /\ F[i - 1] \in S
      BY <1>1, <1>15
    <2> QED
      BY <2>1 DEF step
  <1>17. ParseRobotsRules(lines) = F[n].rules
    BY <1>1, <1>5, <1>14
  <1> QED
    BY <1>15, <1>16, <1>17 DEF n, S

\* The other reader's rules after i lines of a plain file are those about some agent.
ReadPlain(p, lines, i) ==
    /\ p.active <=> Open(lines, i) # {}
    /\ Range(p.rules) = {RuleOf(lines[k]) : k \in {l \in 1..i : IsRule(lines[l]) /\ AgentsOf(lines, l) # {}}}

LEMMA ReadPlainOneMore ==
    ASSUME NEW lines, IsFile(lines), NEW i \in 0..(Len(lines) - 1), NEW p \in Readers, ReadPlain(p, lines, i),
           IsAgent(lines[i + 1]) => lines[i + 1].value \in {Star, Product}
    PROVE  ReadPlain(SafetyReadLine(p, lines[i + 1]), lines, i + 1)
  <1> DEFINE line == lines[i + 1]
             q == SafetyReadLine(p, line)
             Ks(j) == {l \in 1..j : IsRule(lines[l]) /\ AgentsOf(lines, l) # {}}
  <1>1. Len(lines) \in Nat /\ i \in Nat /\ i + 1 \in 1..Len(lines) /\ IsLine(line)
    BY DEF IsFile
  <1>2. /\ q \in Readers
        /\ q.active <=> IF IsAgent(line) THEN line.value \in {Star, Product} ELSE line.key # "blank" /\ p.active
        /\ q.rules = IF p.active /\ IsRule(line) THEN Append(p.rules, RuleOf(line)) ELSE p.rules
    BY <1>1, SafetyLineReads
  <1>3. q.active <=> Open(lines, i + 1) # {}
    <2>1. CASE IsAgent(line)
      <3>1. Open(lines, i + 1) # {}
        BY <1>1, <2>1, OpenAgent, ZenonT(40)
      <3> QED
        BY <1>2, <2>1, <3>1
    <2>2. CASE line.key = "blank"
      <3>1. Open(lines, i + 1) = {} /\ ~IsAgent(line)
        BY <1>1, <2>2, OpenNext, KeysApart
      <3> QED
        BY <1>2, <2>2, <3>1
    <2>3. CASE ~IsAgent(line) /\ line.key # "blank"
      <3>1. Open(lines, i + 1) = Open(lines, i)
        BY <1>1, <2>3, OpenNext
      <3> QED
        BY <1>2, <2>3, <3>1 DEF ReadPlain
    <2> QED
      BY <2>1, <2>2, <2>3
  <1>4. IsRule(line) => AgentsOf(lines, i + 1) = Open(lines, i)
    BY <1>1, OpenBefore DEF IsRule, IsDirective, Directives
  <1>5. 1..(i + 1) = (1..i) \cup {i + 1}
    BY <1>1
  <1>6. Range(p.rules) = {RuleOf(lines[k]) : k \in Ks(i)} /\ (p.active <=> Open(lines, i) # {})
    BY DEF ReadPlain
  <1>7. Range(q.rules) = {RuleOf(lines[k]) : k \in Ks(i + 1)}
    <2>1. CASE p.active /\ IsRule(line)
      <3>1. Ks(i + 1) = Ks(i) \cup {i + 1}
        BY <1>4, <1>5, <1>6, <2>1
      <3>2. p.rules \in Seq(Rules)
        BY DEF Readers
      <3>3. Range(q.rules) = Range(p.rules) \cup {RuleOf(line)}
        <4>1. RuleOf(line) \in Rules
          BY <1>1, <2>1 DEF IsLine, IsRule, RuleOf, Rules
        <4> HIDE DEF line
        <4> QED
          BY <1>2, <2>1, <3>2, <4>1, RangeOfAppend
      <3> HIDE DEF Ks
      <3> QED
        BY <1>6, <3>1, <3>3
    <2>2. CASE ~(p.active /\ IsRule(line))
      <3>1. Ks(i + 1) = Ks(i)
        BY <1>4, <1>5, <1>6, <2>2
      <3> HIDE DEF Ks
      <3> QED
        BY <1>2, <1>6, <2>2, <3>1
    <2> QED
      BY <2>1, <2>2
  <1> QED
    BY <1>3, <1>7 DEF ReadPlain

LEMMA PlainRulesAre ==
    ASSUME NEW lines, IsFile(lines), \A j \in DOMAIN lines : IsAgent(lines[j]) => lines[j].value \in {Star, Product}
    PROVE  /\ ParseRobotsRules(lines) \in Seq(Rules)
           /\ Range(ParseRobotsRules(lines)) =
                  {RuleOf(lines[k]) : k \in {l \in DOMAIN lines : IsRule(lines[l]) /\ AgentsOf(lines, l) # {}}}
  <1> DEFINE n == Len(lines)
             L == Range(lines)
  <1>1. lines \in Seq(L) /\ \A l \in L : IsLine(l)
    BY DEF IsFile, Range
  <1>2. n \in Nat /\ DOMAIN lines = 1..n
    BY <1>1
  <1> HIDE DEF L
  <1>3. PICK F \in [0..n -> Readers] :
              /\ F[0] = [active |-> FALSE, rules |-> <<>>]
              /\ \A i \in 1..n : F[i] = SafetyReadLine(F[i - 1], lines[i])
              /\ ParseRobotsRules(lines) = F[n].rules
    BY <1>1, SafetySteps
  <1> HIDE DEF n
  <1> DEFINE T == {i \in 0..n : ReadPlain(F[i], lines, i)}
  <1>4. 0 \in T
    <2>1. Open(lines, 0) = {} /\ 0 \in 0..n /\ 1..0 = {}
      BY <1>2 DEF Open
    <2>2. F[0].active = FALSE /\ F[0].rules = <<>>
      BY <1>3
    <2>3. Range(F[0].rules) = {}
      BY <2>2 DEF Range
    <2>4. ReadPlain(F[0], lines, 0)
      BY <2>1, <2>2, <2>3 DEF ReadPlain
    <2> QED
      BY <2>1, <2>4
  <1>5. ASSUME NEW i \in 0..(n - 1), i \in T
        PROVE  i + 1 \in T
    <2>1. i \in 0..n /\ i + 1 \in 1..n /\ i + 1 \in 0..n /\ i + 1 - 1 = i
      BY <1>2
    <2>2. F[i] \in Readers /\ F[i + 1] = SafetyReadLine(F[i], lines[i + 1]) /\ ReadPlain(F[i], lines, i)
      BY <1>3, <1>5, <2>1
    <2>3. IsAgent(lines[i + 1]) => lines[i + 1].value \in {Star, Product}
      BY <1>2, <2>1
    <2>4. ReadPlain(F[i + 1], lines, i + 1)
      BY <2>2, <2>3, ReadPlainOneMore DEF n
    <2> QED
      BY <2>1, <2>4
  <1>6. ReadPlain(F[n], lines, n)
    <2>1. n \in 0..n
      BY <1>2
    <2> HIDE DEF T
    <2>2. n \in T
      BY <1>2, <1>4, <1>5, <2>1, UpTo
    <2> QED
      BY <2>2 DEF T
  <1>7. F[n] \in Readers
    BY <1>2, <1>3
  <1> QED
    BY <1>2, <1>3, <1>6, <1>7 DEF ReadPlain, Readers

----------------------------------------------------------------------------
(* Two readers of one file *)

\* A file all whose agent lines name the same agent is heeded where it is about that agent.
LEMMA PlainHeeded ==
    ASSUME NEW lines, IsFile(lines),
           \A i, j \in DOMAIN lines : IsAgent(lines[i]) /\ IsAgent(lines[j]) =>
                lines[i].value = lines[j].value /\ lines[i].value \in {Star, Product}
    PROVE  HeededLines(lines, <<Product>>)
              = {i \in DOMAIN lines : IsDirective(lines[i]) /\ AgentsOf(lines, i) # {}}
  <1> DEFINE tokens == <<Product>>
             top == ScoreOf(lines, HasAgents(lines), tokens)
  <1>1. \A i \in DOMAIN lines : AgentsOf(lines, i) \subseteq HasAgents(lines)
    BY DEF AgentsOf, HasAgents, IsFile
  <1>2. CASE HasAgents(lines) = {}
    BY <1>1, <1>2 DEF HeededLines
  <1>3. CASE HasAgents(lines) # {}
    <2>1. PICK a \in HasAgents(lines) : TRUE
      BY <1>3
    <2> DEFINE v == lines[a].value
               s == AgentMatchScore(v, tokens)
    <2>2. a \in DOMAIN lines /\ IsAgent(lines[a])
      BY <2>1 DEF HasAgents
    <2>3. v \in Names /\ v \in {Star, Product}
      BY <2>2 DEF IsFile, IsLine, IsAgent
    <2>4. \A j \in HasAgents(lines) : lines[j].value = v
      BY <2>2 DEF HasAgents
    <2>5. s \in Int /\ s > 0
      <3>1. s \in Int
        BY <2>3, ScoreIsInt
      <3>2. CASE v = Star
        <4>1. v # <<>>
          BY <3>2 DEF Star
        <4> QED
          BY <3>2, <4>1 DEF AgentMatchScore
      <3>3. CASE v = Product
        <4>1. Len(v) = 2 /\ Len(Star) = 1
          BY <3>3 DEF Star, Product
        <4>2. v # <<>> /\ v # Star
          BY <4>1
        <4>3. IsPrefix(v, tokens[1]) /\ 1 \in DOMAIN tokens
          BY <3>3 DEF IsPrefix
        <4> QED
          BY <4>1, <4>2, <4>3 DEF AgentMatchScore
      <3> QED
        BY <2>3, <3>1, <3>2, <3>3
    <2> HIDE DEF v, s, tokens
    <2>6. \A A : A # {} /\ A \subseteq HasAgents(lines) => ScoreOf(lines, A, tokens) = s
      <3> SUFFICES ASSUME NEW A, A # {}, A \subseteq HasAgents(lines)
                   PROVE  ScoreOf(lines, A, tokens) = s
        OBVIOUS
      <3> DEFINE scores == {AgentMatchScore(lines[j].value, tokens) : j \in A}
      <3>1. scores = {s}
        BY <2>4 DEF s
      <3>2. IsBest(s, scores) /\ scores \in SUBSET Int
        BY <2>5, <3>1 DEF IsBest
      <3> HIDE DEF scores
      <3>3. BestScore(scores) = s
        BY <3>2, BestScoreIs
      <3> QED
        BY <3>3 DEF ScoreOf, scores
    <2>7. top = s
      BY <1>3, <2>6
    <2> HIDE DEF top
    <2> QED
      BY <1>1, <2>5, <2>6, <2>7 DEF HeededLines, tokens, top
  <1> QED
    BY <1>2, <1>3

\* A plain pattern matches the paths it is a prefix of.
LEMMA PlainFits ==
    ASSUME NEW pattern \in Names, NEW path \in Names, pattern # <<>>,
           ~\E k \in DOMAIN pattern : pattern[k] \in {"*", "$"}
    PROVE  PatternMatches(pattern, path) <=> IsPrefix(pattern, path)
  <1> DEFINE n == Len(pattern)
             m == Len(path)
  <1>1. /\ n \in Nat /\ m \in Nat /\ n # 0 /\ DOMAIN pattern = 1..n /\ DOMAIN path = 1..m
        /\ \A k \in 1..n : pattern[k] # "*" /\ pattern[k] # "$"
    BY DEF Names
  <1>2. ~EndAnchored(pattern) /\ Unanchored(pattern) = pattern
    BY <1>1 DEF EndAnchored, Unanchored, Last
  <1>3. Fits(pattern, path) <=>
            \E at \in [0..n -> 0..m] :
                at[0] = 0 /\ \A i \in 1..n : at[i] = at[i - 1] + 1 /\ path[at[i]] = pattern[i]
    BY <1>1, <1>2 DEF Fits
  <1>4. IsPrefix(pattern, path) <=> n <= m /\ \A i \in 1..n : path[i] = pattern[i]
    <2>1. ASSUME n <= m, \A i \in 1..n : path[i] = pattern[i]
          PROVE  SubSeq(pattern, 1, n) = SubSeq(path, 1, n)
      <3>1. SubSeq(pattern, 1, n) = [i \in 1..n |-> pattern[i]] /\ SubSeq(path, 1, n) = [i \in 1..n |-> path[i]]
        BY <1>1, <2>1 DEF Names
      <3> QED
        BY <2>1, <3>1
    <2>2. ASSUME n <= m, SubSeq(pattern, 1, n) = SubSeq(path, 1, n), NEW i \in 1..n
          PROVE  path[i] = pattern[i]
      <3>1. SubSeq(pattern, 1, n)[i] = pattern[i] /\ SubSeq(path, 1, n)[i] = path[i]
        BY <1>1, <2>2 DEF Names
      <3> QED
        BY <2>2, <3>1
    <2> QED
      BY <2>1, <2>2 DEF IsPrefix
  <1> HIDE DEF n, m
  <1>5. ASSUME n <= m, \A i \in 1..n : path[i] = pattern[i]
        PROVE  Fits(pattern, path)
    <2> DEFINE at == [i \in 0..n |-> i]
    <2>1. at \in [0..n -> 0..m] /\ at[0] = 0
      BY <1>1, <1>5
    <2>2. \A i \in 1..n : at[i] = at[i - 1] + 1 /\ path[at[i]] = pattern[i]
      BY <1>1, <1>5
    <2> HIDE DEF at
    <2> QED
      BY <1>3, <2>1, <2>2
  <1>6. ASSUME Fits(pattern, path)
        PROVE  n <= m /\ \A i \in 1..n : path[i] = pattern[i]
    <2>1. PICK at \in [0..n -> 0..m] :
                at[0] = 0 /\ \A i \in 1..n : at[i] = at[i - 1] + 1 /\ path[at[i]] = pattern[i]
      BY <1>3, <1>6
    <2> DEFINE T == {i \in 0..n : at[i] = i}
    <2>2. 0 \in T
      BY <1>1, <2>1
    <2>3. ASSUME NEW i \in 0..(n - 1), i \in T
          PROVE  i + 1 \in T
      <3>1. i + 1 \in 1..n /\ i + 1 \in 0..n /\ i + 1 - 1 = i
        BY <1>1
      <3>2. at[i + 1] = at[i] + 1
        BY <2>1, <3>1
      <3> QED
        BY <2>3, <3>1, <3>2
    <2> HIDE DEF T
    <2>4. 0..n \subseteq T
      BY <1>1, <2>2, <2>3, UpTo
    <2>5. \A i \in 0..n : at[i] = i
      BY <2>4 DEF T
    <2>6. at[n] \in 0..m /\ at[n] = n
      BY <1>1, <2>5
    <2>7. n <= m
      BY <1>1, <2>6
    <2>8. ASSUME NEW i \in 1..n
          PROVE  path[i] = pattern[i]
      <3>1. i \in 0..n
        BY <1>1
      <3> QED
        BY <2>1, <2>5, <3>1
    <2> QED
      BY <2>7, <2>8
  <1> QED
    BY <1>4, <1>5, <1>6, MatchesIffFits

\* Of a pattern without stars and anchors every symbol counts.
LEMMA PlainLength ==
    ASSUME NEW pattern \in Names, ~\E k \in DOMAIN pattern : pattern[k] \in {"*", "$"}
    PROVE  RuleLength(pattern) = Len(pattern)
  <1>1. Len(pattern) \in Nat /\ DOMAIN pattern = 1..Len(pattern)
    BY DEF Names
  <1>2. Unanchored(pattern) = pattern
    <2>1. pattern # <<>> => Len(pattern) \in DOMAIN pattern
      BY <1>1 DEF Names
    <2>2. ~EndAnchored(pattern)
      BY <2>1 DEF EndAnchored, Last
    <2> QED
      BY <2>2 DEF Unanchored
  <1>3. {i \in DOMAIN pattern : pattern[i] # "*"} = 1..Len(pattern)
    BY <1>1
  <1>4. Cardinality(1..Len(pattern)) = Len(pattern)
    BY <1>1, FS_Interval
  <1> QED
    BY <1>2, <1>3, <1>4 DEF RuleLength

\* The two readers give the same verdict where both can read the file.
THEOREM ReadersAlwaysAgree ==
    ASSUME NEW lines, IsFile(lines), NEW path \in Names
    PROVE  ReadersAgree(lines, path)
  <1> SUFFICES ASSUME PlainFile(lines)
               PROVE  CanFetch(ParseRobotsTxt(lines), path, <<Product>>)
                         <=> Allowed(ParseRobotsRules(lines), path)
    BY DEF ReadersAgree
  <1> DEFINE heeded == HeededLines(lines, <<Product>>)
             ours == GroupFor(ParseRobotsTxt(lines), <<Product>>).rules
             theirs == ParseRobotsRules(lines)
             X == {p \in Patterns(ours) : PatternMatches(p, path)}
             Y == {p \in Patterns(theirs) : IsPrefix(p, path)}
  <1>1. /\ \A i, j \in DOMAIN lines : IsAgent(lines[i]) /\ IsAgent(lines[j]) =>
                lines[i].value = lines[j].value /\ lines[i].value \in {Star, Product}
        /\ \A i \in DOMAIN lines : lines[i].key \in {"allow", "disallow"} =>
                ~\E k \in DOMAIN lines[i].value : lines[i].value[k] \in {"*", "$"}
    BY DEF PlainFile
  <1>2. heeded = {i \in DOMAIN lines : IsDirective(lines[i]) /\ AgentsOf(lines, i) # {}}
    BY <1>1, PlainHeeded
  <1>3. ours \in Seq(Rules) /\ Range(ours) = {RuleOf(lines[k]) : k \in {i \in heeded : IsRule(lines[i])}}
    BY RulesServe DEF Groups
  <1>4. /\ theirs \in Seq(Rules)
        /\ Range(theirs) = {RuleOf(lines[k]) : k \in {l \in DOMAIN lines : IsRule(lines[l]) /\ AgentsOf(lines, l) # {}}}
    BY <1>1, PlainRulesAre
  <1>5. \A l \in DOMAIN lines : IsRule(lines[l]) => IsDirective(lines[l])
    BY DEF IsRule, IsDirective, Directives
  <1>6. Range(ours) = Range(theirs)
    <2> HIDE DEF heeded, ours, theirs
    <2>1. {i \in heeded : IsRule(lines[i])} = {l \in DOMAIN lines : IsRule(lines[l]) /\ AgentsOf(lines, l) # {}}
      BY <1>2, <1>5
    <2> QED
      BY <1>3, <1>4, <2>1
  <1>7. \A r \in Range(theirs) : PatternMatches(r.pattern, path) <=> IsPrefix(r.pattern, path)
    <2> SUFFICES ASSUME NEW k \in DOMAIN lines, IsRule(lines[k])
                 PROVE  PatternMatches(RuleOf(lines[k]).pattern, path) <=> IsPrefix(RuleOf(lines[k]).pattern, path)
      BY <1>4
    <2>1. RuleOf(lines[k]).pattern = lines[k].value /\ lines[k].value # <<>> /\ lines[k].value \in Names
      BY DEF RuleOf, IsRule, IsFile, IsLine
    <2>2. ~\E x \in DOMAIN lines[k].value : lines[k].value[x] \in {"*", "$"}
      BY <1>1 DEF IsRule
    <2> QED
      BY <2>1, <2>2, PlainFits
  <1> HIDE DEF ours, theirs
  <1>8. Patterns(ours) = Patterns(theirs) /\ \A r \in Range(theirs) : r.pattern \in Patterns(theirs)
    BY <1>6 DEF Patterns
  <1>9. X = Y
    BY <1>7, <1>8 DEF Patterns
  <1> HIDE DEF X, Y
  <1> DEFINE lengths == [p \in Patterns(ours) |-> RuleLength(p)]
             all == [p \in Patterns(theirs) |-> Len(p)]
             a == BestRule(ours, lengths, X)
             b == BestRule(theirs, all, X)
  <1>14. lengths = all
    <2>1. ASSUME NEW p \in Patterns(theirs)
          PROVE  RuleLength(p) = Len(p)
      <3>1. PICK k \in DOMAIN lines : IsRule(lines[k]) /\ p = RuleOf(lines[k]).pattern
        BY <1>4 DEF Patterns
      <3>2. RuleOf(lines[k]).pattern = lines[k].value /\ lines[k].value \in Names
        BY <3>1 DEF RuleOf, IsRule, IsFile, IsLine
      <3>3. ~\E x \in DOMAIN lines[k].value : lines[k].value[x] \in {"*", "$"}
        BY <1>1, <3>1 DEF IsRule
      <3> QED
        BY <3>1, <3>2, <3>3, PlainLength
    <2> QED
      BY <1>8, <2>1
  <1>15. \A r \in Range(theirs) : lengths[r.pattern] = RuleLength(r.pattern)
    BY <1>8
  <1> HIDE DEF lengths, all
  <1>11. \A r \in Range(theirs) : RuleLength(r.pattern) \in Nat
    <2>1. \A r \in Range(theirs) : r.pattern \in Names
      <3> DEFINE R == Range(theirs)
      <3>1. \A r \in R : r \in Rules
        BY <1>4 DEF Range
      <3> HIDE DEF R
      <3>2. \A r \in R : r.pattern \in Names
        BY <3>1 DEF Rules
      <3> QED
        BY <3>2 DEF R
    <2> QED
      BY <2>1, LengthIsNat
  <1>16. \A r \in Range(theirs) : lengths[r.pattern] \in Nat
    BY <1>11, <1>15
  <1>10. /\ a \in [length : Int, allow : BOOLEAN] /\ IsVerdictOf(a, Range(theirs), lengths, X)
         /\ b \in [length : Int, allow : BOOLEAN] /\ IsVerdictOf(b, Range(theirs), lengths, X)
    <2>1. Measured(ours, lengths) /\ Measured(theirs, lengths)
      BY <1>6, <1>16 DEF Measured
    <2> QED
      BY <1>3, <1>4, <1>6, <1>14, <2>1, BestIs
  <1> HIDE DEF a, b
  <1>12. a.length = b.length
    BY <1>10, <1>16 DEF IsVerdictOf
  <1>13. a.allow <=> b.allow
    BY <1>10, <1>12 DEF IsVerdictOf
  <1> QED
    BY <1>9, <1>13 DEF CanFetch, Allowed, a, b, lengths, all, X, Y, ours, theirs

----------------------------------------------------------------------------
(* Whatever file is read *)

\* RobotsRight for all files, tokens of agents, paths and delays (ParseRobotsTxt,
\* GroupFor, CanFetch, EffectiveDelay; parseRobotsRules, robotsAllowed): however the
\* lines are put together, the verdict, the delay and the two readers are right.
THEOREM RobotsAlwaysRight == LibrarySpec => []RobotsRight
  <1> DEFINE Inv == Given("robots") => input.of \in RobotsFiles
  <1>1. LibraryInit => Inv
    BY DEF LibraryInit, Given
  <1>2. Inv /\ [LibraryNext]_input => Inv'
    <2> SUFFICES ASSUME Inv, [LibraryNext]_input
                 PROVE  Inv'
      OBVIOUS
    <2>1. CASE RobotsInput
      BY <2>1 DEF RobotsInput, Choose, Input, Given
    <2>2. CASE OptionsInput \/ PagesInput
      <3>1. PICK k \in LibraryFunctions \ {"robots"} : \E x : input' = Input(k, x)
        BY <2>2 DEF OptionsInput, PagesInput, Choose, LibraryFunctions
      <3>2. input'.k # "robots"
        BY <3>1 DEF Input
      <3> QED
        BY <3>2 DEF Given
    <2>3. CASE UNCHANGED input
      BY <2>3 DEF Given
    <2> QED
      BY <2>1, <2>2, <2>3 DEF LibraryNext
  <1>3. Inv => RobotsRight
    <2> SUFFICES ASSUME Inv, Given("robots")
                 PROVE  RobotsRight
      BY DEF RobotsRight
    <2> DEFINE lines == input.of
    <2>1. IsFile(lines) /\ \A path \in RobotsPaths : path \in Names
      BY RobotsAssumption
    <2>2. \A delay \in ConfiguredDelays : delay \in Nat
      BY RobotsAssumption
    <2> HIDE DEF lines
    <2>3. \A tokens \in AgentTokens, delay \in ConfiguredDelays : DelayRight(lines, delay, tokens)
      BY <2>1, <2>2, DelayAlwaysRight
    <2>4. \A tokens \in AgentTokens, path \in RobotsPaths : VerdictRight(lines, path, tokens)
      BY <2>1, VerdictAlwaysRight
    <2>5. \A path \in RobotsPaths : ReadersAgree(lines, path)
      BY <2>1, ReadersAlwaysAgree
    <2> QED
      BY <2>3, <2>4, <2>5 DEF RobotsRight, lines
  <1> QED
    BY <1>1, <1>2, <1>3, PTL DEF LibrarySpec
=============================================================================

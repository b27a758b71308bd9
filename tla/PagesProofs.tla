----------------------------- MODULE PagesProofs -----------------------------
(***************************************************************************)
(* What the parser makes of any page, selector, fingerprint and threshold: *)
(* likeness is mutual, the scanners of selectors agree, a selector made up *)
(* for an element finds it first, relocation and its diagnosis agree, and  *)
(* what was saved is found again.  Recursive functions along parents, down *)
(* selectors and through tables and folds are shown to exist, and what     *)
(* they compute is then found by induction (SetInduction, UpTo).           *)
(***************************************************************************)
EXTENDS RobotsProofs, SequenceTheorems

----------------------------------------------------------------------------
(* Similar elements *)

LEMMA TokenSetMutual ==
    ASSUME NEW a, NEW b
    PROVE  TokenSetSimilarity(a, b) = TokenSetSimilarity(b, a)
  <1>1. a \cap b = b \cap a /\ a \cup b = b \cup a
    OBVIOUS
  <1> QED
    BY <1>1 DEF TokenSetSimilarity

LEMMA AttributesMutual ==
    ASSUME NEW a, NEW b
    PROVE  AttributeSimilarity(a, b) = AttributeSimilarity(b, a)
  <1>1. MapKeySimilarity(a, b) = MapKeySimilarity(b, a)
    BY TokenSetMutual DEF MapKeySimilarity
  <1>2. AttrValueSimilarity(a, b) = AttrValueSimilarity(b, a)
    <2>1. TokenSetSimilarity(AttrValueTokens(a), AttrValueTokens(b))
            = TokenSetSimilarity(AttrValueTokens(b), AttrValueTokens(a))
      BY TokenSetMutual
    <2> QED
      BY <2>1 DEF AttrValueSimilarity
  <1> QED
    BY <1>1, <1>2 DEF AttributeSimilarity

\* FindSimilar on any page whatever, at any threshold: of two elements each finds the
\* other, or neither does.  (search.go)
THEOREM SimilarAlwaysMutual ==
    ASSUME NEW page, NEW threshold, NEW matchText \in BOOLEAN
    PROVE  SimilarIsMutual(page, threshold, matchText)
  <1> SUFFICES ASSUME NEW n \in DOMAIN page, NEW m \in DOMAIN page,
                      m \in FindSimilar(page, n, threshold, matchText)
               PROVE  n \in FindSimilar(page, m, threshold, matchText)
    BY DEF SimilarIsMutual
  <1>1. Similarity(page, n, m) = Similarity(page, m, n)
    BY AttributesMutual DEF Similarity
  <1>2. StringSimilarity(page[n].words, page[m].words) = StringSimilarity(page[m].words, page[n].words)
    BY TokenSetMutual DEF StringSimilarity
  <1> QED
    BY <1>1, <1>2 DEF FindSimilar

----------------------------------------------------------------------------
(* The two scanners *)

\* What selectors are made of.
Comma == ","
Letters == STRING \cup {Comma, ":"}
Texts == Seq(Letters)
Scans == [quote : {""} \cup Quotes, parens : Nat, brackets : Nat, escaped : BOOLEAN]

\* The one scanner goes from a character to the next as the other, and a comma or a colon
\* outside of everything changes nothing.
LEMMA ScanStays ==
    ASSUME NEW s \in Scans, NEW c
    PROVE  /\ ScanSplit(s, c) = ScanPseudo(s, c) /\ ScanSplit(s, c) \in Scans
           /\ IsTop(s) /\ c \in {Comma, ":"} => ScanSplit(s, c) = s
  <1>1. ScanSplit(s, c) = ScanPseudo(s, c)
    BY DEF ScanSplit, ScanPseudo
  <1>2. s.parens \in Nat /\ s.brackets \in Nat
    BY DEF Scans
  <1>3. Nested(s, c) \in Scans
    <2>1. \A k \in Nat : [s EXCEPT !.parens = k] \in Scans /\ [s EXCEPT !.brackets = k] \in Scans
      BY DEF Scans
    <2> DEFINE p == s.parens
               b == s.brackets
    <2>2. /\ p + 1 \in Nat /\ (IF p > 0 THEN p - 1 ELSE 0) \in Nat
          /\ b + 1 \in Nat /\ (IF b > 0 THEN b - 1 ELSE 0) \in Nat
      BY <1>2
    <2>3. Nested(s, c) \in {[s EXCEPT !.parens = p + 1], [s EXCEPT !.parens = IF p > 0 THEN p - 1 ELSE 0],
                            [s EXCEPT !.brackets = b + 1], [s EXCEPT !.brackets = IF b > 0 THEN b - 1 ELSE 0], s}
      BY DEF Nested
    <2> HIDE DEF p, b
    <2> QED
      BY <2>1, <2>2, <2>3
  <1>4. /\ [s EXCEPT !.escaped = FALSE] \in Scans /\ [s EXCEPT !.escaped = TRUE] \in Scans
        /\ \A q \in {""} \cup Quotes : [s EXCEPT !.quote = q] \in Scans
    BY DEF Scans
  <1>5. ScanSplit(s, c) \in Scans
    <2>1. s.quote \in {""} \cup Quotes /\ (IF c = s.quote THEN "" ELSE s.quote) \in {""} \cup Quotes
      BY DEF Scans
    <2> QED
      BY <1>3, <1>4, <2>1 DEF ScanSplit
  <1>6. ASSUME IsTop(s), c \in {Comma, ":"}
        PROVE  ScanSplit(s, c) = s
    <2>1. c \notin {"(", ")", "[", "]"} /\ c \notin Quotes /\ c # "\\"
      BY <1>6, Zenon DEF Quotes, Comma
    <2>2. Nested(s, c) = s
      BY <2>1 DEF Nested
    <2> QED
      BY <1>6, <2>1, <2>2 DEF ScanSplit, IsTop
  <1> QED
    BY <1>1, <1>5, <1>6

\* What has been split so far: the parts behind, the one that is read, the scanner.
Splits == [parts : Seq(Texts), part : Texts, scan : Scans]
Unsplit == [parts |-> <<>>, part |-> <<>>, scan |-> Toplevel]
ReadSplit(state, c) ==
    IF IsTop(state.scan) /\ c = Comma
    THEN [state EXCEPT !.parts = Append(@, state.part), !.part = <<>>]
    ELSE [state EXCEPT !.part = Append(@, c), !.scan = ScanSplit(@, c)]

LEMMA UnsplitIs == Unsplit \in Splits /\ Unsplit.scan = Toplevel /\ IsTop(Toplevel)
  <1>1. Toplevel \in Scans /\ IsTop(Toplevel)
    BY DEF Toplevel, Scans, IsTop
  <1>2. <<>> \in Seq(Texts) /\ <<>> \in Texts
    BY DEF Texts
  <1> QED
    BY <1>1, <1>2 DEF Unsplit, Splits

LEMMA SplitReads ==
    ASSUME NEW state \in Splits, NEW c \in Letters
    PROVE  /\ ReadSplit(state, c) \in Splits
           /\ ReadSplit(state, c).scan = ScanPseudo(state.scan, c)
           /\ ReadSplit(state, c).parts =
                 IF IsTop(state.scan) /\ c = Comma THEN Append(state.parts, state.part) ELSE state.parts
  <1>1. state.parts \in Seq(Texts) /\ state.part \in Texts /\ state.scan \in Scans
    BY DEF Splits
  <1>2. CASE IsTop(state.scan) /\ c = Comma
    <2> DEFINE more == Append(state.parts, state.part)
               q == [state EXCEPT !.parts = more, !.part = <<>>]
    <2>1. more \in Seq(Texts) /\ <<>> \in Texts
      BY <1>1 DEF Texts
    <2>2. ReadSplit(state, c) = q
      BY <1>2 DEF ReadSplit
    <2>3. ScanPseudo(state.scan, c) = state.scan
      BY <1>1, <1>2, ScanStays
    <2> HIDE DEF more
    <2>4. q \in Splits /\ q.scan = state.scan /\ q.parts = more
      BY <1>1, <2>1 DEF Splits
    <2> QED
      BY <1>2, <2>2, <2>3, <2>4 DEF more
  <1>3. CASE ~(IsTop(state.scan) /\ c = Comma)
    <2> DEFINE more == Append(state.part, c)
               scan == ScanSplit(state.scan, c)
               q == [state EXCEPT !.part = more, !.scan = scan]
    <2>1. more \in Texts
      BY <1>1 DEF Texts
    <2>2. ReadSplit(state, c) = q
      BY <1>3 DEF ReadSplit
    <2>3. scan = ScanPseudo(state.scan, c) /\ scan \in Scans
      BY <1>1, ScanStays
    <2> HIDE DEF more, scan
    <2>4. q \in Splits /\ q.scan = scan /\ q.parts = state.parts
      BY <1>1, <2>1, <2>3 DEF Splits
    <2> QED
      BY <1>3, <2>2, <2>3, <2>4
  <1> QED
    BY <1>2, <1>3

LEMMA SplitSteps ==
    ASSUME NEW selector \in Texts, Comma \in Letters
    PROVE  \E F \in [0..Len(selector) -> Splits] :
              /\ F[0] = Unsplit
              /\ \A i \in 1..Len(selector) : F[i] = ReadSplit(F[i - 1], selector[i])
              /\ SplitTopLevelCommas(selector) = Append(F[Len(selector)].parts, F[Len(selector)].part)
  <1> DEFINE n == Len(selector)
             S == Splits
             step == [k \in 1..n |-> [p \in S |-> ReadSplit(p, selector[k])]]
             Value(f, s) == IF s = {} THEN Unsplit ELSE ReadSplit(f[s \ {Max(s)}], selector[Max(s)])
             Is(f) == f = [s \in SUBSET DOMAIN selector |-> Value(f, s)]
             f == CHOOSE g : Is(g)
  <1>1. n \in Nat /\ DOMAIN selector = 1..n
    BY DEF Texts
  <1>2. Unsplit \in S
    BY UnsplitIs
  <1>3. \A p \in S, k \in 1..n : ReadSplit(p, selector[k]) \in S
    <2> SUFFICES ASSUME NEW p \in S, NEW k \in 1..n
                 PROVE  ReadSplit(p, selector[k]) \in S
      OBVIOUS
    <2>1. selector[k] \in Letters
      BY DEF Texts
    <2> QED
      BY <2>1, SplitReads
  <1>4. step \in [1..n -> [S -> S]]
    <2> HIDE DEF S, n
    <2> QED
      BY <1>3
  <1>5. SplitTopLevelCommas(selector) = Append(f[DOMAIN selector].parts, f[DOMAIN selector].part)
    BY DEF SplitTopLevelCommas, ReadSplit, Unsplit, Comma, FoldLeft, MapThenFoldSet
  <1>6. PICK g : g \in FoldsOf(S, n, step, Unsplit)
    <2> DEFINE b == Unsplit
    <2>1. b \in S /\ FoldsOf(S, n, step, b) = FoldsOf(S, n, step, Unsplit)
      BY <1>2
    <2> HIDE DEF b
    <2> HIDE DEF S, n, step
    <2> QED
      BY <1>1, <1>2, <1>4, <2>1, FoldExists
  <1>7. Is(g)
    <2>1. g \in [SUBSET (1..n) -> S]
      <3> HIDE DEF S, n, step
      <3> QED
        BY <1>6 DEF FoldsOf
    <2>2. ASSUME NEW s \in SUBSET (1..n)
          PROVE  g[s] = Value(g, s)
      <3>1. CASE s = {}
        <4>1. g[s] = Unsplit
          <5> HIDE DEF S, n, step
          <5> QED
            BY <1>6, <3>1 DEF FoldsOf
        <4> QED
          BY <3>1, <4>1
      <3>2. CASE s # {}
        <4>1. Max(s) \in 1..n /\ s \ {Max(s)} \in SUBSET (1..n)
          <5> HIDE DEF n
          <5> QED
            BY <1>1, <3>2, MaxIn
        <4> HIDE DEF n, S
        <4>2. g[s] = step[Max(s)][g[s \ {Max(s)}]]
          <5> HIDE DEF step
          <5> QED
            BY <1>6, <3>2 DEF FoldsOf
        <4>3. g[s \ {Max(s)}] \in S
          BY <2>1, <4>1
        <4> QED
          BY <3>2, <4>1, <4>2, <4>3
      <3> QED
        BY <3>1, <3>2
    <2> HIDE DEF Value, n, S, step
    <2> QED
      BY <1>1, <2>1, <2>2
  <1>8. Is(f)
    <2> HIDE DEF Is
    <2> QED
      BY <1>7
  <1> HIDE DEF f
  <1>9. f[{}] = Unsplit
    BY <1>8
  <1>10. ASSUME NEW s \in SUBSET (1..n), s # {}, f[s \ {Max(s)}] \in S
         PROVE  f[s] = step[Max(s)][f[s \ {Max(s)}]]
    <2> HIDE DEF n, S
    <2>1. Max(s) \in 1..n
      BY <1>1, <1>10, MaxIn
    <2>2. f[s] = ReadSplit(f[s \ {Max(s)}], selector[Max(s)])
      BY <1>1, <1>8, <1>10
    <2> QED
      BY <1>10, <2>1, <2>2
  <1> HIDE DEF S, n, step, Is, Value
  <1>11. \A s \in SUBSET (1..n) : s # {} /\ f[s \ {Max(s)}] \in S => f[s] = step[Max(s)][f[s \ {Max(s)}]]
    BY <1>10
  <1>12. Folds(f, S, n, step, Unsplit)
    BY <1>1, <1>2, <1>4, <1>9, <1>11 DEF Folds
  <1>13. GoesStepByStep(f, S, n, step, Unsplit)
    BY <1>12, FoldIsRecursion
  <1>14. PICK F \in RecursionsOf(S, n, step, Unsplit) : F[n] = f[1..n]
    BY <1>13 DEF GoesStepByStep
  <1>15. /\ F \in [0..n -> S] /\ F[0] = Unsplit
         /\ \A i \in 1..n : F[i] = step[i][F[i - 1]]
    BY <1>14 DEF RecursionsOf
  <1>16. ASSUME NEW i \in 1..n
         PROVE  F[i] = ReadSplit(F[i - 1], selector[i])
    <2>1. F[i] = step[i][F[i - 1]] /\ F[i - 1] \in S
      BY <1>1, <1>15
    <2> QED
      BY <2>1 DEF step
  <1>17. SplitTopLevelCommas(selector) = Append(F[n].parts, F[n].part)
    BY <1>1, <1>5, <1>14
  <1> QED
    BY <1>15, <1>16, <1>17 DEF n, S

LEMMA AppendIs ==
    ASSUME NEW S, NEW s \in Seq(S), NEW e \in S
    PROVE  /\ Append(s, e) \in Seq(S) /\ Len(Append(s, e)) = Len(s) + 1 /\ Len(s) \in Nat
           /\ Append(s, e)[Len(s) + 1] = e
           /\ \A i \in 1..Len(s) : Append(s, e)[i] = s[i]
  <1>1. Append(s, e) \in Seq(S) /\ Len(s) \in Nat
    OBVIOUS
  <1>2. Len(Append(s, e)) = Len(s) + 1 /\ Append(s, e)[Len(s) + 1] = e
    OBVIOUS
  <1>3. \A i \in 1..Len(s) : Append(s, e)[i] = s[i]
    OBVIOUS
  <1> QED
    BY <1>1, <1>2, <1>3

\* The runs of the splitter over a selector.
SplitsOf(selector) ==
    {F \in [0..Len(selector) -> Splits] :
        F[0] = Unsplit /\ \A i \in 1..Len(selector) : F[i] = ReadSplit(F[i - 1], selector[i])}

LEMMA SplitsExist ==
    ASSUME NEW selector \in Texts, Comma \in Letters
    PROVE  \E F \in SplitsOf(selector) :
              Len(SplitTopLevelCommas(selector)) = Len(F[Len(selector)].parts) + 1
  <1>1. PICK F \in [0..Len(selector) -> Splits] :
              /\ F[0] = Unsplit
              /\ \A i \in 1..Len(selector) : F[i] = ReadSplit(F[i - 1], selector[i])
              /\ SplitTopLevelCommas(selector) = Append(F[Len(selector)].parts, F[Len(selector)].part)
    BY SplitSteps, Zenon
  <1>2. Len(selector) \in 0..Len(selector)
    BY DEF Texts
  <1>3. F[Len(selector)] \in Splits
    BY <1>1, <1>2
  <1>4. F[Len(selector)].parts \in Seq(Texts) /\ F[Len(selector)].part \in Texts
    BY <1>3 DEF Splits
  <1>5. Len(SplitTopLevelCommas(selector)) = Len(F[Len(selector)].parts) + 1
    BY <1>1, <1>4, AppendIs
  <1> QED
    BY <1>1, <1>5 DEF SplitsOf

\* A run over more text begins as the run over less.
IsBeginning(short, long) ==
    Len(short) \in Nat /\ Len(long) \in Nat /\ Len(short) <= Len(long)
        /\ \A i \in 1..Len(short) : long[i] = short[i]
LEMMA SplitsAgree ==
    ASSUME NEW short, NEW long, IsBeginning(short, long),
           NEW F \in SplitsOf(short), NEW G \in SplitsOf(long)
    PROVE  \A i \in 0..Len(short) : G[i] = F[i]
  <1> DEFINE n == Len(short)
             T == {i \in 0..n : G[i] = F[i]}
  <1>1. n \in Nat /\ 0 \in T
    BY DEF SplitsOf, IsBeginning
  <1>2. ASSUME NEW i \in 0..(n - 1), i \in T
        PROVE  i + 1 \in T
    <2>1. i + 1 \in 1..n /\ i + 1 \in 1..Len(long) /\ i + 1 - 1 = i /\ i + 1 \in 0..n
      BY <1>1 DEF IsBeginning
    <2>2. F[i + 1] = ReadSplit(F[i + 1 - 1], short[i + 1]) /\ G[i + 1] = ReadSplit(G[i + 1 - 1], long[i + 1])
      BY <2>1 DEF SplitsOf
    <2>3. long[i + 1] = short[i + 1]
      BY <2>1 DEF IsBeginning
    <2> QED
      BY <1>2, <2>1, <2>2, <2>3
  <1> HIDE DEF T
  <1>3. 0..n \subseteq T
    BY <1>1, <1>2, UpTo
  <1> QED
    BY <1>3 DEF T

\* The other scanner sees what is outside of everything where the splitter does.
LEMMA PseudoIndexIs ==
    ASSUME NEW selector \in Texts, NEW F \in SplitsOf(selector)
    PROVE  TopLevelPseudoElementIndex(selector) =
              Max({0} \cup {i \in 1..Len(selector) - 1 :
                               IsTop(F[i - 1].scan) /\ selector[i] = ":" /\ selector[i + 1] = ":"})
  <1> DEFINE n == Len(selector)
             Is(f) == f = [i \in 1..n |-> IF i = 1 THEN Toplevel ELSE ScanPseudo(f[i - 1], selector[i - 1])]
             before == CHOOSE f : Is(f)
             g == [i \in 1..n |-> F[i - 1].scan]
  <1>1. n \in Nat /\ \A i \in 1..n : selector[i] \in Letters
    BY DEF Texts
  <1>2. TopLevelPseudoElementIndex(selector) =
           Max({0} \cup {i \in 1..n - 1 : IsTop(before[i]) /\ selector[i] = ":" /\ selector[i + 1] = ":"})
    BY DEF TopLevelPseudoElementIndex
  <1> HIDE DEF n
  <1>3. /\ F[0] = Unsplit /\ \A i \in 0..n : F[i] \in Splits
        /\ \A i \in 1..n : F[i].scan = ScanPseudo(F[i - 1].scan, selector[i])
    <2>1. F[0] = Unsplit /\ \A i \in 0..n : F[i] \in Splits
      BY DEF SplitsOf, n
    <2>2. ASSUME NEW i \in 1..n
          PROVE  F[i].scan = ScanPseudo(F[i - 1].scan, selector[i])
      <3>1. F[i] = ReadSplit(F[i - 1], selector[i])
        BY DEF SplitsOf, n
      <3>2. F[i - 1] \in Splits /\ selector[i] \in Letters
        BY <1>1, <2>1
      <3> QED
        BY <3>1, <3>2, SplitReads
    <2> QED
      BY <2>1, <2>2
  <1>4. \A i \in 1..n : g[i] = IF i = 1 THEN Toplevel ELSE ScanPseudo(g[i - 1], selector[i - 1])
    <2> SUFFICES ASSUME NEW i \in 1..n
                 PROVE  g[i] = IF i = 1 THEN Toplevel ELSE ScanPseudo(g[i - 1], selector[i - 1])
      OBVIOUS
    <2>1. CASE i = 1
      <3>1. g[i] = F[0].scan
        BY <2>1
      <3> QED
        BY <1>3, <2>1, <3>1, UnsplitIs
    <2>2. CASE i # 1
      <3>1. i - 1 \in 1..n
        BY <1>1, <2>2
      <3>2. g[i] = F[i - 1].scan /\ g[i - 1] = F[i - 1 - 1].scan
        BY <3>1
      <3> HIDE DEF g
      <3> QED
        BY <1>3, <2>2, <3>1, <3>2
    <2> QED
      BY <2>1, <2>2
  <1>5. Is(g)
    <2>1. g = [i \in 1..n |-> g[i]]
      OBVIOUS
    <2> HIDE DEF g
    <2> QED
      BY <1>4, <2>1
  <1>6. Is(before)
    <2> HIDE DEF Is, g
    <2> QED
      BY <1>5
  <1> HIDE DEF before
  <1>7. \A i \in 1..n : before[i] = IF i = 1 THEN Toplevel ELSE ScanPseudo(before[i - 1], selector[i - 1])
    <2>1. before = [i \in 1..n |-> IF i = 1 THEN Toplevel ELSE ScanPseudo(before[i - 1], selector[i - 1])]
      BY <1>6
    <2> HIDE DEF Is
    <2> QED
      BY <2>1
  <1> HIDE DEF Is
  <1> DEFINE T == {i \in 0..n : i # 0 => before[i] = g[i]}
  <1>8. 0..n \subseteq T
    <2>1. 0 \in T
      BY <1>1
    <2> HIDE DEF g
    <2>2. ASSUME NEW i \in 0..(n - 1), i \in T
          PROVE  i + 1 \in T
      <3>1. i + 1 \in 1..n /\ i + 1 \in 0..n /\ i + 1 - 1 = i
        BY <1>1
      <3>2. i # 0 => before[i] = g[i]
        BY <2>2
      <3>3. before[i + 1] = g[i + 1]
        <4>1. CASE i = 0
          BY <1>4, <1>7, <3>1, <4>1
        <4>2. CASE i # 0
          <5>1. i + 1 # 1
            BY <4>2
          <5> QED
            BY <1>4, <1>7, <3>1, <3>2, <4>2, <5>1
        <4> QED
          BY <4>1, <4>2
      <3> QED
        BY <3>1, <3>3
    <2> HIDE DEF T
    <2> QED
      BY <1>1, <2>1, <2>2, UpTo
  <1>9. \A i \in 1..n - 1 : before[i] = F[i - 1].scan
    <2> SUFFICES ASSUME NEW i \in 1..n - 1
                 PROVE  before[i] = F[i - 1].scan
      OBVIOUS
    <2>1. i \in 1..n /\ i \in 0..n /\ i # 0
      BY <1>1
    <2>2. g[i] = F[i - 1].scan
      BY <2>1
    <2> HIDE DEF g
    <2> QED
      BY <1>8, <2>1, <2>2
  <1> DEFINE A == {i \in 1..n - 1 : IsTop(before[i]) /\ selector[i] = ":" /\ selector[i + 1] = ":"}
             B == {i \in 1..n - 1 : IsTop(F[i - 1].scan) /\ selector[i] = ":" /\ selector[i + 1] = ":"}
  <1>10. A = B
    BY <1>9
  <1> QED
    BY <1>2, <1>10 DEF n

LEMMA MaxIsTop ==
    ASSUME NEW m \in Nat, NEW X \in SUBSET (0..m)
    PROVE  Max({0} \cup X) = m <=> m = 0 \/ m \in X
  <1> DEFINE s == {0} \cup X
  <1>1. s \in SUBSET (0..m) /\ s # {}
    OBVIOUS
  <1> HIDE DEF s
  <1>2. Max(s) \in s /\ \A y \in s : Max(s) >= y
    BY <1>1, MaxUpTo
  <1>3. Max(s) \in 0..m
    BY <1>1, <1>2
  <1>4. m \in s => Max(s) = m
    BY <1>2, <1>3
  <1> QED
    BY <1>2, <1>4 DEF s

\* A comma behind a selector is a split iff the splitter is outside of everything there ...
LEMMA SplitterSees ==
    ASSUME NEW selector \in Texts, NEW F \in SplitsOf(selector), Comma \in Letters,
           Len(SplitTopLevelCommas(selector)) = Len(F[Len(selector)].parts) + 1
    PROVE  Len(SplitTopLevelCommas(Append(selector, Comma))) = Len(SplitTopLevelCommas(selector)) + 1
              <=> IsTop(F[Len(selector)].scan)
  <1> DEFINE n == Len(selector)
             more == Append(selector, Comma)
             last == F[n]
  <1>1. /\ more \in Texts /\ Len(more) = n + 1 /\ n \in Nat /\ more[n + 1] = Comma
        /\ \A i \in 1..n : more[i] = selector[i]
    <2>1. selector \in Seq(Letters)
      BY DEF Texts
    <2> QED
      BY <2>1, AppendIs DEF Texts
  <1> HIDE DEF more
  <1>2. PICK G \in SplitsOf(more) : Len(SplitTopLevelCommas(more)) = Len(G[Len(more)].parts) + 1
    BY <1>1, SplitsExist
  <1>3. G[n] = F[n]
    <2>1. IsBeginning(selector, more)
      BY <1>1 DEF IsBeginning
    <2>2. n \in 0..n
      BY <1>1
    <2> QED
      BY <2>1, <2>2, SplitsAgree
  <1>4. G[n + 1] = ReadSplit(G[n], Comma)
    <2>1. n + 1 \in 1..Len(more) /\ n + 1 - 1 = n
      BY <1>1
    <2>2. G[n + 1] = ReadSplit(G[n + 1 - 1], more[n + 1])
      BY <2>1 DEF SplitsOf
    <2> QED
      BY <1>1, <2>1, <2>2
  <1>5. last \in Splits
    <2>1. n \in 0..n
      BY <1>1
    <2> QED
      BY <2>1 DEF SplitsOf
  <1>6. last.parts \in Seq(Texts) /\ last.part \in Texts
    BY <1>5 DEF Splits
  <1>7. Len(Append(last.parts, last.part)) = Len(last.parts) + 1 /\ Len(last.parts) \in Nat
    BY <1>6, AppendIs
  <1>8. G[n + 1].parts = IF IsTop(last.scan) THEN Append(last.parts, last.part) ELSE last.parts
    BY <1>3, <1>4, <1>5, SplitReads
  <1>9. Len(SplitTopLevelCommas(more)) = Len(G[n + 1].parts) + 1
    BY <1>1, <1>2
  <1>10. Len(SplitTopLevelCommas(selector)) = Len(last.parts) + 1
    OBVIOUS
  <1> HIDE DEF last
  <1>11. Len(SplitTopLevelCommas(more)) = Len(SplitTopLevelCommas(selector)) + 1 <=> IsTop(last.scan)
    BY <1>7, <1>8, <1>9, <1>10
  <1> QED
    BY <1>11 DEF last, more

\* ... and a pseudo-element is seen there iff it is, too.
LEMMA PseudoScannerSees ==
    ASSUME NEW selector \in Texts, NEW F \in SplitsOf(selector), ":" \in Letters, Comma \in Letters
    PROVE  TopLevelPseudoElementIndex(selector \o <<":", ":">>) = Len(selector) + 1
              <=> IsTop(F[Len(selector)].scan)
  <1> DEFINE n == Len(selector)
             colon == ":"
             a == Append(selector, colon)
             b == Append(a, colon)
  <1>0. colon \in Letters
    OBVIOUS
  <1>1. selector \o <<":", ":">> = b
    BY DEF Texts
  <1> HIDE DEF colon
  <1>2. /\ a \in Texts /\ Len(a) = n + 1 /\ n \in Nat /\ a[n + 1] = colon
        /\ \A i \in 1..n : a[i] = selector[i]
    <2>1. selector \in Seq(Letters)
      BY DEF Texts
    <2> QED
      BY <1>0, <2>1, AppendIs DEF Texts
  <1> HIDE DEF a
  <1>3. /\ b \in Texts /\ Len(b) = n + 2 /\ b[n + 2] = colon
        /\ \A i \in 1..n + 1 : b[i] = a[i]
    <2>1. a \in Seq(Letters) /\ n + 1 + 1 = n + 2
      BY <1>2 DEF Texts
    <2> QED
      BY <1>0, <1>2, <2>1, AppendIs DEF Texts
  <1> HIDE DEF b
  <1>4. PICK G \in SplitsOf(b) : TRUE
    BY <1>3, SplitsExist
  <1>5. G[n] = F[n]
    <2>1. IsBeginning(selector, b)
      BY <1>2, <1>3 DEF IsBeginning
    <2>2. n \in 0..n
      BY <1>2
    <2> QED
      BY <1>4, <2>1, <2>2, SplitsAgree
  <1> DEFINE X == {i \in 1..Len(b) - 1 : IsTop(G[i - 1].scan) /\ b[i] = ":" /\ b[i + 1] = ":"}
  <1>6. TopLevelPseudoElementIndex(b) = Max({0} \cup X)
    BY <1>3, <1>4, PseudoIndexIs
  <1>7. X \in SUBSET (0..(n + 1)) /\ n + 1 \in Nat /\ n + 1 # 0
    BY <1>2, <1>3
  <1>8. n + 1 \in X <=> IsTop(G[n].scan)
    <2>1. n + 1 \in 1..Len(b) - 1 /\ n + 1 - 1 = n /\ n + 1 + 1 = n + 2 /\ n + 1 \in 1..n + 1
      BY <1>2, <1>3
    <2>2. b[n + 1] = ":" /\ b[n + 2] = ":"
      BY <1>2, <1>3, <2>1 DEF colon
    <2> QED
      BY <2>1, <2>2
  <1> HIDE DEF X
  <1>9. Max({0} \cup X) = n + 1 <=> n + 1 \in X
    BY <1>7, MaxIsTop
  <1> QED
    BY <1>1, <1>5, <1>6, <1>8, <1>9

\* splitTopLevelCommas and topLevelPseudoElementIndex, over any selector: the one splits
\* at a comma where the other sees a pseudo-element.  (document.go)
THEOREM ScannersAlwaysAgree ==
    ASSUME NEW selector \in Names
    PROVE  ScannersAgree(selector)
  <1>1. selector \in Texts /\ Comma \in Letters /\ ":" \in Letters
    <2>1. STRING \subseteq Letters /\ Comma \in Letters /\ ":" \in Letters
      BY DEF Letters
    <2>2. \A S, T : S \subseteq T => Seq(S) \subseteq Seq(T)
      OBVIOUS
    <2>3. Seq(STRING) \subseteq Seq(Letters)
      BY <2>1, <2>2, Zenon
    <2> QED
      BY <2>1, <2>3, Zenon DEF Names, Texts
  <1>2. PICK F \in SplitsOf(selector) : Len(SplitTopLevelCommas(selector)) = Len(F[Len(selector)].parts) + 1
    BY <1>1, SplitsExist
  <1>3. Len(SplitTopLevelCommas(Append(selector, Comma))) = Len(SplitTopLevelCommas(selector)) + 1
           <=> IsTop(F[Len(selector)].scan)
    BY <1>1, <1>2, SplitterSees
  <1>4. TopLevelPseudoElementIndex(selector \o <<":", ":">>) = Len(selector) + 1
           <=> IsTop(F[Len(selector)].scan)
    BY <1>1, <1>2, PseudoScannerSees
  <1> QED
    BY <1>3, <1>4, Zenon DEF ScannersAgree, Comma

----------------------------------------------------------------------------
(* What is computed along the parents of an element *)

\* Functions on the numbers up to a bound whose value at one is made from that at a lower.
GoesUp(S, n, up, step, base) ==
    /\ n \in Nat /\ base \in S /\ up \in [1..n -> Nat] /\ step \in [1..n -> [S -> S]]
    /\ \A i \in 1..n : up[i] < i
DescentsOf(S, n, up, step, base) ==
    {f \in [0..n -> S] : f[0] = base /\ \A i \in 1..n : f[i] = step[i][f[up[i]]]}

LEMMA DescentExists ==
    ASSUME NEW S, NEW n, NEW up, NEW step, NEW base, GoesUp(S, n, up, step, base)
    PROVE  DescentsOf(S, n, up, step, base) # {}
  <1>0. /\ n \in Nat /\ base \in S /\ up \in [1..n -> Nat] /\ step \in [1..n -> [S -> S]]
        /\ \A i \in 1..n : up[i] < i
    BY DEF GoesUp
  <1> DEFINE K == {k \in 0..n : DescentsOf(S, k, up, step, base) # {}}
  <1>1. 0 \in K
    <2> DEFINE f == [i \in 0..0 |-> base]
    <2>1. f \in DescentsOf(S, 0, up, step, base)
      BY <1>0 DEF DescentsOf
    <2> HIDE DEF f
    <2> QED
      BY <1>0, <2>1
  <1>2. ASSUME NEW k \in 0..(n - 1), k \in K
        PROVE  k + 1 \in K
    <2>1. PICK f : f \in DescentsOf(S, k, up, step, base)
      BY <1>2
    <2>2. f \in [0..k -> S] /\ f[0] = base /\ \A i \in 1..k : f[i] = step[i][f[up[i]]]
      BY <2>1 DEF DescentsOf
    <2> DEFINE v == step[k + 1][f[up[k + 1]]]
               g == [i \in 0..(k + 1) |-> IF i = k + 1 THEN v ELSE f[i]]
    <2>3. k \in Nat /\ k + 1 \in 1..n /\ up[k + 1] \in 0..k
      BY <1>0
    <2>4. v \in S
      <3>1. step[k + 1] \in [S -> S] /\ f[up[k + 1]] \in S
        BY <1>0, <2>2, <2>3
      <3> QED
        BY <3>1
    <2>5. g \in [0..(k + 1) -> S]
      <3> HIDE DEF v
      <3> QED
        BY <2>2, <2>3, <2>4
    <2>6. g[k + 1] = v /\ \A i \in 0..k : g[i] = f[i]
      <3> HIDE DEF v
      <3> QED
        BY <2>3
    <2> HIDE DEF g, K
    <2>7. ASSUME NEW i \in 1..(k + 1)
          PROVE  g[i] = step[i][g[up[i]]]
      <3>1. CASE i = k + 1
        BY <2>3, <2>6, <3>1
      <3>2. CASE i # k + 1
        <4>1. i \in 1..k /\ i \in 0..k /\ i \in 1..n
          BY <1>0, <2>3, <3>2
        <4>2. up[i] \in 0..k
          <5>1. up[i] \in Nat /\ up[i] < i
            BY <1>0, <4>1
          <5> QED
            BY <2>3, <4>1, <5>1
        <4> QED
          BY <2>2, <2>6, <4>1, <4>2
      <3> QED
        BY <3>1, <3>2
    <2>8. g[0] = base
      <3>1. 0 \in 0..k
        BY <2>3
      <3> QED
        BY <2>2, <2>6, <3>1
    <2>9. g \in DescentsOf(S, k + 1, up, step, base)
      BY <2>5, <2>7, <2>8 DEF DescentsOf
    <2>10. k + 1 \in 0..n
      BY <1>0, <2>3
    <2> QED
      BY <2>9, <2>10 DEF K
  <1> HIDE DEF K
  <1>3. 0..n \subseteq K
    BY <1>0, <1>1, <1>2, UpTo
  <1>4. n \in K
    BY <1>0, <1>3
  <1> QED
    BY <1>4 DEF K

\* A recursive definition of its own for each element comes to the same along all of them.
GoesUpTo(g, S, k, up, step, base) ==
    g[0] = base /\ \A i \in 1..k : g[up[i]] \in S => g[i] = step[i][g[up[i]]]

LEMMA DescentIs ==
    ASSUME NEW S, NEW n, NEW up, NEW step, NEW base, GoesUp(S, n, up, step, base),
           NEW f \in DescentsOf(S, n, up, step, base),
           NEW k \in 0..n, NEW g, GoesUpTo(g, S, k, up, step, base)
    PROVE  \A i \in 0..k : g[i] = f[i]
  <1>0. /\ n \in Nat /\ base \in S /\ up \in [1..n -> Nat] /\ step \in [1..n -> [S -> S]]
        /\ \A i \in 1..n : up[i] < i
    BY DEF GoesUp
  <1>1. f \in [0..n -> S] /\ f[0] = base /\ \A i \in 1..n : f[i] = step[i][f[up[i]]]
    BY DEF DescentsOf
  <1>2. g[0] = base /\ \A i \in 1..k : g[up[i]] \in S => g[i] = step[i][g[up[i]]]
    BY DEF GoesUpTo
  <1> DEFINE K == {j \in 0..k : \A i \in 0..j : g[i] = f[i]}
  <1>3. k \in Nat
    BY <1>0
  <1>4. 0 \in K
    BY <1>1, <1>2, <1>3
  <1>5. ASSUME NEW j \in 0..(k - 1), j \in K
        PROVE  j + 1 \in K
    <2>1. j + 1 \in 1..k /\ j + 1 \in 1..n /\ j \in Nat
      BY <1>0, <1>3
    <2>2. up[j + 1] \in 0..j /\ up[j + 1] \in 0..n
      <3>1. up[j + 1] \in Nat /\ up[j + 1] < j + 1
        BY <1>0, <2>1
      <3> QED
        BY <1>0, <2>1, <3>1
    <2>3. g[up[j + 1]] = f[up[j + 1]] /\ f[up[j + 1]] \in S
      BY <1>1, <1>5, <2>2
    <2>4. g[j + 1] = f[j + 1]
      BY <1>1, <1>2, <2>1, <2>3
    <2>5. \A i \in 0..(j + 1) : i = j + 1 \/ i \in 0..j
      BY <2>1
    <2>6. \A i \in 0..j : g[i] = f[i]
      BY <1>5
    <2>7. j + 1 \in 0..k
      BY <2>1
    <2> QED
      BY <2>4, <2>5, <2>6, <2>7
  <1> HIDE DEF K
  <1>6. 0..k \subseteq K
    BY <1>3, <1>4, <1>5, UpTo
  <1>7. k \in K
    BY <1>3, <1>6
  <1> QED
    BY <1>7 DEF K

LEMMA PageIs ==
    ASSUME NEW page, IsPage(page)
    PROVE  /\ Len(page) \in Nat /\ DOMAIN page = 1..Len(page) /\ 1 \in DOMAIN page
           /\ \A n \in DOMAIN page : /\ IsElement(page, n)
                                     /\ ParentOf(page, n) \in 0..(n - 1) /\ (ParentOf(page, n) = 0 <=> n = 1)
  <1>1. page \in Seq(Range(page)) /\ page # <<>> /\ \A n \in DOMAIN page : IsElement(page, n)
    BY DEF IsPage
  <1>2. Len(page) \in Nat /\ DOMAIN page = 1..Len(page)
    BY <1>1
  <1>3. 1 \in DOMAIN page
    <2>1. Len(page) # 0
      BY <1>1
    <2> QED
      BY <1>2, <2>1
  <1>4. \A n \in DOMAIN page : ParentOf(page, n) \in 0..(n - 1) /\ (ParentOf(page, n) = 0 <=> n = 1)
    BY <1>1 DEF IsElement
  <1> QED
    BY <1>1, <1>2, <1>3, <1>4

\* The lineage of an element is that of its parent and itself.
LEMMA LineageIs ==
    ASSUME NEW page, IsPage(page)
    PROVE  /\ Lineage(page, 0) = {}
           /\ \A n \in DOMAIN page : Lineage(page, n) = Lineage(page, ParentOf(page, n)) \cup {n}
           /\ \A n \in 0..Len(page) : Lineage(page, n) \subseteq 1..n
  <1> DEFINE N == Len(page)
             S == SUBSET Nat
             up == [m \in 1..N |-> ParentOf(page, m)]
             step == [m \in 1..N |-> [X \in S |-> X \cup {m}]]
  <1>1. N \in Nat /\ DOMAIN page = 1..N /\ \A m \in 1..N : ParentOf(page, m) \in 0..(m - 1)
    BY PageIs
  <1> HIDE DEF N
  <1>2. GoesUp(S, N, up, step, {})
    <2>1. up \in [1..N -> Nat] /\ \A i \in 1..N : up[i] < i
      BY <1>1
    <2>2. step \in [1..N -> [S -> S]]
      <3>1. \A m \in 1..N, X \in S : X \cup {m} \in S
        BY <1>1
      <3> HIDE DEF S
      <3> QED
        BY <3>1
    <2>3. {} \in S
      OBVIOUS
    <2> HIDE DEF S, up, step
    <2> QED
      BY <1>1, <2>1, <2>2, <2>3 DEF GoesUp
  <1>3. PICK f : f \in DescentsOf(S, N, up, step, {})
    <2> DEFINE base == {}
    <2>1. GoesUp(S, N, up, step, base) /\ DescentsOf(S, N, up, step, base) = DescentsOf(S, N, up, step, {})
      BY <1>2
    <2> HIDE DEF S, up, step, base
    <2>2. DescentsOf(S, N, up, step, base) # {}
      BY <2>1, DescentExists
    <2> QED
      BY <2>1, <2>2
  <1>4. f \in [0..N -> S] /\ f[0] = {} /\ \A i \in 1..N : f[i] = step[i][f[up[i]]]
    BY <1>3 DEF DescentsOf
  <1>5. \A i \in 1..N : f[i] = f[ParentOf(page, i)] \cup {i}
    <2> SUFFICES ASSUME NEW i \in 1..N
                 PROVE  f[i] = f[ParentOf(page, i)] \cup {i}
      OBVIOUS
    <2>1. ParentOf(page, i) \in 0..N
      BY <1>1
    <2>2. f[ParentOf(page, i)] \in S
      BY <1>4, <2>1
    <2> HIDE DEF S
    <2> QED
      BY <1>4, <2>2
  <1>6. ASSUME NEW n \in 0..N
        PROVE  Lineage(page, n) = f[n]
    <2> DEFINE Is(g) == g = [m \in 0..n |-> IF m = 0 THEN {} ELSE g[ParentOf(page, m)] \cup {m}]
               lineage == CHOOSE g : Is(g)
               h == [m \in 0..n |-> f[m]]
    <2>1. Lineage(page, n) = lineage[n]
      BY DEF Lineage
    <2>2. n \in Nat /\ n <= N
      BY <1>1
    <2>3. \A m \in 0..n : h[m] = IF m = 0 THEN {} ELSE h[ParentOf(page, m)] \cup {m}
      <3> SUFFICES ASSUME NEW m \in 0..n
                   PROVE  h[m] = IF m = 0 THEN {} ELSE h[ParentOf(page, m)] \cup {m}
        OBVIOUS
      <3>1. CASE m = 0
        BY <1>4, <3>1
      <3>2. CASE m # 0
        <4>1. m \in 1..N /\ ParentOf(page, m) \in 0..n
          <5>1. m \in 1..N
            BY <1>1, <2>2, <3>2
          <5>2. ParentOf(page, m) \in 0..(m - 1)
            BY <1>1, <5>1
          <5> QED
            BY <2>2, <5>1, <5>2
        <4> QED
          BY <1>5, <3>2, <4>1
      <3> QED
        BY <3>1, <3>2
    <2>4. Is(h)
      <3>1. h = [m \in 0..n |-> h[m]]
        OBVIOUS
      <3> HIDE DEF h
      <3> QED
        BY <2>3, <3>1
    <2>5. Is(lineage)
      <3> HIDE DEF Is, h
      <3> QED
        BY <2>4
    <2> HIDE DEF lineage
    <2>6. \A m \in 0..n : lineage[m] = IF m = 0 THEN {} ELSE lineage[ParentOf(page, m)] \cup {m}
      <3>1. lineage = [m \in 0..n |-> IF m = 0 THEN {} ELSE lineage[ParentOf(page, m)] \cup {m}]
        BY <2>5
      <3> HIDE DEF Is
      <3> QED
        BY <3>1
    <2> HIDE DEF Is, h
    <2>7. GoesUpTo(lineage, S, n, up, step, {})
      <3>1. 0 \in 0..n /\ \A i \in 1..n : i \in 0..n /\ i # 0 /\ i \in 1..N
        BY <1>1, <2>2
      <3>2. lineage[0] = {}
        BY <2>6, <3>1
      <3>3. ASSUME NEW i \in 1..n, lineage[up[i]] \in S
            PROVE  lineage[i] = step[i][lineage[up[i]]]
        <4>1. i \in 1..N /\ lineage[i] = lineage[ParentOf(page, i)] \cup {i}
          BY <2>6, <3>1
        <4>2. up[i] = ParentOf(page, i)
          BY <4>1
        <4> HIDE DEF S, up
        <4> QED
          BY <3>3, <4>1, <4>2
      <3> HIDE DEF S, up, step
      <3> QED
        BY <3>2, <3>3 DEF GoesUpTo
    <2> DEFINE base == {}
    <2>8. /\ GoesUp(S, N, up, step, base) /\ f \in DescentsOf(S, N, up, step, base)
          /\ GoesUpTo(lineage, S, n, up, step, base)
      BY <1>2, <1>3, <2>7
    <2> HIDE DEF S, up, step, base
    <2>9. \A i \in 0..n : lineage[i] = f[i]
      BY <2>8, DescentIs
    <2>10. n \in 0..n
      BY <2>2
    <2> QED
      BY <2>1, <2>9, <2>10
  <1> HIDE DEF S, up, step
  <1>a. 0 \in 0..N
    BY <1>1
  <1>7. Lineage(page, 0) = {}
    BY <1>4, <1>6, <1>a
  <1>8. ASSUME NEW n \in 1..N
        PROVE  Lineage(page, n) = Lineage(page, ParentOf(page, n)) \cup {n}
    <2>1. n \in 0..N /\ ParentOf(page, n) \in 0..N
      BY <1>1
    <2> QED
      BY <1>5, <1>6, <2>1
  <1>9. \A n \in 0..N : Lineage(page, n) \subseteq 1..n
    <2> DEFINE K == {k \in 0..N : \A n \in 0..k : Lineage(page, n) \subseteq 1..n}
    <2>1. 0 \in K
      BY <1>7, <1>a
    <2>2. ASSUME NEW k \in 0..(N - 1), k \in K
          PROVE  k + 1 \in K
      <3>1. k + 1 \in 1..N /\ k + 1 \in 0..N /\ k \in Nat
        BY <1>1
      <3>2. ParentOf(page, k + 1) \in 0..k
        <4>1. ParentOf(page, k + 1) \in 0..(k + 1 - 1)
          BY <1>1, <3>1
        <4> QED
          BY <3>1, <4>1
      <3>3. Lineage(page, ParentOf(page, k + 1)) \subseteq 1..ParentOf(page, k + 1)
        BY <2>2, <3>2
      <3>4. Lineage(page, k + 1) \subseteq 1..(k + 1)
        <4>1. 1..ParentOf(page, k + 1) \subseteq 1..(k + 1) /\ k + 1 \in 1..(k + 1)
          BY <3>1, <3>2
        <4> QED
          BY <1>8, <3>1, <3>3, <4>1
      <3>5. \A n \in 0..(k + 1) : n = k + 1 \/ n \in 0..k
        BY <3>1
      <3> QED
        BY <2>2, <3>1, <3>4, <3>5
    <2> HIDE DEF K
    <2>3. 0..N \subseteq K
      BY <1>1, <2>1, <2>2, UpTo
    <2>4. N \in K
      BY <1>1, <2>3
    <2> QED
      BY <2>4 DEF K
  <1> QED
    BY <1>1, <1>7, <1>8, <1>9 DEF N

LEMMA LineageGrows ==
    ASSUME NEW page, IsPage(page), NEW n \in 0..Len(page), NEW m \in Lineage(page, n)
    PROVE  m \in DOMAIN page /\ Lineage(page, m) \subseteq Lineage(page, n)
  <1> DEFINE N == Len(page)
             Grows(k) == \A x \in Lineage(page, k) : Lineage(page, x) \subseteq Lineage(page, k)
             K == {k \in 0..N : \A j \in 0..k : Grows(j)}
  <1>1. N \in Nat /\ DOMAIN page = 1..N /\ \A k \in 1..N : ParentOf(page, k) \in 0..(k - 1)
    BY PageIs
  <1>2. /\ Lineage(page, 0) = {}
        /\ \A k \in 1..N : Lineage(page, k) = Lineage(page, ParentOf(page, k)) \cup {k}
        /\ \A k \in 0..N : Lineage(page, k) \subseteq 1..k
    BY <1>1, LineageIs
  <1> HIDE DEF N
  <1>3. 0 \in K
    BY <1>1, <1>2
  <1>4. ASSUME NEW k \in 0..(N - 1), k \in K
        PROVE  k + 1 \in K
    <2>1. k + 1 \in 1..N /\ k + 1 \in 0..N /\ k \in Nat
      BY <1>1
    <2>2. ParentOf(page, k + 1) \in 0..k
      <3>1. ParentOf(page, k + 1) \in 0..(k + 1 - 1)
        BY <1>1, <2>1
      <3> QED
        BY <2>1, <3>1
    <2>3. Grows(ParentOf(page, k + 1))
      BY <1>4, <2>2
    <2>4. Lineage(page, k + 1) = Lineage(page, ParentOf(page, k + 1)) \cup {k + 1}
      BY <1>2, <2>1
    <2>5. Grows(k + 1)
      BY <2>3, <2>4
    <2>6. \A j \in 0..(k + 1) : j = k + 1 \/ j \in 0..k
      BY <2>1
    <2>7. \A j \in 0..k : Grows(j)
      BY <1>4
    <2> HIDE DEF Grows
    <2> QED
      BY <2>1, <2>5, <2>6, <2>7
  <1> HIDE DEF K
  <1>5. 0..N \subseteq K
    BY <1>1, <1>3, <1>4, UpTo
  <1>6. n \in 0..N /\ n \in 0..n
    BY <1>1 DEF N
  <1>7. Grows(n)
    <2>1. n \in K
      BY <1>5, <1>6
    <2> HIDE DEF Grows
    <2> QED
      BY <1>6, <2>1 DEF K
  <1>8. m \in 1..N
    BY <1>1, <1>2, <1>6
  <1> QED
    BY <1>1, <1>7, <1>8

\* In document order, what lies between an element and what is in it is in it too.
LEMMA BetweenIsInside ==
    ASSUME NEW page, IsPage(page), NEW n \in DOMAIN page, NEW p \in Lineage(page, n), NEW x \in p..n
    PROVE  p \in Lineage(page, x)
  <1> DEFINE N == Len(page)
             K == {d \in 0..(n - p) : p \in Lineage(page, n - d)}
  <1>1. N \in Nat /\ DOMAIN page = 1..N /\ n \in 1..N
    BY PageIs
  <1>2. /\ \A k \in 1..N : Lineage(page, k) = Lineage(page, ParentOf(page, k)) \cup {k}
        /\ \A k \in 0..N : Lineage(page, k) \subseteq 1..k
    BY <1>1, LineageIs
  <1>3. p \in 1..n /\ n - p \in Nat
    BY <1>1, <1>2
  <1>4. 0 \in K
    BY <1>1, <1>3
  <1>5. ASSUME NEW d \in 0..(n - p - 1), d \in K
        PROVE  d + 1 \in K
    <2> DEFINE y == n - d
    <2>1. y \in 1..N /\ y > 1 /\ y > p /\ y - 1 \in 1..N /\ n - (d + 1) = y - 1 /\ d + 1 \in 0..(n - p)
      BY <1>1, <1>3, SMTT(30)
    <2>2. p \in Lineage(page, y)
      BY <1>5
    <2> HIDE DEF y
    <2>3. p \in Lineage(page, ParentOf(page, y))
      BY <1>2, <2>1, <2>2
    <2>4. ParentOf(page, y) \in Lineage(page, y - 1)
      <3>1. IsElement(page, y)
        BY <1>1, <2>1, PageIs
      <3> QED
        BY <2>1, <3>1 DEF IsElement
    <2>5. y - 1 \in 0..N
      BY <2>1
    <2>6. Lineage(page, ParentOf(page, y)) \subseteq Lineage(page, y - 1)
      BY <2>4, <2>5, LineageGrows DEF N
    <2> QED
      BY <2>1, <2>3, <2>6
  <1> HIDE DEF K
  <1>6. 0..(n - p) \subseteq K
    BY <1>3, <1>4, <1>5, UpTo
  <1>7. n - x \in 0..(n - p) /\ n - (n - x) = x
    BY <1>1, <1>3
  <1> QED
    BY <1>6, <1>7 DEF K

----------------------------------------------------------------------------
(* What a selector selects *)

NextMatches(page, X, part) == {m \in DOMAIN page : PartMatches(page, m, part) /\ ParentOf(page, m) \in X}
MatchesOf(page, selector) ==
    {f \in [0..Len(selector) -> SUBSET (0..Len(page))] :
        /\ f[0] = 0..Len(page)
        /\ \A i \in 1..Len(selector) : f[i] = NextMatches(page, f[i - 1], selector[i])}

LEMMA MatchesExist ==
    ASSUME NEW page, IsPage(page), NEW Parts, NEW selector \in Seq(Parts)
    PROVE  \E f \in MatchesOf(page, selector) : \A n : Selects(page, selector, n) <=> n \in f[Len(selector)]
  <1> DEFINE L == Len(selector)
             N == Len(page)
             S == SUBSET (0..N)
             base == 0..N
             step == [i \in 1..L |-> [X \in S |-> NextMatches(page, X, selector[i])]]
             Is(f) == f = [i \in 0..L |->
                             IF i = 0 THEN 0..N
                             ELSE {m \in DOMAIN page : PartMatches(page, m, selector[i]) /\ ParentOf(page, m) \in f[i - 1]}]
             matched == CHOOSE f : Is(f)
  <1>1. L \in Nat /\ N \in Nat /\ DOMAIN page = 1..N
    BY PageIs
  <1>2. \A n : Selects(page, selector, n) <=> n \in matched[L]
    BY DEF Selects
  <1> HIDE DEF L, N
  <1>3. \A X, part : NextMatches(page, X, part) \in S
    BY <1>1 DEF NextMatches
  <1>4. step \in [1..L -> [S -> S]] /\ base \in S
    <2>1. base \in S
      OBVIOUS
    <2> HIDE DEF S, base
    <2> QED
      BY <1>3, <2>1
  <1> HIDE DEF base
  <1>5. PICK f : f \in RecursionsOf(S, L, step, base)
    <2> HIDE DEF S, step
    <2>1. RecursionsOf(S, L, step, base) # {}
      BY <1>1, <1>4, RecursionExists
    <2> QED
      BY <2>1
  <1>6. f \in [0..L -> S] /\ f[0] = base /\ \A i \in 1..L : f[i] = step[i][f[i - 1]]
    BY <1>5 DEF RecursionsOf
  <1>7. \A i \in 1..L : f[i] = NextMatches(page, f[i - 1], selector[i])
    <2> SUFFICES ASSUME NEW i \in 1..L
                 PROVE  f[i] = NextMatches(page, f[i - 1], selector[i])
      OBVIOUS
    <2>1. f[i - 1] \in S
      BY <1>1, <1>6
    <2> HIDE DEF S
    <2> QED
      BY <1>6, <2>1
  <1>8. Is(f)
    <2> DEFINE g == [i \in 0..L |-> IF i = 0 THEN base ELSE NextMatches(page, f[i - 1], selector[i])]
    <2>1. f = g
      <3>1. f = [i \in 0..L |-> f[i]]
        BY <1>6
      <3>2. \A i \in 0..L : f[i] = IF i = 0 THEN base ELSE NextMatches(page, f[i - 1], selector[i])
        <4>1. \A i \in 0..L : i # 0 => i \in 1..L
          BY <1>1
        <4> QED
          BY <1>6, <1>7, <4>1
      <3> QED
        BY <3>1, <3>2
    <2>2. Is(f) <=> f = g
      BY DEF NextMatches, base
    <2> QED
      BY <2>1, <2>2
  <1>9. Is(matched)
    <2> HIDE DEF Is
    <2> QED
      BY <1>8
  <1> HIDE DEF matched, step
  <1>10. matched = [i \in 0..L |-> IF i = 0 THEN base ELSE NextMatches(page, matched[i - 1], selector[i])]
    BY <1>9 DEF NextMatches, base
  <1> HIDE DEF Is, S
  <1>11. /\ matched[0] = base /\ DOMAIN matched = 0..L
         /\ \A i \in 1..L : matched[i] = NextMatches(page, matched[i - 1], selector[i])
    <2>1. 0 \in 0..L /\ \A i \in 1..L : i \in 0..L /\ i # 0
      BY <1>1
    <2> QED
      BY <1>10, <2>1
  <1>12. matched \in [0..L -> S]
    <2>1. \A i \in 0..L : (IF i = 0 THEN base ELSE NextMatches(page, matched[i - 1], selector[i])) \in S
      BY <1>3, <1>4
    <2> QED
      BY <1>10, <2>1
  <1>13. matched \in MatchesOf(page, selector)
    BY <1>11, <1>12 DEF MatchesOf, S, base, L, N
  <1> QED
    BY <1>2, <1>13 DEF L

LEMMA SelectsNothing ==
    ASSUME NEW page, IsPage(page), NEW n
    PROVE  Selects(page, <<>>, n) <=> n \in 0..Len(page)
  <1> DEFINE selector == <<>>
  <1>1. selector \in Seq({}) /\ Len(selector) = 0
    OBVIOUS
  <1> HIDE DEF selector
  <1>2. PICK f \in MatchesOf(page, selector) : \A m : Selects(page, selector, m) <=> m \in f[Len(selector)]
    BY <1>1, MatchesExist
  <1>3. f[0] = 0..Len(page)
    BY DEF MatchesOf
  <1> QED
    BY <1>1, <1>2, <1>3 DEF selector

\* One part more: a child, that matches it, of what was selected.
LEMMA SelectsMore ==
    ASSUME NEW page, IsPage(page), NEW Parts, NEW selector \in Seq(Parts), NEW part \in Parts, NEW n
    PROVE  Selects(page, Append(selector, part), n)
              <=> n \in DOMAIN page /\ PartMatches(page, n, part) /\ Selects(page, selector, ParentOf(page, n))
  <1> DEFINE more == Append(selector, part)
             L == Len(selector)
  <1>1. /\ more \in Seq(Parts) /\ Len(more) = L + 1 /\ L \in Nat /\ more[L + 1] = part
        /\ \A i \in 1..L : more[i] = selector[i]
    BY AppendIs
  <1> HIDE DEF more, L
  <1>2. PICK f \in MatchesOf(page, selector) : \A m : Selects(page, selector, m) <=> m \in f[L]
    BY MatchesExist DEF L
  <1>3. PICK g \in MatchesOf(page, more) : \A m : Selects(page, more, m) <=> m \in g[L + 1]
    BY <1>1, MatchesExist
  <1>4. /\ f[0] = 0..Len(page) /\ \A i \in 1..L : f[i] = NextMatches(page, f[i - 1], selector[i])
        /\ g[0] = 0..Len(page) /\ \A i \in 1..(L + 1) : g[i] = NextMatches(page, g[i - 1], more[i])
    BY <1>1 DEF MatchesOf, L
  <1> DEFINE T == {i \in 0..L : g[i] = f[i]}
  <1>5. 0 \in T
    BY <1>1, <1>4
  <1>6. ASSUME NEW i \in 0..(L - 1), i \in T
        PROVE  i + 1 \in T
    <2>1. i + 1 \in 1..L /\ i + 1 \in 1..(L + 1) /\ i + 1 - 1 = i /\ i + 1 \in 0..L
      BY <1>1
    <2>2. f[i + 1] = NextMatches(page, f[i], selector[i + 1]) /\ g[i + 1] = NextMatches(page, g[i], more[i + 1])
      BY <1>4, <2>1
    <2> QED
      BY <1>1, <1>6, <2>1, <2>2
  <1> HIDE DEF T
  <1>7. g[L] = f[L]
    <2>1. 0..L \subseteq T
      BY <1>1, <1>5, <1>6, UpTo
    <2>2. L \in 0..L
      BY <1>1
    <2> QED
      BY <2>1, <2>2 DEF T
  <1>8. g[L + 1] = NextMatches(page, f[L], part)
    <2>1. L + 1 \in 1..(L + 1) /\ L + 1 - 1 = L
      BY <1>1
    <2> QED
      BY <1>1, <1>4, <1>7, <2>1
  <1> QED
    BY <1>2, <1>3, <1>8 DEF NextMatches, more

----------------------------------------------------------------------------
(* The parts of a selector made up for an element *)

\* The siblings of its tag before an element.
Earlier(page, n) == {m \in Siblings(page, n) : m < n /\ page[m].tag = page[n].tag}
Rank(page, n) == Cardinality(Earlier(page, n))

LEMMA RankIs ==
    ASSUME NEW page, IsPage(page), NEW n \in DOMAIN page
    PROVE  /\ IsFiniteSet(Earlier(page, n)) /\ Rank(page, n) \in Nat
           /\ n # 1 => /\ NthOfTypeIndex(page, n) = Rank(page, n) + 1
                       /\ Siblings(page, n) = Children(page, ParentOf(page, n)) \ {n}
                       /\ n \in Children(page, ParentOf(page, n))
  <1>1. /\ Len(page) \in Nat /\ DOMAIN page = 1..Len(page)
        /\ ParentOf(page, n) = 0 <=> n = 1
    BY PageIs
  <1>2. Earlier(page, n) \subseteq 1..Len(page)
    BY <1>1 DEF Earlier, Siblings, Children
  <1>3. IsFiniteSet(1..Len(page))
    <2>1. 1 \in Int /\ Len(page) \in Int
      BY <1>1
    <2> QED
      BY <2>1, FS_Interval
  <1>4. IsFiniteSet(Earlier(page, n)) /\ Rank(page, n) \in Nat
    <2>1. IsFiniteSet(Earlier(page, n))
      BY <1>2, <1>3, FS_Subset
    <2> QED
      BY <2>1, FS_CardinalityType DEF Rank
  <1>5. ASSUME n # 1
        PROVE  /\ NthOfTypeIndex(page, n) = Rank(page, n) + 1
               /\ Siblings(page, n) = Children(page, ParentOf(page, n)) \ {n}
               /\ n \in Children(page, ParentOf(page, n))
    <2>1. Siblings(page, n) = Children(page, ParentOf(page, n)) \ {n}
      BY <1>1, <1>5 DEF Siblings
    <2>2. n \in Children(page, ParentOf(page, n))
      BY DEF Children, ParentOf
    <2> DEFINE all == {m \in Children(page, ParentOf(page, n)) : m <= n /\ page[m].tag = page[n].tag}
    <2>3. all = Earlier(page, n) \cup {n} /\ n \notin Earlier(page, n)
      <3>1. \A m \in Children(page, ParentOf(page, n)) : m \in 1..Len(page)
        BY <1>1 DEF Children
      <3> QED
        BY <1>1, <2>1, <2>2, <3>1 DEF Earlier
    <2>4. Cardinality(all) = Cardinality(Earlier(page, n)) + 1
      <3> HIDE DEF all
      <3> QED
        BY <1>4, <2>3, FS_AddElement
    <2> QED
      BY <2>1, <2>2, <2>4 DEF NthOfTypeIndex, Rank
  <1> QED
    BY <1>4, <1>5

\* Of two children of one tag the later has more of them before it.
LEMMA RanksDiffer ==
    ASSUME NEW page, IsPage(page), NEW n \in DOMAIN page, NEW m \in DOMAIN page,
           ParentOf(page, m) = ParentOf(page, n), page[m].tag = page[n].tag, m < n, m # 1
    PROVE  Rank(page, m) < Rank(page, n)
  <1>1. n # 1
    BY PageIs
  <1>2. /\ Siblings(page, n) = Children(page, ParentOf(page, n)) \ {n}
        /\ Siblings(page, m) = Children(page, ParentOf(page, n)) \ {m}
        /\ m \in Children(page, ParentOf(page, n))
        /\ IsFiniteSet(Earlier(page, m)) /\ IsFiniteSet(Earlier(page, n))
        /\ Rank(page, m) \in Nat /\ Rank(page, n) \in Nat
    BY <1>1, RankIs
  <1>3. Earlier(page, m) \cup {m} \subseteq Earlier(page, n) /\ m \notin Earlier(page, m)
    <2>1. \A x \in DOMAIN page : x \in Int
      BY PageIs
    <2>2. \A x \in Children(page, ParentOf(page, n)) : x \in DOMAIN page
      BY DEF Children
    <2> QED
      BY <1>2, <2>1, <2>2 DEF Earlier
  <1>4. Cardinality(Earlier(page, m) \cup {m}) = Rank(page, m) + 1
    BY <1>2, <1>3, FS_AddElement DEF Rank
  <1>5. Cardinality(Earlier(page, m) \cup {m}) <= Rank(page, n)
    BY <1>2, <1>3, FS_Subset DEF Rank
  <1> QED
    BY <1>2, <1>4, <1>5

PartFor(page, n) == IF page[n].id # "" THEN SelectorIDPart(page, n) ELSE SelectorTagPart(page, n)
PartsOf(page) == {PartFor(page, n) : n \in DOMAIN page}
\* The part of an element comes first in the selector made up for it.
IsFirst(page, n, fullPath) == (page[n].id # "" /\ ~fullPath) \/ ParentOf(page, n) = 1
\* From the selector of its parent to that of an element.
LongerBy(page, n, fullPath, selector) ==
    IF n = 1 THEN <<>> ELSE IF IsFirst(page, n, fullPath) THEN <<PartFor(page, n)>>
    ELSE Append(selector, PartFor(page, n))

LEMMA SelectorGoesUp ==
    ASSUME NEW page, IsPage(page), NEW fullPath \in BOOLEAN
    PROVE  \A n \in DOMAIN page :
              /\ GeneralSelector(page, n, fullPath) \in Seq(PartsOf(page))
              /\ n # 1 => GeneralSelector(page, n, fullPath) =
                             LongerBy(page, n, fullPath, GeneralSelector(page, ParentOf(page, n), fullPath))
  <1> DEFINE N == Len(page)
             S == Seq(PartsOf(page))
             base == <<>>
             next(m, v) == LongerBy(page, m, fullPath, v)
             up == [m \in 1..N |-> ParentOf(page, m)]
             step == [m \in 1..N |-> [v \in S |-> next(m, v)]]
  <1>1. /\ N \in Nat /\ DOMAIN page = 1..N
        /\ \A m \in 1..N : ParentOf(page, m) \in 0..(m - 1) /\ (ParentOf(page, m) = 0 <=> m = 1)
    BY PageIs
  <1> HIDE DEF N
  <1>2. \A m \in 1..N, v \in S : next(m, v) \in S
    <2> SUFFICES ASSUME NEW m \in 1..N, NEW v \in S
                 PROVE  next(m, v) \in S
      OBVIOUS
    <2> DEFINE part == PartFor(page, m)
               P == PartsOf(page)
    <2>1. part \in P
      BY <1>1 DEF PartsOf
    <2> HIDE DEF part, P
    <2>2. <<>> \in Seq(P) /\ <<part>> \in Seq(P) /\ \A w \in Seq(P) : Append(w, part) \in Seq(P)
      BY <2>1
    <2> QED
      BY <2>2 DEF LongerBy, part, P
  <1>3. base \in S
    OBVIOUS
  <1> HIDE DEF base
  <1>4. GoesUp(S, N, up, step, base)
    <2>1. up \in [1..N -> Nat] /\ \A i \in 1..N : up[i] < i
      BY <1>1
    <2>2. step \in [1..N -> [S -> S]]
      <3> HIDE DEF S, next
      <3> QED
        BY <1>2
    <2> HIDE DEF S, up, step
    <2> QED
      BY <1>1, <1>3, <2>1, <2>2 DEF GoesUp
  <1> HIDE DEF next
  <1>5. PICK f : f \in DescentsOf(S, N, up, step, base)
    <2> HIDE DEF S, up, step
    <2>1. DescentsOf(S, N, up, step, base) # {}
      BY <1>4, DescentExists
    <2> QED
      BY <2>1
  <1>6. f \in [0..N -> S] /\ f[0] = base /\ \A i \in 1..N : f[i] = step[i][f[up[i]]]
    BY <1>5 DEF DescentsOf
  <1>7. \A i \in 1..N : f[i] = next(i, f[ParentOf(page, i)])
    <2> SUFFICES ASSUME NEW i \in 1..N
                 PROVE  f[i] = next(i, f[ParentOf(page, i)])
      OBVIOUS
    <2>1. ParentOf(page, i) \in 0..N
      BY <1>1
    <2>2. f[ParentOf(page, i)] \in S
      BY <1>6, <2>1
    <2> HIDE DEF S
    <2> QED
      BY <1>6, <2>2
  <1>8. ASSUME NEW n \in 0..N
        PROVE  GeneralSelector(page, n, fullPath) = f[n]
    <2> DEFINE climb(g, m) ==
                  IF m = 0 \/ ParentOf(page, m) = 0 THEN <<>>
                  ELSE IF page[m].id # "" /\ ~fullPath THEN <<SelectorIDPart(page, m)>>
                  ELSE LET part == IF page[m].id # "" THEN SelectorIDPart(page, m) ELSE SelectorTagPart(page, m)
                       IN  IF TagOf(page, ParentOf(page, m)) = "html" THEN <<part>>
                           ELSE Append(g[ParentOf(page, m)], part)
               Is(g) == g = [m \in 0..n |-> climb(g, m)]
               selector == CHOOSE g : Is(g)
               h == [m \in 0..n |-> f[m]]
    <2>1. GeneralSelector(page, n, fullPath) = selector[n]
      BY DEF GeneralSelector
    <2>2. n \in Nat /\ n <= N
      BY <1>1
    <2>3. ASSUME NEW g, NEW m \in 1..N
          PROVE  climb(g, m) = next(m, g[ParentOf(page, m)])
      <3>1. CASE m = 1
        BY <1>1, <3>1 DEF next, LongerBy
      <3>2. CASE m # 1
        <4> DEFINE short == g[ParentOf(page, m)]
                   part == PartFor(page, m)
                   more == Append(short, part)
        <4>1. m # 0 /\ ParentOf(page, m) # 0 /\ ParentOf(page, m) \in DOMAIN page
          BY <1>1, <3>2
        <4>2. TagOf(page, ParentOf(page, m)) = "html" <=> ParentOf(page, m) = 1
          <5>1. IsElement(page, ParentOf(page, m))
            BY <4>1, PageIs
          <5> QED
            BY <4>1, <5>1 DEF IsElement, TagOf
        <4>3. climb(g, m) = IF page[m].id # "" /\ ~fullPath THEN <<SelectorIDPart(page, m)>>
                            ELSE IF ParentOf(page, m) = 1 THEN <<part>> ELSE more
          BY <4>1, <4>2 DEF PartFor
        <4>4. page[m].id # "" => <<SelectorIDPart(page, m)>> = <<part>>
          BY DEF PartFor
        <4>5. next(m, short) = IF IsFirst(page, m, fullPath) THEN <<part>> ELSE more
          BY <3>2 DEF next, LongerBy
        <4> HIDE DEF short, part, more, climb
        <4>6. climb(g, m) = next(m, short)
          <5>1. CASE page[m].id # "" /\ ~fullPath
            BY <4>3, <4>4, <4>5, <5>1, Zenon DEF IsFirst
          <5>2. CASE ~(page[m].id # "" /\ ~fullPath)
            <6>1. IsFirst(page, m, fullPath) <=> ParentOf(page, m) = 1
              BY <5>2, Zenon DEF IsFirst
            <6>2. climb(g, m) = IF ParentOf(page, m) = 1 THEN <<part>> ELSE more
              BY <4>3, <5>2, Zenon
            <6> QED
              BY <4>5, <6>1, <6>2
          <5> QED
            BY <5>1, <5>2
        <4> QED
          BY <4>6 DEF short
      <3> QED
        BY <3>1, <3>2
    <2>4. \A g : climb(g, 0) = base
      BY DEF base
    <2> HIDE DEF climb
    <2>5. \A m \in 0..n : h[m] = climb(h, m)
      <3> SUFFICES ASSUME NEW m \in 0..n
                   PROVE  h[m] = climb(h, m)
        OBVIOUS
      <3>1. CASE m = 0
        BY <1>6, <2>4, <3>1
      <3>2. CASE m # 0
        <4>1. m \in 1..N /\ ParentOf(page, m) \in 0..n
          <5>1. m \in 1..N
            BY <1>1, <2>2, <3>2
          <5>2. ParentOf(page, m) \in 0..(m - 1)
            BY <1>1, <5>1
          <5> QED
            BY <2>2, <5>1, <5>2
        <4>2. h[ParentOf(page, m)] = f[ParentOf(page, m)] /\ h[m] = f[m]
          BY <4>1
        <4> HIDE DEF h
        <4> QED
          BY <1>7, <2>3, <4>1, <4>2
      <3> QED
        BY <3>1, <3>2
    <2>6. Is(h)
      <3>1. h = [m \in 0..n |-> h[m]]
        OBVIOUS
      <3> HIDE DEF h
      <3> QED
        BY <2>5, <3>1
    <2>7. Is(selector)
      <3> HIDE DEF Is, h
      <3> QED
        BY <2>6
    <2> HIDE DEF selector
    <2>8. \A m \in 0..n : selector[m] = climb(selector, m)
      <3>1. selector = [m \in 0..n |-> climb(selector, m)]
        BY <2>7
      <3> HIDE DEF Is
      <3> QED
        BY <3>1
    <2> HIDE DEF Is, h
    <2>9. GoesUpTo(selector, S, n, up, step, base)
      <3>1. 0 \in 0..n /\ \A i \in 1..n : i \in 0..n /\ i \in 1..N
        BY <1>1, <2>2
      <3>2. selector[0] = base
        BY <2>4, <2>8, <3>1
      <3>3. ASSUME NEW i \in 1..n, selector[up[i]] \in S
            PROVE  selector[i] = step[i][selector[up[i]]]
        <4>1. i \in 1..N /\ selector[i] = next(i, selector[ParentOf(page, i)])
          BY <2>3, <2>8, <3>1
        <4>2. up[i] = ParentOf(page, i)
          BY <4>1
        <4> HIDE DEF S, up
        <4> QED
          BY <3>3, <4>1, <4>2
      <3> HIDE DEF S, up, step
      <3> QED
        BY <3>2, <3>3 DEF GoesUpTo
    <2> HIDE DEF S, up, step
    <2>10. \A i \in 0..n : selector[i] = f[i]
      BY <1>4, <1>5, <2>9, DescentIs
    <2>11. n \in 0..n
      BY <2>2
    <2> QED
      BY <2>1, <2>10, <2>11
  <1> HIDE DEF up, step
  <1> SUFFICES ASSUME NEW n \in 1..N
               PROVE  /\ GeneralSelector(page, n, fullPath) \in S
                      /\ GeneralSelector(page, n, fullPath) =
                            next(n, GeneralSelector(page, ParentOf(page, n), fullPath))
    BY <1>1 DEF next
  <1>9. n \in 0..N /\ ParentOf(page, n) \in 0..N
    BY <1>1
  <1> HIDE DEF S
  <1> QED
    BY <1>6, <1>7, <1>8, <1>9

LEMMA PartMatchesIs ==
    ASSUME NEW page, NEW n, NEW part
    PROVE  PartMatches(page, n, part) <=> /\ part.id \in {"", page[n].id} /\ part.tag \in {"", page[n].tag}
                                          /\ part.index \in {0, Rank(page, n) + 1}
  BY DEF PartMatches, Rank, Earlier

LEMMA PartMatchesItself ==
    ASSUME NEW page, IsPage(page), NEW n \in DOMAIN page, n # 1
    PROVE  PartMatches(page, n, PartFor(page, n))
  <1>1. NthOfTypeIndex(page, n) = Rank(page, n) + 1 /\ Rank(page, n) \in Nat
    BY RankIs
  <1> DEFINE part == PartFor(page, n)
  <1>2. /\ part.id \in {"", page[n].id} /\ part.tag \in {"", page[n].tag}
        /\ part.index \in {0, Rank(page, n) + 1}
    BY <1>1 DEF PartFor, SelectorIDPart, SelectorTagPart
  <1> HIDE DEF part
  <1>3. PartMatches(page, n, part)
    BY <1>2, PartMatchesIs
  <1> QED
    BY <1>3 DEF part

\* Where the part of an element matches another, they have one tag and as many before them.
LEMMA PartTells ==
    ASSUME NEW page, IsPage(page), NEW n \in DOMAIN page, NEW m \in DOMAIN page, n # 1, m # n,
           PartMatches(page, m, PartFor(page, n))
    PROVE  /\ page[n].id = "" /\ page[m].tag = page[n].tag
           /\ Rank(page, n) = 0 \/ Rank(page, n) = Rank(page, m)
  <1> DEFINE part == PartFor(page, n)
  <1>1. NthOfTypeIndex(page, n) = Rank(page, n) + 1 /\ Rank(page, n) \in Nat /\ Rank(page, m) \in Nat
    BY RankIs
  <1>2. page[n].tag # "" /\ (page[n].id # "" => page[m].id # page[n].id)
    <2>1. IsElement(page, n)
      BY PageIs
    <2> QED
      BY <2>1 DEF IsElement
  <1>3. /\ part.id \in {"", page[m].id} /\ part.tag \in {"", page[m].tag}
        /\ part.index \in {0, Rank(page, m) + 1}
    <2> HIDE DEF part
    <2>1. PartMatches(page, m, part)
      BY DEF part
    <2> QED
      BY <2>1, PartMatchesIs
  <1>4. CASE page[n].id # ""
    BY <1>2, <1>3, <1>4 DEF PartFor, SelectorIDPart
  <1>5. CASE page[n].id = ""
    <2>1. part = SelectorTagPart(page, n)
      BY <1>5 DEF PartFor
    <2> DEFINE r == Rank(page, n)
               s == Rank(page, m)
               index == NthOfTypeIndex(page, n)
    <2>2. part.tag = page[n].tag /\ part.index = IF index <= 1 THEN 0 ELSE index
      <3> DEFINE i == IF index <= 1 THEN 0 ELSE index
      <3>1. part = [id |-> "", tag |-> page[n].tag, index |-> i]
        BY <2>1, Zenon DEF SelectorTagPart
      <3> HIDE DEF part, i
      <3>2. part.tag = page[n].tag /\ part.index = i
        BY <3>1
      <3> QED
        BY <3>2 DEF i
    <2>3. index = r + 1 /\ r \in Nat /\ s \in Nat /\ part.index \in {0, s + 1}
      BY <1>1, <1>3
    <2> HIDE DEF part, r, s, index
    <2>4. page[m].tag = page[n].tag
      BY <1>2, <1>3, <2>2
    <2>5. r = 0 \/ r = s
      BY <2>2, <2>3
    <2> QED
      BY <1>5, <2>4, <2>5 DEF r, s
  <1> QED
    BY <1>4, <1>5

\* What a selector made up for an element selects: its part, under its parent's selector.
LEMMA SelectorEnds ==
    ASSUME NEW page, IsPage(page), NEW fullPath \in BOOLEAN, NEW n \in DOMAIN page, n # 1, NEW m
    PROVE  Selects(page, GeneralSelector(page, n, fullPath), m) <=>
              /\ m \in DOMAIN page /\ PartMatches(page, m, PartFor(page, n))
              /\ IsFirst(page, n, fullPath)
                    \/ Selects(page, GeneralSelector(page, ParentOf(page, n), fullPath), ParentOf(page, m))
  <1> DEFINE P == PartsOf(page)
             part == PartFor(page, n)
             above == GeneralSelector(page, ParentOf(page, n), fullPath)
             none == <<>>
  <1>1. ParentOf(page, n) \in DOMAIN page
    BY PageIs
  <1>2. above \in Seq(P) /\ GeneralSelector(page, n, fullPath) = LongerBy(page, n, fullPath, above)
    BY <1>1, SelectorGoesUp
  <1>3. part \in P /\ none \in Seq(P)
    BY DEF PartsOf
  <1>4. GeneralSelector(page, n, fullPath) = Append(IF IsFirst(page, n, fullPath) THEN none ELSE above, part)
    <2>1. <<part>> = Append(none, part)
      OBVIOUS
    <2>2. GeneralSelector(page, n, fullPath) = IF IsFirst(page, n, fullPath) THEN <<part>> ELSE Append(above, part)
      BY <1>2 DEF LongerBy
    <2> HIDE DEF part, above, none
    <2> QED
      BY <2>1, <2>2
  <1>5. \A x : Selects(page, none, x) <=> x \in 0..Len(page)
    BY SelectsNothing
  <1>6. m \in DOMAIN page => ParentOf(page, m) \in 0..Len(page)
    BY PageIs
  <1> HIDE DEF P, part, above, none
  <1>7. CASE IsFirst(page, n, fullPath)
    <2>1. Selects(page, Append(none, part), m)
             <=> m \in DOMAIN page /\ PartMatches(page, m, part) /\ Selects(page, none, ParentOf(page, m))
      BY <1>3, SelectsMore
    <2>2. GeneralSelector(page, n, fullPath) = Append(none, part)
      BY <1>4, <1>7
    <2> QED
      BY <1>5, <1>6, <1>7, <2>1, <2>2 DEF part
  <1>8. CASE ~IsFirst(page, n, fullPath)
    <2>1. Selects(page, Append(above, part), m)
             <=> m \in DOMAIN page /\ PartMatches(page, m, part) /\ Selects(page, above, ParentOf(page, m))
      BY <1>2, <1>3, SelectsMore
    <2>2. GeneralSelector(page, n, fullPath) = Append(above, part)
      BY <1>4, <1>8
    <2> QED
      BY <1>8, <2>1, <2>2 DEF part, above
  <1> QED
    BY <1>7, <1>8

LEMMA SelectsItself ==
    ASSUME NEW page, IsPage(page), NEW fullPath \in BOOLEAN
    PROVE  \A n \in 2..Len(page) : Selects(page, GeneralSelector(page, n, fullPath), n)
  <1> DEFINE N == Len(page)
             Fine(n) == Selects(page, GeneralSelector(page, n, fullPath), n)
             K == {k \in 0..N : \A n \in 2..k : Fine(n)}
  <1>1. N \in Nat /\ DOMAIN page = 1..N
        /\ \A n \in 1..N : ParentOf(page, n) \in 0..(n - 1) /\ (ParentOf(page, n) = 0 <=> n = 1)
    BY PageIs
  <1> HIDE DEF N
  <1>2. 0 \in K
    BY <1>1
  <1>3. ASSUME NEW k \in 0..(N - 1), k \in K
        PROVE  k + 1 \in K
    <2> DEFINE n == k + 1
    <2>1. n \in 1..N /\ n \in 0..N
      BY <1>1
    <2>2. n # 1 => Fine(n)
      <3> SUFFICES ASSUME n # 1
                   PROVE  Fine(n)
        OBVIOUS
      <3>1. n \in DOMAIN page /\ PartMatches(page, n, PartFor(page, n))
        BY <1>1, <2>1, PartMatchesItself
      <3>2. ParentOf(page, n) # 1 => Fine(ParentOf(page, n))
        <4>1. ParentOf(page, n) # 1 => ParentOf(page, n) \in 2..k
          <5>1. ParentOf(page, n) \in 0..(n - 1) /\ ParentOf(page, n) # 0
            BY <1>1, <2>1
          <5> QED
            BY <5>1
        <4> HIDE DEF Fine, n
        <4> QED
          BY <1>3, <4>1
      <3>3. ParentOf(page, n) = 1 => IsFirst(page, n, fullPath)
        BY DEF IsFirst
      <3> HIDE DEF n
      <3> QED
        BY <3>1, <3>2, <3>3, SelectorEnds
    <2>3. \A i \in 2..(k + 1) : (i = n /\ n # 1) \/ i \in 2..k
      BY <1>1
    <2> HIDE DEF Fine
    <2>4. \A i \in 2..k : Fine(i)
      BY <1>3
    <2> HIDE DEF n
    <2>5. \A i \in 2..(k + 1) : Fine(i)
      BY <2>2, <2>3, <2>4
    <2> QED
      BY <2>1, <2>5 DEF n
  <1> HIDE DEF K
  <1>4. 0..N \subseteq K
    BY <1>1, <1>2, <1>3, UpTo
  <1>5. N \in K
    BY <1>1, <1>4
  <1> QED
    BY <1>5 DEF K, N

\* What else it selects comes after the element and is not in it.
After(page, n, m) == m = n \/ (m > n /\ n \notin Lineage(page, m))

LEMMA SelectsAfter ==
    ASSUME NEW page, IsPage(page), NEW fullPath \in BOOLEAN, NEW n \in DOMAIN page, n # 1,
           ParentOf(page, n) # 1 =>
              \A x \in DOMAIN page :
                 Selects(page, GeneralSelector(page, ParentOf(page, n), fullPath), x) => After(page, ParentOf(page, n), x),
           NEW m \in DOMAIN page, Selects(page, GeneralSelector(page, n, fullPath), m)
    PROVE  After(page, n, m)
  <1> DEFINE N == Len(page)
             p == ParentOf(page, n)
             q == ParentOf(page, m)
  <1> SUFFICES ASSUME m # n
               PROVE  m > n /\ n \notin Lineage(page, m)
    BY DEF After
  <1>1. N \in Nat /\ DOMAIN page = 1..N /\ p \in 0..(n - 1) /\ p # 0 /\ q \in 0..(m - 1) /\ (q = 0 <=> m = 1)
    BY PageIs
  <1>2. /\ PartMatches(page, m, PartFor(page, n))
        /\ IsFirst(page, n, fullPath) \/ Selects(page, GeneralSelector(page, p, fullPath), q)
    BY SelectorEnds
  <1>3. /\ page[n].id = "" /\ page[m].tag = page[n].tag
        /\ Rank(page, n) = 0 \/ Rank(page, n) = Rank(page, m)
    BY <1>2, PartTells
  <1>4. m # 1 /\ p # 1
    <2>1. IsElement(page, n) /\ IsElement(page, m)
      BY PageIs
    <2>2. page[m].tag = "html" <=> m = 1
      BY <2>1 DEF IsElement
    <2>3. page[n].tag = "html" <=> n = 1
      BY <2>1 DEF IsElement
    <2>4. p = 1 => m = n
      BY <1>3, <2>1 DEF IsElement
    <2> QED
      BY <1>3, <2>2, <2>3, <2>4
  <1>5. ~IsFirst(page, n, fullPath)
    BY <1>3, <1>4 DEF IsFirst
  <1>6. q \in DOMAIN page /\ After(page, p, q)
    <2>1. q \in DOMAIN page
      BY <1>1, <1>4
    <2> QED
      BY <1>2, <1>4, <1>5, <2>1
  <1>7. /\ Lineage(page, m) = Lineage(page, q) \cup {m} /\ Lineage(page, n) = Lineage(page, p) \cup {n}
        /\ Lineage(page, p) \subseteq 1..p /\ p \in Lineage(page, p)
    <2>1. p \in 1..N /\ p \in 0..N /\ m \in 1..N /\ n \in 1..N
      BY <1>1
    <2>2. /\ \A x \in DOMAIN page : Lineage(page, x) = Lineage(page, ParentOf(page, x)) \cup {x}
          /\ \A x \in 0..N : Lineage(page, x) \subseteq 1..x
      BY LineageIs
    <2>3. p \in Lineage(page, p)
      BY <1>1, <2>1, <2>2
    <2> QED
      BY <1>1, <2>1, <2>2, <2>3
  <1>8. CASE q = p
    <2>1. ~(m < n)
      <3> SUFFICES ASSUME m < n
                   PROVE  FALSE
        OBVIOUS
      <3>1. Rank(page, m) < Rank(page, n)
        BY <1>3, <1>4, <1>8, RanksDiffer
      <3> DEFINE r == Rank(page, n)
                 s == Rank(page, m)
      <3>2. r \in Nat /\ s \in Nat
        BY RankIs
      <3>3. r = 0 \/ r = s
        BY <1>3
      <3>4. s < r
        BY <3>1
      <3> HIDE DEF r, s
      <3> QED
        BY <3>2, <3>3, <3>4
    <2>2. n \notin Lineage(page, p)
      BY <1>1, <1>7
    <2> QED
      BY <1>1, <1>7, <1>8, <2>1, <2>2
  <1>9. CASE q # p
    <2>1. q > p /\ p \notin Lineage(page, q)
      BY <1>6, <1>9 DEF After
    <2>2. p \notin Lineage(page, m) /\ m > p
      BY <1>1, <1>7, <2>1
    <2>3. p \in Lineage(page, n)
      BY <1>7
    <2>4. n \notin Lineage(page, m)
      <3> SUFFICES ASSUME n \in Lineage(page, m)
                   PROVE  FALSE
        OBVIOUS
      <3>1. m \in 0..N
        BY <1>1
      <3>2. Lineage(page, n) \subseteq Lineage(page, m)
        BY <3>1, LineageGrows
      <3> QED
        BY <2>2, <2>3, <3>2
    <2>5. ~(m <= n)
      <3> SUFFICES ASSUME m <= n
                   PROVE  FALSE
        OBVIOUS
      <3>1. m \in p..n
        BY <1>1, <2>2
      <3> HIDE DEF p
      <3>2. p \in Lineage(page, m)
        BY <2>3, <3>1, BetweenIsInside
      <3> QED
        BY <2>2, <3>2
    <2> QED
      BY <1>1, <2>4, <2>5
  <1> QED
    BY <1>8, <1>9

LEMMA SelectsNothingBefore ==
    ASSUME NEW page, IsPage(page), NEW fullPath \in BOOLEAN
    PROVE  \A n \in 2..Len(page) : \A m \in DOMAIN page :
              Selects(page, GeneralSelector(page, n, fullPath), m) => After(page, n, m)
  <1> DEFINE N == Len(page)
             Fine(n) == \A m \in DOMAIN page :
                           Selects(page, GeneralSelector(page, n, fullPath), m) => After(page, n, m)
             K == {k \in 0..N : \A n \in 2..k : Fine(n)}
  <1>1. N \in Nat /\ DOMAIN page = 1..N
        /\ \A n \in 1..N : ParentOf(page, n) \in 0..(n - 1) /\ (ParentOf(page, n) = 0 <=> n = 1)
    BY PageIs
  <1> HIDE DEF N
  <1>2. 0 \in K
    BY <1>1
  <1>3. ASSUME NEW k \in 0..(N - 1), k \in K
        PROVE  k + 1 \in K
    <2> DEFINE n == k + 1
    <2>1. n \in 1..N /\ n \in 0..N
      BY <1>1
    <2>2. n # 1 => Fine(n)
      <3> SUFFICES ASSUME n # 1
                   PROVE  Fine(n)
        OBVIOUS
      <3>1. n \in DOMAIN page
        BY <1>1, <2>1
      <3>2. ParentOf(page, n) # 1 => Fine(ParentOf(page, n))
        <4>1. ParentOf(page, n) # 1 => ParentOf(page, n) \in 2..k
          <5>1. ParentOf(page, n) \in 0..(n - 1) /\ ParentOf(page, n) # 0
            BY <1>1, <2>1
          <5> QED
            BY <5>1
        <4> HIDE DEF Fine, n
        <4> QED
          BY <1>3, <4>1
      <3> HIDE DEF n
      <3> QED
        BY <3>1, <3>2, SelectsAfter
    <2>3. \A i \in 2..(k + 1) : (i = n /\ n # 1) \/ i \in 2..k
      BY <1>1
    <2> HIDE DEF Fine
    <2>4. \A i \in 2..k : Fine(i)
      BY <1>3
    <2> HIDE DEF n
    <2>5. \A i \in 2..(k + 1) : Fine(i)
      BY <2>2, <2>3, <2>4
    <2> QED
      BY <2>1, <2>5 DEF n
  <1> HIDE DEF K
  <1>4. 0..N \subseteq K
    BY <1>1, <1>2, <1>3, UpTo
  <1>5. N \in K
    BY <1>1, <1>4
  <1> QED
    BY <1>5 DEF K, N

\* On any page the parser can make whose ids are unique, the selector made up for an
\* element, short or full, finds it and nothing before it.  (selector_generation.go)
THEOREM SelectorAlwaysFinds ==
    ASSUME NEW page, IsPage(page)
    PROVE  SelectorFindsElement(page)
  <1> SUFFICES ASSUME NEW n \in DOMAIN page, ParentOf(page, n) # 0, NEW fullPath \in BOOLEAN
               PROVE  /\ Selects(page, GeneralSelector(page, n, fullPath), n)
                      /\ \A m \in 1..(n - 1) : ~Selects(page, GeneralSelector(page, n, fullPath), m)
    BY DEF SelectorFindsElement
  <1>1. n \in 2..Len(page) /\ \A m \in 1..(n - 1) : m \in DOMAIN page /\ m # n /\ ~(m > n)
    BY PageIs
  <1>2. Selects(page, GeneralSelector(page, n, fullPath), n)
    BY <1>1, SelectsItself
  <1>3. \A m \in 1..(n - 1) : ~Selects(page, GeneralSelector(page, n, fullPath), m)
    BY <1>1, SelectsNothingBefore DEF After
  <1> QED
    BY <1>2, <1>3

----------------------------------------------------------------------------
(* What scores can be *)

LEMMA QuotientBounds ==
    ASSUME NEW a \in Nat, NEW b \in Nat, b > 0, a <= b
    PROVE  (Unit * a) \div b \in 0..Unit /\ (a = b => (Unit * a) \div b = Unit)
  <1> DEFINE q == (60 * a) \div b
  <1>1. q \in Int /\ b * q <= 60 * a /\ 60 * a < b * (q + 1)
    OBVIOUS
  <1>2. (Unit * a) \div b = q
    BY DEF Unit
  <1> HIDE DEF q
  <1>3. q <= 60
    <2> SUFFICES ASSUME q >= 61
                 PROVE  FALSE
      BY <1>1
    <2>1. b * q >= b * 61
      BY <1>1
    <2> QED
      BY <1>1, <2>1
  <1>4. q >= 0
    <2> SUFFICES ASSUME q + 1 <= 0
                 PROVE  FALSE
      BY <1>1
    <2>1. b * (q + 1) <= 0
      BY <1>1
    <2> QED
      BY <1>1, <2>1
  <1>5. a = b => q = 60
    <2> SUFFICES ASSUME a = b, q + 1 <= 60
                 PROVE  FALSE
      BY <1>1, <1>3
    <2>1. b * (q + 1) <= b * 60
      BY <1>1
    <2> QED
      BY <1>1, <2>1
  <1> QED
    BY <1>1, <1>2, <1>3, <1>4, <1>5 DEF Unit

LEMMA FiniteImage ==
    ASSUME NEW f, IsFiniteSet(DOMAIN f)
    PROVE  IsFiniteSet({f[x] : x \in DOMAIN f})
  <1> DEFINE g == [x \in DOMAIN f |-> f[x]]
             T == {f[x] : x \in DOMAIN f}
  <1>1. g \in Surjection(DOMAIN f, T)
    BY DEF Surjection
  <1> HIDE DEF g, T
  <1>2. IsFiniteSet(T)
    BY <1>1, FS_Surjection
  <1> QED
    BY <1>2 DEF T

LEMMA TokensAreFinite ==
    ASSUME NEW attrs, IsAttributes(attrs)
    PROVE  IsFiniteSet(DOMAIN attrs) /\ IsFiniteSet(AttrValueTokens(attrs))
  <1> DEFINE T == {attrs[k] : k \in DOMAIN attrs}
  <1>1. IsFiniteSet(DOMAIN attrs) /\ \A k \in DOMAIN attrs : IsFiniteSet(attrs[k])
    BY DEF IsAttributes
  <1>2. IsFiniteSet(T)
    BY <1>1, FiniteImage
  <1>3. \A t \in T : IsFiniteSet(t)
    BY <1>1
  <1> HIDE DEF T
  <1>4. IsFiniteSet(UNION T)
    BY <1>2, <1>3, FS_UNION
  <1> QED
    BY <1>1, <1>4 DEF AttrValueTokens, T

LEMMA TokenSetBounds ==
    ASSUME NEW a, NEW b, IsFiniteSet(a), IsFiniteSet(b)
    PROVE  TokenSetSimilarity(a, b) \in 0..Unit /\ (a = b => TokenSetSimilarity(a, b) = Unit)
  <1>1. CASE a = {} /\ b = {}
    BY <1>1 DEF TokenSetSimilarity, Unit
  <1>2. CASE ~(a = {} /\ b = {})
    <2> DEFINE i == a \cap b
               u == a \cup b
    <2>1. IsFiniteSet(i) /\ IsFiniteSet(u)
      BY FS_Intersection, FS_Union
    <2>2. i \subseteq u /\ u # {} /\ (a = b => i = u)
      BY <1>2
    <2>3. TokenSetSimilarity(a, b) = (Unit * Cardinality(i)) \div Cardinality(u)
      BY <1>2 DEF TokenSetSimilarity
    <2> HIDE DEF i, u
    <2>4. Cardinality(i) \in Nat /\ Cardinality(u) \in Nat /\ Cardinality(i) <= Cardinality(u)
      BY <2>1, <2>2, FS_CardinalityType, FS_Subset
    <2>5. Cardinality(u) # 0
      BY <2>1, <2>2, FS_EmptySet
    <2>6. Cardinality(u) > 0
      BY <2>4, <2>5
    <2> QED
      BY <2>2, <2>3, <2>4, <2>6, QuotientBounds
  <1> QED
    BY <1>1, <1>2

LEMMA AttributesBounds ==
    ASSUME NEW a, NEW b, IsAttributes(a), IsAttributes(b)
    PROVE  /\ MapKeySimilarity(a, b) \in 0..Unit /\ AttrValueSimilarity(a, b) \in 0..Unit
           /\ a = b => MapKeySimilarity(a, b) = Unit /\ AttrValueSimilarity(a, b) = Unit
  <1>1. /\ IsFiniteSet(DOMAIN a) /\ IsFiniteSet(AttrValueTokens(a))
        /\ IsFiniteSet(DOMAIN b) /\ IsFiniteSet(AttrValueTokens(b))
    BY TokensAreFinite
  <1>2. /\ MapKeySimilarity(a, b) \in 0..Unit
        /\ a = b => MapKeySimilarity(a, b) = Unit
    BY <1>1, TokenSetBounds DEF MapKeySimilarity
  <1> DEFINE v == TokenSetSimilarity(AttrValueTokens(a), AttrValueTokens(b))
  <1>3. v \in 0..Unit /\ (a = b => v = Unit)
    BY <1>1, TokenSetBounds
  <1>4. AttrValueSimilarity(a, b) \in {0, v} /\ (a = b => AttrValueSimilarity(a, b) = v) /\ 0 \in 0..Unit
    BY DEF AttrValueSimilarity, Unit
  <1> HIDE DEF v
  <1> QED
    BY <1>2, <1>3, <1>4

LEMMA WordsBounds ==
    ASSUME NEW a \in Seq(STRING), NEW b \in Seq(STRING)
    PROVE  StringSimilarity(a, b) \in 0..Unit /\ (a = b => StringSimilarity(a, b) = Unit)
  <1>1. \A s \in Seq(STRING) : IsFiniteSet(ToSet(s))
    <2> SUFFICES ASSUME NEW s \in Seq(STRING)
                 PROVE  IsFiniteSet(ToSet(s))
      OBVIOUS
    <2>1. DOMAIN s = 1..Len(s) /\ Len(s) \in Nat
      OBVIOUS
    <2>2. IsFiniteSet(DOMAIN s)
      <3>1. 1 \in Int /\ Len(s) \in Int
        BY <2>1
      <3> QED
        BY <2>1, <3>1, FS_Interval
    <2>3. ToSet(s) = {s[i] : i \in DOMAIN s}
      BY DEF ToSet
    <2> QED
      BY <2>2, <2>3, FiniteImage
  <1>2. IsFiniteSet(ToSet(a)) /\ IsFiniteSet(ToSet(b))
    BY <1>1
  <1> QED
    BY <1>2, TokenSetBounds DEF StringSimilarity

----------------------------------------------------------------------------
(* The longest common subsequence, row by row *)

\* A row for a sequence of n.
RowsOf(n) == [0..n -> Nat]
\* From an entry before it in its row and the row before, the next of a row.
NextEntry(previous, x, b, j, before) ==
    IF x = b[j] THEN previous[j - 1] + 1
    ELSE IF previous[j] > before THEN previous[j] ELSE before

LEMMA RowIs ==
    ASSUME NEW b \in Seq(STRING), NEW previous \in RowsOf(Len(b)), NEW x
    PROVE  /\ NextRow(previous, x, b) \in RowsOf(Len(b))
           /\ NextRow(previous, x, b)[0] = 0
           /\ \A j \in 1..Len(b) :
                 NextRow(previous, x, b)[j] = NextEntry(previous, x, b, j, NextRow(previous, x, b)[j - 1])
  <1> DEFINE n == Len(b)
             base == 0
             step == [j \in 1..n |-> [v \in Nat |-> NextEntry(previous, x, b, j, v)]]
             Is(g) == g = [j \in 0..n |-> IF j = 0 THEN 0
                                          ELSE IF x = b[j] THEN previous[j - 1] + 1
                                          ELSE IF previous[j] > g[j - 1] THEN previous[j] ELSE g[j - 1]]
             row == CHOOSE g : Is(g)
  <1>1. n \in Nat /\ previous \in [0..n -> Nat]
    BY DEF RowsOf
  <1>2. NextRow(previous, x, b) = row
    BY DEF NextRow
  <1> HIDE DEF n
  <1>3. \A j \in 1..n : previous[j] \in Nat /\ previous[j - 1] \in Nat
    BY <1>1
  <1>4. \A j \in 1..n, v \in Nat : NextEntry(previous, x, b, j, v) \in Nat
    BY <1>3 DEF NextEntry
  <1>5. step \in [1..n -> [Nat -> Nat]] /\ base \in Nat
    BY <1>4
  <1> HIDE DEF base
  <1>6. PICK f : f \in RecursionsOf(Nat, n, step, base)
    <2> HIDE DEF step
    <2>1. RecursionsOf(Nat, n, step, base) # {}
      BY <1>1, <1>5, RecursionExists
    <2> QED
      BY <2>1
  <1>7. f \in [0..n -> Nat] /\ f[0] = base /\ \A j \in 1..n : f[j] = step[j][f[j - 1]]
    BY <1>6 DEF RecursionsOf
  <1>8. \A j \in 1..n : f[j] = NextEntry(previous, x, b, j, f[j - 1])
    <2> SUFFICES ASSUME NEW j \in 1..n
                 PROVE  f[j] = NextEntry(previous, x, b, j, f[j - 1])
      OBVIOUS
    <2>1. f[j - 1] \in Nat
      BY <1>1, <1>7
    <2> QED
      BY <1>7, <2>1
  <1> HIDE DEF step
  <1>9. Is(f)
    <2> DEFINE g == [j \in 0..n |-> IF j = 0 THEN base ELSE NextEntry(previous, x, b, j, f[j - 1])]
    <2>1. f = g
      <3>1. f = [j \in 0..n |-> f[j]]
        BY <1>7
      <3>2. \A j \in 0..n : f[j] = IF j = 0 THEN base ELSE NextEntry(previous, x, b, j, f[j - 1])
        <4>1. \A j \in 0..n : j # 0 => j \in 1..n
          BY <1>1
        <4> QED
          BY <1>7, <1>8, <4>1
      <3> QED
        BY <3>1, <3>2
    <2>2. Is(f) <=> f = g
      BY DEF NextEntry, base
    <2> QED
      BY <2>1, <2>2
  <1>10. Is(row)
    <2> HIDE DEF Is
    <2> QED
      BY <1>9
  <1> HIDE DEF row
  <1>11. row = [j \in 0..n |-> IF j = 0 THEN 0 ELSE NextEntry(previous, x, b, j, row[j - 1])]
    BY <1>10 DEF NextEntry
  <1> HIDE DEF Is
  <1>12. /\ row[0] = 0 /\ DOMAIN row = 0..n
         /\ \A j \in 1..n : row[j] = NextEntry(previous, x, b, j, row[j - 1])
    <2>1. 0 \in 0..n /\ \A j \in 1..n : j \in 0..n /\ j # 0
      BY <1>1
    <2> QED
      BY <1>11, <2>1
  <1> DEFINE T == {j \in 0..n : row[j] \in Nat}
  <1>13. 0..n \subseteq T
    <2>1. 0 \in T
      BY <1>1, <1>12
    <2>2. ASSUME NEW j \in 0..(n - 1), j \in T
          PROVE  j + 1 \in T
      <3>1. j + 1 \in 1..n /\ j + 1 - 1 = j /\ j + 1 \in 0..n
        BY <1>1
      <3>2. row[j + 1] = NextEntry(previous, x, b, j + 1, row[j])
        BY <1>12, <3>1
      <3> QED
        BY <1>4, <2>2, <3>1, <3>2
    <2> HIDE DEF T
    <2> QED
      BY <1>1, <2>1, <2>2, UpTo
  <1>14. row \in [0..n -> Nat]
    <2>1. row = [j \in 0..n |-> row[j]]
      BY <1>11, <1>12
    <2> QED
      BY <1>13, <2>1
  <1> QED
    BY <1>2, <1>12, <1>14 DEF RowsOf, n

\* What holds of the row of a length: bounds, and for a sequence with itself the diagonal.
RowFits(row, i, n) == \A j \in 0..n : row[j] <= i /\ row[j] <= j

LEMMA NextRowIs ==
    ASSUME NEW b \in Seq(STRING), NEW previous \in RowsOf(Len(b)), NEW x, NEW i \in Nat,
           RowFits(previous, i, Len(b))
    PROVE  RowFits(NextRow(previous, x, b), i + 1, Len(b))
  <1> DEFINE n == Len(b)
             row == NextRow(previous, x, b)
             T == {j \in 0..n : row[j] <= i + 1 /\ row[j] <= j}
  <1>1. n \in Nat /\ previous \in [0..n -> Nat] /\ \A j \in 0..n : previous[j] <= i /\ previous[j] <= j
    BY DEF RowsOf, RowFits
  <1>2. /\ row \in [0..n -> Nat] /\ row[0] = 0
        /\ \A j \in 1..n : row[j] = NextEntry(previous, x, b, j, row[j - 1])
    BY RowIs DEF RowsOf
  <1> HIDE DEF n, row
  <1>3. 0 \in T
    BY <1>1, <1>2
  <1>4. ASSUME NEW j \in 0..(n - 1), j \in T
        PROVE  j + 1 \in T
    <2>1. j + 1 \in 1..n /\ j + 1 - 1 = j /\ j + 1 \in 0..n /\ j \in 0..n
      BY <1>1
    <2> DEFINE before == row[j]
               v == previous[j]
               w == previous[j + 1]
    <2>2. row[j + 1] = IF x = b[j + 1] THEN v + 1 ELSE IF w > before THEN w ELSE before
      BY <1>2, <2>1 DEF NextEntry
    <2>3. before \in Nat /\ before <= i + 1 /\ before <= j
      BY <1>2, <1>4, <2>1
    <2>4. v \in Nat /\ w \in Nat /\ v <= i /\ v <= j /\ w <= i /\ w <= j + 1
      BY <1>1, <2>1
    <2> HIDE DEF before, v, w
    <2>5. row[j + 1] <= i + 1 /\ row[j + 1] <= j + 1
      BY <2>1, <2>2, <2>3, <2>4
    <2> QED
      BY <2>1, <2>5
  <1> HIDE DEF T
  <1>5. 0..n \subseteq T
    BY <1>1, <1>3, <1>4, UpTo
  <1> QED
    BY <1>5 DEF T, RowFits, row, n

RowsFor(a, b) ==
    {rows \in [0..Len(a) -> RowsOf(Len(b))] :
        /\ rows[0] = [j \in 0..Len(b) |-> 0]
        /\ \A i \in 1..Len(a) : rows[i] = NextRow(rows[i - 1], a[i], b)}

LEMMA RowsExist ==
    ASSUME NEW a \in Seq(STRING), NEW b \in Seq(STRING)
    PROVE  \E rows \in RowsFor(a, b) : LongestCommonSubsequence(a, b) = rows[Len(a)][Len(b)]
  <1> DEFINE n == Len(a)
             S == RowsOf(Len(b))
             base == [j \in 0..Len(b) |-> 0]
             step == [i \in 1..n |-> [row \in S |-> NextRow(row, a[i], b)]]
             Is(g) == g = [i \in 0..n |-> IF i = 0 THEN [j \in 0..Len(b) |-> 0] ELSE NextRow(g[i - 1], a[i], b)]
             rows == CHOOSE g : Is(g)
  <1>1. n \in Nat
    OBVIOUS
  <1>2. LongestCommonSubsequence(a, b) = rows[n][Len(b)]
    BY DEF LongestCommonSubsequence
  <1> HIDE DEF n
  <1>3. \A i \in 1..n, row \in S : NextRow(row, a[i], b) \in S
    BY RowIs
  <1>4. step \in [1..n -> [S -> S]] /\ base \in S
    <2>1. base \in S
      BY DEF RowsOf
    <2> HIDE DEF S, base
    <2> QED
      BY <1>3, <2>1
  <1> HIDE DEF base
  <1>5. PICK f : f \in RecursionsOf(S, n, step, base)
    <2> HIDE DEF S, step
    <2>1. RecursionsOf(S, n, step, base) # {}
      BY <1>1, <1>4, RecursionExists
    <2> QED
      BY <2>1
  <1>6. f \in [0..n -> S] /\ f[0] = base /\ \A i \in 1..n : f[i] = step[i][f[i - 1]]
    BY <1>5 DEF RecursionsOf
  <1>7. \A i \in 1..n : f[i] = NextRow(f[i - 1], a[i], b)
    <2> SUFFICES ASSUME NEW i \in 1..n
                 PROVE  f[i] = NextRow(f[i - 1], a[i], b)
      OBVIOUS
    <2>1. f[i - 1] \in S
      BY <1>1, <1>6
    <2> HIDE DEF S
    <2> QED
      BY <1>6, <2>1
  <1> HIDE DEF S, step
  <1>8. Is(f)
    <2> DEFINE g == [i \in 0..n |-> IF i = 0 THEN base ELSE NextRow(f[i - 1], a[i], b)]
    <2>1. f = g
      <3>1. f = [i \in 0..n |-> f[i]]
        BY <1>6
      <3>2. \A i \in 0..n : f[i] = IF i = 0 THEN base ELSE NextRow(f[i - 1], a[i], b)
        <4>1. \A i \in 0..n : i # 0 => i \in 1..n
          BY <1>1
        <4> QED
          BY <1>6, <1>7, <4>1
      <3> QED
        BY <3>1, <3>2
    <2>2. Is(f) <=> f = g
      BY DEF base
    <2> QED
      BY <2>1, <2>2
  <1>9. Is(rows)
    <2> HIDE DEF Is
    <2> QED
      BY <1>8
  <1> HIDE DEF rows
  <1>10. rows = [i \in 0..n |-> IF i = 0 THEN base ELSE NextRow(rows[i - 1], a[i], b)]
    BY <1>9 DEF base
  <1> HIDE DEF Is
  <1>11. /\ rows[0] = base /\ DOMAIN rows = 0..n
         /\ \A i \in 1..n : rows[i] = NextRow(rows[i - 1], a[i], b)
    <2>1. 0 \in 0..n /\ \A i \in 1..n : i \in 0..n /\ i # 0
      BY <1>1
    <2> QED
      BY <1>10, <2>1
  <1> DEFINE T == {i \in 0..n : rows[i] \in S}
  <1>12. 0..n \subseteq T
    <2>1. 0 \in T
      BY <1>1, <1>4, <1>11
    <2>2. ASSUME NEW i \in 0..(n - 1), i \in T
          PROVE  i + 1 \in T
      <3>1. i + 1 \in 1..n /\ i + 1 - 1 = i /\ i + 1 \in 0..n
        BY <1>1
      <3>2. rows[i + 1] = NextRow(rows[i], a[i + 1], b)
        BY <1>11, <3>1
      <3> QED
        BY <1>3, <2>2, <3>1, <3>2
    <2> HIDE DEF T
    <2> QED
      BY <1>1, <2>1, <2>2, UpTo
  <1>13. rows \in [0..n -> S]
    <2>1. rows = [i \in 0..n |-> rows[i]]
      BY <1>10, <1>11
    <2> QED
      BY <1>12, <2>1
  <1>14. rows \in RowsFor(a, b)
    BY <1>11, <1>13 DEF RowsFor, S, base, n
  <1> QED
    BY <1>2, <1>14 DEF n

\* No longer than either, and a sequence is its own.
LEMMA SubsequenceBounds ==
    ASSUME NEW a \in Seq(STRING), NEW b \in Seq(STRING)
    PROVE  /\ LongestCommonSubsequence(a, b) \in Nat
           /\ LongestCommonSubsequence(a, b) <= Len(a) /\ LongestCommonSubsequence(a, b) <= Len(b)
           /\ a = b => LongestCommonSubsequence(a, b) = Len(a)
  <1> DEFINE n == Len(a)
             m == Len(b)
  <1>1. n \in Nat /\ m \in Nat
    OBVIOUS
  <1>2. PICK rows \in RowsFor(a, b) : LongestCommonSubsequence(a, b) = rows[n][m]
    BY RowsExist
  <1>3. /\ rows \in [0..n -> RowsOf(m)] /\ rows[0] = [j \in 0..m |-> 0]
        /\ \A i \in 1..n : rows[i] = NextRow(rows[i - 1], a[i], b)
    BY DEF RowsFor
  <1>4. \A i \in 0..n : rows[i] \in RowsOf(Len(b))
    BY <1>3
  <1> HIDE DEF n, m
  <1> DEFINE T == {i \in 0..n : RowFits(rows[i], i, Len(b)) /\ (a = b => rows[i][i] = i)}
  <1>5. 0 \in T
    BY <1>1, <1>3 DEF RowFits, m
  <1>6. ASSUME NEW i \in 0..(n - 1), i \in T
        PROVE  i + 1 \in T
    <2>1. i \in Nat /\ i \in 0..n /\ i + 1 \in 1..n /\ i + 1 \in 0..n /\ i + 1 - 1 = i
      BY <1>1
    <2>2. rows[i + 1] = NextRow(rows[i], a[i + 1], b) /\ rows[i] \in RowsOf(Len(b))
      BY <1>3, <1>4, <2>1
    <2>3. RowFits(rows[i + 1], i + 1, Len(b))
      BY <1>6, <2>1, <2>2, NextRowIs
    <2>4. ASSUME a = b
          PROVE  rows[i + 1][i + 1] = i + 1
      <3>1. i + 1 \in 1..Len(b)
        BY <2>1, <2>4 DEF n
      <3>2. rows[i + 1][i + 1] = NextEntry(rows[i], a[i + 1], b, i + 1, rows[i + 1][i + 1 - 1])
        BY <2>2, <3>1, RowIs
      <3>3. a[i + 1] = b[i + 1]
        BY <2>4
      <3>4. rows[i][i] = i
        BY <1>6, <2>4
      <3> QED
        BY <2>1, <3>2, <3>3, <3>4 DEF NextEntry
    <2> QED
      BY <2>1, <2>3, <2>4
  <1> HIDE DEF T
  <1>7. 0..n \subseteq T /\ n \in 0..n /\ m \in 0..m
    BY <1>1, <1>5, <1>6, UpTo, SMTT(30)
  <1>8. RowFits(rows[n], n, Len(b)) /\ (a = b => rows[n][n] = n)
    BY <1>7 DEF T
  <1>9. rows[n][m] <= n /\ rows[n][m] <= m
    BY <1>7, <1>8 DEF RowFits, m
  <1>10. rows[n][m] \in Nat
    BY <1>4, <1>7 DEF RowsOf, m
  <1>11. a = b => rows[n][m] = n
    BY <1>8 DEF n, m
  <1> QED
    BY <1>2, <1>9, <1>10, <1>11 DEF n, m

LEMMA SequenceBounds ==
    ASSUME NEW a \in Seq(STRING), NEW b \in Seq(STRING)
    PROVE  SequenceSimilarity(a, b) \in 0..Unit /\ (a = b => SequenceSimilarity(a, b) = Unit)
  <1>1. CASE a = <<>> /\ b = <<>>
    BY <1>1 DEF SequenceSimilarity, Unit
  <1>2. CASE ~(a = <<>> /\ b = <<>>)
    <2> DEFINE n == Len(a)
               m == Len(b)
               longer == Max({n, m})
               common == LongestCommonSubsequence(a, b)
    <2>1. n \in Nat /\ m \in Nat /\ (n > 0 \/ m > 0)
      BY <1>2
    <2>2. SequenceSimilarity(a, b) = (Unit * common) \div longer
      BY <1>2 DEF SequenceSimilarity
    <2>3. common \in Nat /\ common <= n /\ common <= m /\ (a = b => common = n)
      BY SubsequenceBounds
    <2>4. longer \in {n, m} /\ longer >= n /\ longer >= m
      <3> DEFINE s == {n, m}
      <3>1. n + m \in Nat /\ s \in SUBSET (0..(n + m)) /\ s # {}
        BY <2>1
      <3> HIDE DEF s, n, m
      <3>2. Max(s) \in s /\ \A y \in s : Max(s) >= y
        BY <3>1, MaxUpTo
      <3> QED
        BY <3>2 DEF s
    <2>5. longer \in Nat /\ longer > 0 /\ common <= longer /\ (a = b => common = longer)
      <3>1. a = b => n = m
        OBVIOUS
      <3> HIDE DEF longer, common, n, m
      <3> QED
        BY <2>1, <2>3, <2>4, <3>1
    <2> HIDE DEF longer, common
    <2> QED
      BY <2>2, <2>3, <2>5, QuotientBounds
  <1> QED
    BY <1>1, <1>2

----------------------------------------------------------------------------
(* What a fingerprint has *)

LEMMA ElementIs ==
    ASSUME NEW page, IsPage(page), NEW n \in DOMAIN page
    PROVE  page[n].tag \in STRING /\ page[n].words \in Seq(STRING) /\ IsAttributes(page[n].attrs)
  <1>0. IsElement(page, n)
    BY PageIs
  <1>1. page[n].tag \in STRING
    BY <1>0 DEF IsElement
  <1>2. page[n].words \in Seq(STRING)
    BY <1>0 DEF IsElement
  <1>3. IsAttributes(page[n].attrs)
    BY <1>0 DEF IsElement
  <1> QED
    BY <1>1, <1>2, <1>3

Joined(a, b) == a \o b

\* What the first i of some sequences are together, for every i.
FlatGoes(T, s, F) ==
    /\ F \in [0..Len(s) -> Seq(T)] /\ F[0] = <<>>
    /\ \A i \in 1..Len(s) : F[i] = Joined(F[i - 1], s[i])
    /\ FlattenSeq(s) = F[Len(s)]

LEMMA FlatSteps ==
    ASSUME NEW T, NEW s \in Seq(Seq(T)), Len(s) # 0
    PROVE  \E F : FlatGoes(T, s, F)
  <1> DEFINE n == Len(s)
             S == Seq(T)
             base == <<>>
             step == [i \in 1..n |-> [p \in S |-> Joined(p, s[i])]]
             Is(g) == g = [i \in 1..n |-> IF i = 1 THEN s[i] ELSE Joined(g[i - 1], s[i])]
             flatten == CHOOSE g : Is(g)
  <1>1. n \in Nat \ {0} /\ base \in S /\ \A i \in 1..n : s[i] \in S
    OBVIOUS
  <1>2. FlattenSeq(s) = flatten[n]
    BY DEF FlattenSeq, Joined
  <1>3. /\ \A i \in 1..n, p \in S : Joined(p, s[i]) \in S
        /\ \A i \in 1..n : Joined(base, s[i]) = s[i]
    <2> SUFFICES ASSUME NEW i \in 1..n, NEW p \in S
                 PROVE  Joined(p, s[i]) \in S /\ Joined(base, s[i]) = s[i]
      BY <1>1
    <2> DEFINE e == s[i]
    <2>1. e \in Seq(T)
      BY <1>1
    <2> HIDE DEF e
    <2>2. p \o e \in Seq(T) /\ <<>> \o e = e
      BY <2>1
    <2> QED
      BY <2>2 DEF e, Joined
  <1>4. step \in [1..n -> [S -> S]]
    <2> HIDE DEF S, n
    <2> QED
      BY <1>3
  <1> HIDE DEF n, S, base
  <1>5. PICK F : F \in RecursionsOf(S, n, step, base)
    <2> HIDE DEF step
    <2>1. RecursionsOf(S, n, step, base) # {}
      BY <1>1, <1>4, RecursionExists
    <2> QED
      BY <2>1
  <1>6. F \in [0..n -> S] /\ F[0] = base /\ \A i \in 1..n : F[i] = step[i][F[i - 1]]
    BY <1>5 DEF RecursionsOf
  <1>7. \A i \in 1..n : F[i] = Joined(F[i - 1], s[i])
    <2> SUFFICES ASSUME NEW i \in 1..n
                 PROVE  F[i] = Joined(F[i - 1], s[i])
      OBVIOUS
    <2>1. F[i - 1] \in S
      BY <1>1, <1>6
    <2> QED
      BY <1>6, <2>1
  <1> HIDE DEF step
  <1> DEFINE G == [i \in 1..n |-> F[i]]
  <1>8. Is(G)
    <2>1. \A i \in 1..n : G[i] = IF i = 1 THEN s[i] ELSE Joined(G[i - 1], s[i])
      <3> SUFFICES ASSUME NEW i \in 1..n
                   PROVE  G[i] = IF i = 1 THEN s[i] ELSE Joined(G[i - 1], s[i])
        OBVIOUS
      <3>1. CASE i = 1
        <4>1. F[i] = Joined(F[0], s[i])
          <5>1. i - 1 = 0
            BY <3>1
          <5> QED
            BY <1>7, <5>1
        <4> QED
          BY <1>3, <1>6, <3>1, <4>1
      <3>2. CASE i # 1
        <4>1. i - 1 \in 1..n
          BY <1>1, <3>2
        <4> QED
          BY <1>7, <3>2, <4>1
      <3> QED
        BY <3>1, <3>2
    <2>2. G = [i \in 1..n |-> G[i]]
      OBVIOUS
    <2> HIDE DEF G
    <2> QED
      BY <2>1, <2>2
  <1>9. Is(flatten)
    <2> HIDE DEF Is
    <2> QED
      BY <1>8
  <1> HIDE DEF flatten, G
  <1>10. \A i \in 1..n : flatten[i] = IF i = 1 THEN s[i] ELSE Joined(flatten[i - 1], s[i])
    BY <1>9
  <1> HIDE DEF Is
  <1> DEFINE K == {i \in 0..n : i # 0 => flatten[i] = F[i]}
  <1>11. 0..n \subseteq K
    <2>1. 0 \in K
      BY <1>1
    <2>2. ASSUME NEW i \in 0..(n - 1), i \in K
          PROVE  i + 1 \in K
      <3>1. i + 1 \in 1..n /\ i + 1 - 1 = i /\ i + 1 \in 0..n
        BY <1>1
      <3>2. F[i + 1] = Joined(F[i], s[i + 1])
        BY <1>7, <3>1
      <3>3. CASE i = 0
        <4>1. F[1] = s[1]
          <5>1. 1 \in 1..n /\ F[1] = Joined(F[0], s[1])
            BY <3>1, <3>2, <3>3
          <5> QED
            BY <1>3, <1>6, <5>1
        <4> QED
          BY <1>10, <3>1, <3>3, <4>1
      <3>4. CASE i # 0
        <4>1. flatten[i] = F[i] /\ i + 1 # 1
          BY <1>1, <2>2, <3>4
        <4> QED
          BY <1>10, <3>1, <3>2, <4>1
      <3> QED
        BY <3>3, <3>4
    <2> HIDE DEF K
    <2> QED
      BY <1>1, <2>1, <2>2, UpTo
  <1>12. flatten[n] = F[n]
    BY <1>1, <1>11
  <1> QED
    BY <1>2, <1>6, <1>7, <1>12 DEF FlatGoes, n, S, base

LEMMA FlatIs ==
    ASSUME NEW T, NEW s \in Seq(Seq(T)), Len(s) # 0
    PROVE  FlattenSeq(s) \in Seq(T)
  <1>1. PICK F : FlatGoes(T, s, F)
    BY FlatSteps
  <1>2. Len(s) \in 0..Len(s)
    OBVIOUS
  <1> QED
    BY <1>1, <1>2 DEF FlatGoes

LEMMA PositionsAre ==
    ASSUME NEW page, IsPage(page)
    PROVE  /\ Positions(page) \in Seq(DOMAIN page) /\ Len(Positions(page)) = Len(page)
           /\ \A n \in DOMAIN page : Positions(page)[n] = n
  <1>1. Len(page) \in Nat /\ DOMAIN page = 1..Len(page)
    BY PageIs
  <1> DEFINE N == Len(page)
             s == [n \in 1..N |-> n]
  <1>2. Positions(page) = s
    BY <1>1 DEF Positions
  <1> HIDE DEF N
  <1>3. s \in Seq(1..N) /\ Len(s) = N /\ \A n \in 1..N : s[n] = n
    BY <1>1 DEF N
  <1> QED
    BY <1>1, <1>2, <1>3 DEF N

\* A piece for each element of a page, all of one kind.
LEMMA PiecesAre ==
    ASSUME NEW page, IsPage(page), NEW T, NEW pieces, pieces = [n \in DOMAIN page |-> pieces[n]],
           \A n \in DOMAIN page : pieces[n] \in Seq(T)
    PROVE  pieces \in Seq(Seq(T)) /\ Len(pieces) = Len(page) /\ Len(pieces) # 0
  <1>1. Len(page) \in Nat /\ DOMAIN page = 1..Len(page) /\ 1 \in DOMAIN page
    BY PageIs
  <1> DEFINE S == Seq(T)
             N == Len(page)
  <1>2. pieces = [n \in 1..N |-> pieces[n]] /\ N \in Nat /\ 1 \in 1..N /\ \A n \in 1..N : pieces[n] \in S
    BY <1>1
  <1> HIDE DEF S, N
  <1>3. pieces \in Seq(S) /\ Len(pieces) = N /\ N # 0
    BY <1>2
  <1> QED
    BY <1>3 DEF S, N

LEMMA OrderedPieces ==
    ASSUME NEW page, IsPage(page), NEW nodes, NEW pieces,
           pieces = [n \in DOMAIN page |-> IF n \in nodes THEN <<n>> ELSE <<>>]
    PROVE  pieces \in Seq(Seq(DOMAIN page \cap nodes)) /\ Len(pieces) = Len(page) /\ Len(pieces) # 0
  <1> DEFINE T == DOMAIN page \cap nodes
  <1>1. \A n \in DOMAIN page : pieces[n] \in Seq(T)
    <2> SUFFICES ASSUME NEW n \in DOMAIN page
                 PROVE  pieces[n] \in Seq(T)
      OBVIOUS
    <2>1. n \in nodes => n \in T
      BY Zenon
    <2> HIDE DEF T
    <2>2. <<>> \in Seq(T) /\ (n \in nodes => <<n>> \in Seq(T))
      BY <2>1
    <2>3. pieces[n] = IF n \in nodes THEN <<n>> ELSE <<>>
      OBVIOUS
    <2> QED
      BY <2>2, <2>3
  <1>2. pieces = [n \in DOMAIN page |-> pieces[n]]
    OBVIOUS
  <1> HIDE DEF T
  <1>3. pieces \in Seq(Seq(T)) /\ Len(pieces) = Len(page) /\ Len(pieces) # 0
    <2> DEFINE own == pieces
    <2>1. own = [n \in DOMAIN page |-> own[n]] /\ \A n \in DOMAIN page : own[n] \in Seq(T)
      BY <1>1, <1>2
    <2> HIDE DEF own
    <2>2. own \in Seq(Seq(T)) /\ Len(own) = Len(page) /\ Len(own) # 0
      BY <2>1, PiecesAre
    <2> QED
      BY <2>2 DEF own
  <1> QED
    BY <1>3 DEF T

LEMMA OrderedIs ==
    ASSUME NEW page, IsPage(page), NEW nodes
    PROVE  Ordered(page, nodes) \in Seq(DOMAIN page \cap nodes)
  <1> DEFINE pieces == [n \in DOMAIN page |-> IF n \in nodes THEN <<n>> ELSE <<>>]
             T == DOMAIN page \cap nodes
  <1>1. pieces \in Seq(Seq(T)) /\ Len(pieces) # 0
    BY OrderedPieces
  <1>2. Ordered(page, nodes) = FlattenSeq(pieces)
    BY DEF Ordered
  <1> HIDE DEF pieces, T
  <1>3. FlattenSeq(pieces) \in Seq(T)
    BY <1>1, FlatIs
  <1> QED
    BY <1>2, <1>3 DEF T

\* One element is all that is listed of it.
LEMMA OrderedOne ==
    ASSUME NEW page, IsPage(page), NEW r \in DOMAIN page
    PROVE  Ordered(page, {r}) = <<r>>
  <1> DEFINE pieces == [n \in DOMAIN page |-> IF n \in {r} THEN <<n>> ELSE <<>>]
             T == DOMAIN page \cap {r}
             N == Len(page)
             one == <<r>>
  <1>1. pieces \in Seq(Seq(T)) /\ Len(pieces) = N /\ Len(pieces) # 0
    BY OrderedPieces
  <1>2. Ordered(page, {r}) = FlattenSeq(pieces)
    BY DEF Ordered
  <1>3. N \in Nat /\ r \in 1..N /\ DOMAIN page = 1..N
    BY PageIs
  <1>4. \A i \in 1..N : pieces[i] = IF i = r THEN one ELSE <<>>
    BY <1>3
  <1>5. Joined(one, <<>>) = one /\ Joined(<<>>, <<>>) = <<>> /\ Joined(<<>>, one) = one
    BY DEF Joined
  <1> HIDE DEF pieces, T, N, one
  <1>6. PICK F : FlatGoes(T, pieces, F)
    BY <1>1, FlatSteps
  <1>7. /\ F[0] = <<>> /\ FlattenSeq(pieces) = F[N]
        /\ \A i \in 1..N : F[i] = Joined(F[i - 1], pieces[i])
    BY <1>1, <1>6 DEF FlatGoes
  <1> DEFINE K == {i \in 0..N : F[i] = IF i < r THEN <<>> ELSE one}
  <1>8. 0..N \subseteq K
    <2>1. 0 \in K
      BY <1>3, <1>7
    <2>2. ASSUME NEW i \in 0..(N - 1), i \in K
          PROVE  i + 1 \in K
      <3>1. i + 1 \in 1..N /\ i + 1 - 1 = i /\ i + 1 \in 0..N
        BY <1>3
      <3>2. F[i + 1] = Joined(F[i], pieces[i + 1])
        BY <1>7, <3>1
      <3>3. F[i] = IF i < r THEN <<>> ELSE one
        BY <2>2
      <3>4. pieces[i + 1] = IF i + 1 = r THEN one ELSE <<>>
        BY <1>4, <3>1
      <3>5. CASE i + 1 < r
        <4>1. i < r /\ i + 1 # r
          BY <1>3, <3>5
        <4>2. F[i + 1] = <<>>
          BY <1>5, <3>2, <3>3, <3>4, <4>1
        <4> QED
          BY <3>1, <3>5, <4>2
      <3>6. CASE i + 1 = r
        <4>1. i < r /\ ~(i + 1 < r)
          BY <1>3, <3>6
        <4>2. F[i + 1] = one
          BY <1>5, <3>2, <3>3, <3>4, <3>6, <4>1
        <4> QED
          BY <3>1, <4>1, <4>2
      <3>7. CASE i + 1 > r
        <4>1. ~(i < r) /\ i + 1 # r /\ ~(i + 1 < r)
          BY <1>3, <3>7
        <4>2. F[i + 1] = one
          BY <1>5, <3>2, <3>3, <3>4, <4>1
        <4> QED
          BY <3>1, <4>1, <4>2
      <3> QED
        BY <1>3, <3>5, <3>6, <3>7
    <2> HIDE DEF K
    <2> QED
      BY <1>3, <2>1, <2>2, UpTo
  <1>9. N \in K /\ ~(N < r)
    BY <1>3, <1>8
  <1>10. F[N] = one
    BY <1>9
  <1> QED
    BY <1>2, <1>7, <1>10 DEF one

LEMMA TagsAreStrings ==
    ASSUME NEW page, IsPage(page), NEW nodes
    PROVE  TagsOf(page, nodes) \in Seq(STRING)
  <1> DEFINE s == Ordered(page, nodes)
  <1>1. s \in Seq(DOMAIN page)
    <2> DEFINE A == DOMAIN page \cap nodes
               B == DOMAIN page
    <2>1. s \in Seq(A) /\ A \subseteq B
      BY OrderedIs
    <2> HIDE DEF A, B, s
    <2>2. s \in Seq(B)
      BY <2>1
    <2> QED
      BY <2>2 DEF B
  <1>2. TagsOf(page, nodes) = [i \in DOMAIN s |-> page[s[i]].tag]
    BY DEF TagsOf
  <1> HIDE DEF s
  <1>3. Len(s) \in Nat /\ DOMAIN s = 1..Len(s) /\ \A i \in DOMAIN s : s[i] \in DOMAIN page
    BY <1>1
  <1>4. \A i \in DOMAIN s : page[s[i]].tag \in STRING
    BY <1>3, ElementIs
  <1> DEFINE t == [i \in DOMAIN s |-> page[s[i]].tag]
             A == STRING
  <1>5. \A i \in DOMAIN s : t[i] \in A
    BY <1>4
  <1>6. t = [i \in 1..Len(s) |-> t[i]]
    BY <1>3
  <1> HIDE DEF t, A
  <1>7. t \in Seq(A)
    BY <1>3, <1>5, <1>6
  <1> QED
    BY <1>2, <1>7 DEF t, A

LEMMA TextIsWords ==
    ASSUME NEW page, IsPage(page), NEW node
    PROVE  NodeText(page, node) \in Seq(STRING)
  <1> DEFINE pieces == [m \in DOMAIN page |-> IF m \in Descendants(page, node) THEN page[m].words ELSE <<>>]
             T == STRING
  <1>1. \A m \in DOMAIN page : pieces[m] \in Seq(T)
    <2> SUFFICES ASSUME NEW m \in DOMAIN page
                 PROVE  pieces[m] \in Seq(T)
      OBVIOUS
    <2>1. page[m].words \in Seq(T)
      BY ElementIs
    <2>2. <<>> \in Seq(T)
      OBVIOUS
    <2>3. pieces[m] = IF m \in Descendants(page, node) THEN page[m].words ELSE <<>>
      OBVIOUS
    <2> QED
      BY <2>1, <2>2, <2>3
  <1>2. pieces = [m \in DOMAIN page |-> pieces[m]]
    OBVIOUS
  <1>3. NodeText(page, node) = FlattenSeq(pieces)
    BY DEF NodeText
  <1> HIDE DEF pieces, T
  <1>4. pieces \in Seq(Seq(T)) /\ Len(pieces) # 0
    BY <1>1, <1>2, PiecesAre
  <1>5. FlattenSeq(pieces) \in Seq(T)
    BY <1>4, FlatIs
  <1> QED
    BY <1>3, <1>5 DEF T

LEMMA NodeAttributesAre ==
    ASSUME NEW node, IsAttributes(node.attrs)
    PROVE  IsAttributes(NodeAttributes(node))
  <1> DEFINE E == IF node.id = "" THEN {} ELSE {"id"}
             D == DOMAIN node.attrs \cup E
  <1>1. IsFiniteSet(DOMAIN node.attrs) /\ \A k \in DOMAIN node.attrs : IsFiniteSet(node.attrs[k])
    BY DEF IsAttributes
  <1>2. IsFiniteSet(E) /\ E \subseteq {"id"}
    <2>1. E \in {{}, {"id"}}
      OBVIOUS
    <2>2. IsFiniteSet({}) /\ IsFiniteSet({"id"})
      BY FS_EmptySet, FS_Singleton
    <2> HIDE DEF E
    <2> QED
      BY <2>1, <2>2
  <1>3. IsFiniteSet(D)
    <2> HIDE DEF E
    <2> QED
      BY <1>1, <1>2, FS_Union
  <1>4. NodeAttributes(node) = [k \in D |-> IF k = "id" THEN {node.id} ELSE node.attrs[k]]
    BY DEF NodeAttributes
  <1>5. \A k \in D : k # "id" => k \in DOMAIN node.attrs
    <2> HIDE DEF E
    <2> QED
      BY <1>2
  <1>6. IsFiniteSet({node.id})
    BY FS_Singleton
  <1> HIDE DEF E, D
  <1>7. \A k \in D : IsFiniteSet(NodeAttributes(node)[k])
    BY <1>1, <1>4, <1>5, <1>6
  <1>8. DOMAIN NodeAttributes(node) = D
    BY <1>4
  <1> QED
    BY <1>3, <1>7, <1>8 DEF IsAttributes

LEMMA FingerprintIsPrint ==
    ASSUME NEW page, IsPage(page), NEW n \in DOMAIN page
    PROVE  IsPrint(FingerprintNode(page, n))
  <1> DEFINE parent == ParentOf(page, n)
             print == FingerprintNode(page, n)
             parentText == IF parent = 0 THEN <<>> ELSE NodeText(page, parent)
             parentAttributes == IF parent = 0 THEN <<>> ELSE NodeAttributes(page[parent])
  <1>1. parent # 0 => parent \in DOMAIN page
    BY PageIs
  <1>2. /\ print.text = NodeText(page, n) /\ print.parentText = parentText
        /\ print.siblings = TagsOf(page, Siblings(page, n)) /\ print.children = TagsOf(page, Children(page, n))
        /\ print.path = TagsOf(page, Ancestors(page, n) \cup {n})
        /\ print.attributes = NodeAttributes(page[n]) /\ print.parentAttributes = parentAttributes
    BY DEF FingerprintNode, PathTags
  <1>3. NodeText(page, n) \in Seq(STRING) /\ parentText \in Seq(STRING)
    <2>1. <<>> \in Seq(STRING)
      OBVIOUS
    <2> QED
      BY <2>1, TextIsWords
  <1>4. IsAttributes(NodeAttributes(page[n]))
    BY ElementIs, NodeAttributesAre
  <1>5. IsAttributes(parentAttributes)
    <2>1. CASE parent = 0
      <3>1. DOMAIN <<>> = {} /\ IsFiniteSet({})
        BY FS_EmptySet
      <3>2. IsAttributes(<<>>)
        BY <3>1 DEF IsAttributes
      <3> QED
        BY <2>1, <3>2
    <2>2. CASE parent # 0
      <3>1. IsAttributes(NodeAttributes(page[parent]))
        BY <1>1, <2>2, ElementIs, NodeAttributesAre
      <3> QED
        BY <2>2, <3>1
    <2> QED
      BY <2>1, <2>2
  <1>6. /\ TagsOf(page, Siblings(page, n)) \in Seq(STRING) /\ TagsOf(page, Children(page, n)) \in Seq(STRING)
        /\ TagsOf(page, Ancestors(page, n) \cup {n}) \in Seq(STRING)
    BY TagsAreStrings
  <1> HIDE DEF print, parentText, parentAttributes, parent
  <1>7. IsPrint(print)
    BY <1>2, <1>3, <1>4, <1>5, <1>6 DEF IsPrint
  <1> QED
    BY <1>7 DEF print

----------------------------------------------------------------------------
(* Scores *)

\* The sums of the first i of a sequence of numbers, for every i.
SumGoes(s, F) ==
    /\ F \in [0..Len(s) -> Nat]
    /\ F[0] = 0
    /\ \A i \in 1..Len(s) : F[i] = F[i - 1] + s[i]
    /\ FoldLeft(+, 0, s) = F[Len(s)]

LEMMA SumSteps ==
    ASSUME NEW s \in Seq(Nat)
    PROVE  \E F : SumGoes(s, F)
  <1> DEFINE n == Len(s)
             S == Nat
             step == [k \in 1..n |-> [p \in S |-> p + s[k]]]
             Value(f, u) == IF u = {} THEN 0 ELSE f[u \ {Max(u)}] + s[Max(u)]
             Is(f) == f = [u \in SUBSET DOMAIN s |-> Value(f, u)]
             f == CHOOSE g : Is(g)
  <1>1. n \in Nat /\ DOMAIN s = 1..n
    OBVIOUS
  <1>2. 0 \in S
    OBVIOUS
  <1>3. \A p \in S, k \in 1..n : p + s[k] \in S
    OBVIOUS
  <1>4. step \in [1..n -> [S -> S]]
    <2> HIDE DEF S, n
    <2> QED
      BY <1>3
  <1>5. FoldLeft(+, 0, s) = f[DOMAIN s]
    BY DEF FoldLeft, MapThenFoldSet
  <1>6. PICK g : g \in FoldsOf(S, n, step, 0)
    <2> DEFINE b == 0
    <2>1. b \in S /\ FoldsOf(S, n, step, b) = FoldsOf(S, n, step, 0)
      BY <1>2
    <2> HIDE DEF b
    <2> HIDE DEF S, n, step
    <2> QED
      BY <1>1, <1>2, <1>4, <2>1, FoldExists
  <1>7. Is(g)
    <2>1. g \in [SUBSET (1..n) -> S]
      <3> HIDE DEF S, n, step
      <3> QED
        BY <1>6 DEF FoldsOf
    <2>2. ASSUME NEW u \in SUBSET (1..n)
          PROVE  g[u] = Value(g, u)
      <3>1. CASE u = {}
        <4>1. g[u] = 0
          <5> HIDE DEF S, n, step
          <5> QED
            BY <1>6, <3>1 DEF FoldsOf
        <4> QED
          BY <3>1, <4>1
      <3>2. CASE u # {}
        <4>1. Max(u) \in 1..n /\ u \ {Max(u)} \in SUBSET (1..n)
          <5> HIDE DEF n
          <5> QED
            BY <1>1, <3>2, MaxIn
        <4> HIDE DEF n, S
        <4>2. g[u] = step[Max(u)][g[u \ {Max(u)}]]
          <5> HIDE DEF step
          <5> QED
            BY <1>6, <3>2 DEF FoldsOf
        <4>3. g[u \ {Max(u)}] \in S
          BY <2>1, <4>1
        <4> QED
          BY <3>2, <4>1, <4>2, <4>3
      <3> QED
        BY <3>1, <3>2
    <2> HIDE DEF Value, n, S, step
    <2> QED
      BY <1>1, <2>1, <2>2
  <1>8. Is(f)
    <2> HIDE DEF Is
    <2> QED
      BY <1>7
  <1> HIDE DEF f
  <1>9. f[{}] = 0
    BY <1>8
  <1>10. ASSUME NEW u \in SUBSET (1..n), u # {}, f[u \ {Max(u)}] \in S
         PROVE  f[u] = step[Max(u)][f[u \ {Max(u)}]]
    <2> HIDE DEF n, S
    <2>1. Max(u) \in 1..n
      BY <1>1, <1>10, MaxIn
    <2>2. f[u] = f[u \ {Max(u)}] + s[Max(u)]
      BY <1>1, <1>8, <1>10
    <2> QED
      BY <1>10, <2>1, <2>2
  <1> HIDE DEF S, n, step, Is, Value
  <1>11. \A u \in SUBSET (1..n) : u # {} /\ f[u \ {Max(u)}] \in S => f[u] = step[Max(u)][f[u \ {Max(u)}]]
    BY <1>10
  <1>12. Folds(f, S, n, step, 0)
    BY <1>1, <1>2, <1>4, <1>9, <1>11 DEF Folds
  <1>13. GoesStepByStep(f, S, n, step, 0)
    BY <1>12, FoldIsRecursion
  <1>14. PICK F \in RecursionsOf(S, n, step, 0) : F[n] = f[1..n]
    BY <1>13 DEF GoesStepByStep
  <1>15. /\ F \in [0..n -> S] /\ F[0] = 0
         /\ \A i \in 1..n : F[i] = step[i][F[i - 1]]
    BY <1>14 DEF RecursionsOf
  <1>16. ASSUME NEW i \in 1..n
         PROVE  F[i] = F[i - 1] + s[i]
    <2>1. F[i] = step[i][F[i - 1]] /\ F[i - 1] \in S
      BY <1>1, <1>15
    <2> QED
      BY <2>1 DEF step
  <1>17. FoldLeft(+, 0, s) = F[n]
    BY <1>1, <1>5, <1>14
  <1> QED
    BY <1>15, <1>16, <1>17 DEF n, S, SumGoes

LEMMA SumOfEight ==
    ASSUME NEW s \in Seq(Nat), Len(s) = 8
    PROVE  FoldLeft(+, 0, s) = s[1] + s[2] + s[3] + s[4] + s[5] + s[6] + s[7] + s[8]
  <1>1. PICK F : SumGoes(s, F)
    BY SumSteps
  <1>2. /\ F[0] = 0
        /\ \A i \in 1..8 : F[i] = F[i - 1] + s[i]
        /\ FoldLeft(+, 0, s) = F[8]
    BY <1>1 DEF SumGoes
  <1>3. \A i \in 1..8 : s[i] \in Nat
    <2> DEFINE A == Nat
    <2>1. s \in Seq(A)
      OBVIOUS
    <2> HIDE DEF A
    <2>2. \A i \in 1..Len(s) : s[i] \in A
      BY <2>1, ElementOfSeq
    <2>3. \A i \in 1..8 : s[i] \in A
      BY <2>2
    <2> QED
      BY <2>3 DEF A
  <1>4. F[1] = s[1]
    <2>1. 1 \in 1..8 /\ 1 - 1 = 0
      OBVIOUS
    <2>2. F[1] = 0 + s[1]
      BY <1>2, <2>1
    <2> QED
      BY <1>3, <2>1, <2>2
  <1>5. F[2] = F[1] + s[2]
    <2>1. 2 \in 1..8 /\ 2 - 1 = 1
      OBVIOUS
    <2> QED
      BY <1>2, <2>1
  <1>6. F[3] = F[2] + s[3]
    <2>1. 3 \in 1..8 /\ 3 - 1 = 2
      OBVIOUS
    <2> QED
      BY <1>2, <2>1
  <1>7. F[4] = F[3] + s[4]
    <2>1. 4 \in 1..8 /\ 4 - 1 = 3
      OBVIOUS
    <2> QED
      BY <1>2, <2>1
  <1>8. F[5] = F[4] + s[5]
    <2>1. 5 \in 1..8 /\ 5 - 1 = 4
      OBVIOUS
    <2> QED
      BY <1>2, <2>1
  <1>9. F[6] = F[5] + s[6]
    <2>1. 6 \in 1..8 /\ 6 - 1 = 5
      OBVIOUS
    <2> QED
      BY <1>2, <2>1
  <1>10. F[7] = F[6] + s[7]
    <2>1. 7 \in 1..8 /\ 7 - 1 = 6
      OBVIOUS
    <2> QED
      BY <1>2, <2>1
  <1>11. F[8] = F[7] + s[8]
    <2>1. 8 \in 1..8 /\ 8 - 1 = 7
      OBVIOUS
    <2> QED
      BY <1>2, <2>1
  <1>12. FoldLeft(+, 0, s) = F[8]
    BY <1>2
  <1> QED
    BY <1>4, <1>5, <1>6, <1>7, <1>8, <1>9, <1>10, <1>11, <1>12

\* A similarity counts for all of its weight at most, and for all of it if there is no
\* difference.
Counts(value, same) == value \in 0..Unit /\ (same => value = Unit)

LEMMA ExactCounts ==
    ASSUME NEW a, NEW b
    PROVE  Counts(ExactScore(a, b), a = b)
  BY DEF Counts, ExactScore, Unit

LEMMA ParentBounds ==
    ASSUME NEW c, NEW t, IsPrint(c), IsPrint(t)
    PROVE  ParentSimilarity(c, t) \in 0..(100 * Unit) /\ (c = t => ParentSimilarity(c, t) = 100 * Unit)
  <1> DEFINE x1 == ExactScore(c.parentTag, t.parentTag)
             x2 == StringSimilarity(c.parentText, t.parentText)
             x3 == MapKeySimilarity(c.parentAttributes, t.parentAttributes)
             x4 == AttrValueSimilarity(c.parentAttributes, t.parentAttributes)
  <1>1. /\ c.parentText \in Seq(STRING) /\ t.parentText \in Seq(STRING)
        /\ IsAttributes(c.parentAttributes) /\ IsAttributes(t.parentAttributes)
    BY DEF IsPrint
  <1>2. Counts(x1, c = t)
    <2>1. Counts(x1, c.parentTag = t.parentTag)
      BY ExactCounts
    <2> QED
      BY <2>1 DEF Counts
  <1>3. Counts(x2, c = t)
    BY <1>1, WordsBounds DEF Counts
  <1>4. Counts(x3, c = t) /\ Counts(x4, c = t)
    BY <1>1, AttributesBounds DEF Counts
  <1>5. ParentSimilarity(c, t) = 35 * x1 + 25 * x2 + 20 * x3 + 20 * x4
    BY DEF ParentSimilarity
  <1> HIDE DEF x1, x2, x3, x4
  <1> QED
    BY <1>2, <1>3, <1>4, <1>5 DEF Counts, Unit

\* A score is between none and the full one; what is compared with itself has the full one.
LEMMA ScoreBounds ==
    ASSUME NEW c, NEW t, IsPrint(c), IsPrint(t)
    PROVE  ScoreFingerprint(c, t) \in 0..FullScore /\ (c = t => ScoreFingerprint(c, t) = FullScore)
  <1> DEFINE x1 == ExactScore(c.tag, t.tag)
             x2 == StringSimilarity(c.text, t.text)
             x3 == MapKeySimilarity(c.attributes, t.attributes)
             x4 == AttrValueSimilarity(c.attributes, t.attributes)
             x5 == ParentSimilarity(c, t)
             x6 == SequenceSimilarity(c.siblings, t.siblings)
             x7 == SequenceSimilarity(c.path, t.path)
             x8 == SequenceSimilarity(c.children, t.children)
             s == Components(c, t)
  <1>1. /\ c.text \in Seq(STRING) /\ t.text \in Seq(STRING)
        /\ c.siblings \in Seq(STRING) /\ t.siblings \in Seq(STRING)
        /\ c.path \in Seq(STRING) /\ t.path \in Seq(STRING)
        /\ c.children \in Seq(STRING) /\ t.children \in Seq(STRING)
        /\ IsAttributes(c.attributes) /\ IsAttributes(t.attributes)
    BY DEF IsPrint
  <1>2. Counts(x1, c = t)
    <2>1. Counts(x1, c.tag = t.tag)
      BY ExactCounts
    <2> QED
      BY <2>1 DEF Counts
  <1>3. Counts(x2, c = t)
    BY <1>1, WordsBounds DEF Counts
  <1>4. Counts(x3, c = t) /\ Counts(x4, c = t)
    BY <1>1, AttributesBounds DEF Counts
  <1>5. x5 \in 0..(100 * Unit) /\ (c = t => x5 = 100 * Unit)
    BY ParentBounds
  <1>6. Counts(x6, c = t)
    BY <1>1, SequenceBounds DEF Counts
  <1>7. Counts(x7, c = t)
    BY <1>1, SequenceBounds DEF Counts
  <1>8. Counts(x8, c = t)
    BY <1>1, SequenceBounds DEF Counts
  <1>9. s = <<2200 * x1, 2200 * x2, 1100 * x3, 1400 * x4, 12 * x5, 500 * x6, 700 * x7, 700 * x8>>
    BY SMT DEF Components
  <1> DEFINE score == ScoreFingerprint(c, t)
             total == FoldLeft(+, 0, s)
  <1>10. score = total
    BY DEF ScoreFingerprint
  <1> HIDE DEF x1, x2, x3, x4, x5, x6, x7, x8, s, total, score
  <1>11. /\ x1 \in 0..Unit /\ x2 \in 0..Unit /\ x3 \in 0..Unit /\ x4 \in 0..Unit /\ x5 \in 0..(100 * Unit)
         /\ x6 \in 0..Unit /\ x7 \in 0..Unit /\ x8 \in 0..Unit
    BY <1>2, <1>3, <1>4, <1>5, <1>6, <1>7, <1>8 DEF Counts
  <1>12. c = t => /\ x1 = Unit /\ x2 = Unit /\ x3 = Unit /\ x4 = Unit /\ x5 = 100 * Unit
                  /\ x6 = Unit /\ x7 = Unit /\ x8 = Unit
    BY <1>2, <1>3, <1>4, <1>5, <1>6, <1>7, <1>8 DEF Counts
  <1>13. s \in Seq(Nat) /\ Len(s) = 8
    <2>1. /\ 2200 * x1 \in Nat /\ 2200 * x2 \in Nat /\ 1100 * x3 \in Nat /\ 1400 * x4 \in Nat
          /\ 12 * x5 \in Nat /\ 500 * x6 \in Nat /\ 700 * x7 \in Nat /\ 700 * x8 \in Nat
      BY <1>11, SMT DEF Unit
    <2> QED
      BY <1>9, <2>1, SMT
  <1>14. total = s[1] + s[2] + s[3] + s[4] + s[5] + s[6] + s[7] + s[8]
    BY <1>13, SumOfEight DEF total
  <1>15. /\ s[1] = 2200 * x1 /\ s[2] = 2200 * x2 /\ s[3] = 1100 * x3 /\ s[4] = 1400 * x4
         /\ s[5] = 12 * x5 /\ s[6] = 500 * x6 /\ s[7] = 700 * x7 /\ s[8] = 700 * x8
    BY <1>9, SMT
  <1>16. score = 2200 * x1 + 2200 * x2 + 1100 * x3 + 1400 * x4 + 12 * x5
                        + 500 * x6 + 700 * x7 + 700 * x8
    BY <1>10, <1>14, <1>15, SMT
  <1> DEFINE u == Unit
  <1>17. u = 60 /\ FullScore = 600000
    BY SMT DEF Unit, FullScore
  <1>18. /\ x1 \in 0..u /\ x2 \in 0..u /\ x3 \in 0..u /\ x4 \in 0..u /\ x5 \in 0..(100 * u)
         /\ x6 \in 0..u /\ x7 \in 0..u /\ x8 \in 0..u
    BY <1>11
  <1>19. c = t => /\ x1 = u /\ x2 = u /\ x3 = u /\ x4 = u /\ x5 = 100 * u
                  /\ x6 = u /\ x7 = u /\ x8 = u
    BY <1>12
  <1> HIDE DEF u
  <1>20. score \in Nat /\ score <= 600000
    <2>2. 2200 * x1 \in Nat /\ 2200 * x1 <= 132000 /\ 2200 * x2 \in Nat /\ 2200 * x2 <= 132000
      BY <1>17, <1>18, SMT
    <2>3. /\ 1100 * x3 \in Nat /\ 1100 * x3 <= 66000 /\ 1400 * x4 \in Nat /\ 1400 * x4 <= 84000
      BY <1>17, <1>18, SMT
    <2>4. /\ 12 * x5 \in Nat /\ 12 * x5 <= 72000 /\ 500 * x6 \in Nat /\ 500 * x6 <= 30000
      BY <1>17, <1>18, SMT
    <2>5. /\ 700 * x7 \in Nat /\ 700 * x7 <= 42000 /\ 700 * x8 \in Nat /\ 700 * x8 <= 42000
      BY <1>17, <1>18, SMT
    <2> DEFINE y1 == 2200 * x1
               y2 == 2200 * x2
               y3 == 1100 * x3
               y4 == 1400 * x4
               y5 == 12 * x5
               y6 == 500 * x6
               y7 == 700 * x7
               y8 == 700 * x8
    <2>6. score = y1 + y2 + y3 + y4 + y5 + y6 + y7 + y8
      BY <1>16, SMT
    <2> HIDE DEF y1, y2, y3, y4, y5, y6, y7, y8
    <2>7. /\ y1 \in Nat /\ y1 <= 132000 /\ y2 \in Nat /\ y2 <= 132000
      BY <2>2, SMT DEF y1, y2
    <2>8. /\ y3 \in Nat /\ y3 <= 66000 /\ y4 \in Nat /\ y4 <= 84000
      BY <2>3, SMT DEF y3, y4
    <2>9. /\ y5 \in Nat /\ y5 <= 72000 /\ y6 \in Nat /\ y6 <= 30000
      BY <2>4, SMT DEF y5, y6
    <2>10. /\ y7 \in Nat /\ y7 <= 42000 /\ y8 \in Nat /\ y8 <= 42000
      BY <2>5, SMT DEF y7, y8
    <2> QED
      BY <2>6, <2>7, <2>8, <2>9, <2>10, SMT
  <1>21. c = t => score = 600000
    BY <1>16, <1>17, <1>19, SMT
  <1> QED
    <2> DEFINE full == FullScore
    <2>1. full = 600000
      BY <1>17
    <2> HIDE DEF full
    <2>2. score \in Nat /\ full \in Nat /\ score <= full /\ (c = t => score = full)
      BY <1>20, <1>21, <2>1, SMT
    <2>3. score \in 0..full /\ (c = t => score = full)
      BY <2>2
    <2> QED
      BY <2>3 DEF score, full

----------------------------------------------------------------------------
(* Relocation *)

\* Scores are numbers up to the full one, each that of the element's own fingerprint.
LEMMA ScoresAre ==
    ASSUME NEW page, IsPage(page), NEW target, IsPrint(target)
    PROVE  \A n \in DOMAIN page :
              /\ Scores(page, target)[n] = ScoreFingerprint(FingerprintNode(page, n), target)
              /\ Scores(page, target)[n] \in 0..FullScore
  <1> DEFINE prints == FingerprintNodes(page)
             score == [c \in Range(prints) |-> ScoreFingerprint(c, target)]
  <1>1. Scores(page, target) = [n \in DOMAIN page |-> score[prints[n]]]
    BY DEF Scores
  <1>2. DOMAIN prints = DOMAIN page /\ \A n \in DOMAIN page : prints[n] = FingerprintNode(page, n)
    BY DEF FingerprintNodes
  <1> HIDE DEF prints
  <1>3. ASSUME NEW n \in DOMAIN page
        PROVE  /\ Scores(page, target)[n] = ScoreFingerprint(FingerprintNode(page, n), target)
               /\ Scores(page, target)[n] \in 0..FullScore
    <2>1. prints[n] \in Range(prints)
      BY <1>2 DEF Range
    <2>2. score[prints[n]] = ScoreFingerprint(prints[n], target)
      BY <2>1
    <2> HIDE DEF score
    <2>3. Scores(page, target)[n] = ScoreFingerprint(FingerprintNode(page, n), target)
      BY <1>1, <1>2, <2>2
    <2>4. ScoreFingerprint(FingerprintNode(page, n), target) \in 0..FullScore
      BY FingerprintIsPrint, ScoreBounds
    <2> QED
      BY <2>3, <2>4
  <1> QED
    BY <1>3

LEMMA FullIsNat == FullScore \in Nat
  BY SMT DEF FullScore, Unit

\* The best of the first i elements, for every i.
RelocateGoes(page, target, minScore, F) ==
    /\ F \in [0..Len(Positions(page)) -> 0..Len(page)]
    /\ F[0] = 0
    /\ \A i \in 1..Len(Positions(page)) : F[i] = (IF Scores(page, target)[Positions(page)[i]] >= minScore /\ (F[i - 1] = 0 \/ Scores(page, target)[Positions(page)[i]] > Scores(page, target)[F[i - 1]]) THEN Positions(page)[i] ELSE F[i - 1])
    /\ Relocate(page, target, minScore) = F[Len(Positions(page))]

LEMMA RelocateSteps ==
    ASSUME NEW page, IsPage(page), NEW target, NEW minScore
    PROVE  \E F : RelocateGoes(page, target, minScore, F)
  <1> DEFINE n == Len(Positions(page))
             S == 0..Len(page)
             step == [k \in 1..n |-> [p \in S |-> (IF Scores(page, target)[Positions(page)[k]] >= minScore /\ (p = 0 \/ Scores(page, target)[Positions(page)[k]] > Scores(page, target)[p]) THEN Positions(page)[k] ELSE p)]]
             Value(f, u) == IF u = {} THEN 0 ELSE (IF Scores(page, target)[Positions(page)[Max(u)]] >= minScore /\ (f[u \ {Max(u)}] = 0 \/ Scores(page, target)[Positions(page)[Max(u)]] > Scores(page, target)[f[u \ {Max(u)}]]) THEN Positions(page)[Max(u)] ELSE f[u \ {Max(u)}])
             Is(f) == f = [u \in SUBSET DOMAIN Positions(page) |-> Value(f, u)]
             f == CHOOSE g : Is(g)
  <1>1. n \in Nat /\ DOMAIN Positions(page) = 1..n
    BY PositionsAre, PageIs
  <1>2. 0 \in S
    BY PageIs
  <1>3. \A p \in S, k \in 1..n : (IF Scores(page, target)[Positions(page)[k]] >= minScore /\ (p = 0 \/ Scores(page, target)[Positions(page)[k]] > Scores(page, target)[p]) THEN Positions(page)[k] ELSE p) \in S
    <2> SUFFICES ASSUME NEW p \in S, NEW k \in 1..n
                 PROVE  Positions(page)[k] \in S
      OBVIOUS
    <2>1. k \in DOMAIN page /\ Positions(page)[k] = k
      BY <1>1, PositionsAre, PageIs
    <2> QED
      BY <2>1, PageIs
  <1>4. step \in [1..n -> [S -> S]]
    <2> HIDE DEF S, n
    <2> QED
      BY <1>3
  <1>5. Relocate(page, target, minScore) = f[DOMAIN Positions(page)]
    BY DEF Relocate, FoldLeft, MapThenFoldSet
  <1>6. PICK g : g \in FoldsOf(S, n, step, 0)
    <2> DEFINE b == 0
    <2>1. b \in S /\ FoldsOf(S, n, step, b) = FoldsOf(S, n, step, 0)
      BY <1>2
    <2> HIDE DEF b
    <2> HIDE DEF S, n, step
    <2> QED
      BY <1>1, <1>2, <1>4, <2>1, FoldExists
  <1>7. Is(g)
    <2>1. g \in [SUBSET (1..n) -> S]
      <3> HIDE DEF S, n, step
      <3> QED
        BY <1>6 DEF FoldsOf
    <2>2. ASSUME NEW u \in SUBSET (1..n)
          PROVE  g[u] = Value(g, u)
      <3>1. CASE u = {}
        <4>1. g[u] = 0
          <5> HIDE DEF S, n, step
          <5> QED
            BY <1>6, <3>1 DEF FoldsOf
        <4> QED
          BY <3>1, <4>1
      <3>2. CASE u # {}
        <4>1. Max(u) \in 1..n /\ u \ {Max(u)} \in SUBSET (1..n)
          <5> HIDE DEF n
          <5> QED
            BY <1>1, <3>2, MaxIn
        <4> HIDE DEF n, S
        <4>2. g[u] = step[Max(u)][g[u \ {Max(u)}]]
          <5> HIDE DEF step
          <5> QED
            BY <1>6, <3>2 DEF FoldsOf
        <4>3. g[u \ {Max(u)}] \in S
          BY <2>1, <4>1
        <4> QED
          BY <3>2, <4>1, <4>2, <4>3
      <3> QED
        BY <3>1, <3>2
    <2> HIDE DEF Value, n, S, step
    <2> QED
      BY <1>1, <2>1, <2>2
  <1>8. Is(f)
    <2> HIDE DEF Is
    <2> QED
      BY <1>7
  <1> HIDE DEF f
  <1>9. f[{}] = 0
    BY <1>8
  <1>10. ASSUME NEW u \in SUBSET (1..n), u # {}, f[u \ {Max(u)}] \in S
         PROVE  f[u] = step[Max(u)][f[u \ {Max(u)}]]
    <2> HIDE DEF n, S
    <2>1. Max(u) \in 1..n
      BY <1>1, <1>10, MaxIn
    <2>2. f[u] = (IF Scores(page, target)[Positions(page)[Max(u)]] >= minScore /\ (f[u \ {Max(u)}] = 0 \/ Scores(page, target)[Positions(page)[Max(u)]] > Scores(page, target)[f[u \ {Max(u)}]]) THEN Positions(page)[Max(u)] ELSE f[u \ {Max(u)}])
      BY <1>1, <1>8, <1>10
    <2> QED
      BY <1>10, <2>1, <2>2
  <1> HIDE DEF S, n, step, Is, Value
  <1>11. \A u \in SUBSET (1..n) : u # {} /\ f[u \ {Max(u)}] \in S => f[u] = step[Max(u)][f[u \ {Max(u)}]]
    BY <1>10
  <1>12. Folds(f, S, n, step, 0)
    BY <1>1, <1>2, <1>4, <1>9, <1>11 DEF Folds
  <1>13. GoesStepByStep(f, S, n, step, 0)
    BY <1>12, FoldIsRecursion
  <1>14. PICK F \in RecursionsOf(S, n, step, 0) : F[n] = f[1..n]
    BY <1>13 DEF GoesStepByStep
  <1>15. /\ F \in [0..n -> S] /\ F[0] = 0
         /\ \A i \in 1..n : F[i] = step[i][F[i - 1]]
    BY <1>14 DEF RecursionsOf
  <1>16. ASSUME NEW i \in 1..n
         PROVE  F[i] = (IF Scores(page, target)[Positions(page)[i]] >= minScore /\ (F[i - 1] = 0 \/ Scores(page, target)[Positions(page)[i]] > Scores(page, target)[F[i - 1]]) THEN Positions(page)[i] ELSE F[i - 1])
    <2>1. F[i] = step[i][F[i - 1]] /\ F[i - 1] \in S
      BY <1>1, <1>15
    <2> QED
      BY <2>1 DEF step
  <1>17. Relocate(page, target, minScore) = F[n]
    BY <1>1, <1>5, <1>14
  <1> QED
    BY <1>15, <1>16, <1>17 DEF n, S, RelocateGoes

\* r is the first of the best of the elements up to i, if any of them is good enough.
FirstBest(score, minScore, i, r) ==
    /\ r \in 0..i
    /\ r = 0 => \A j \in 1..i : score[j] < minScore
    /\ r # 0 => /\ score[r] >= minScore
                /\ \A j \in 1..i : score[j] <= score[r] /\ (j < r => score[j] < score[r])

\* One more element is the new best only if it is better.
LEMMA NextBest ==
    ASSUME NEW N \in Nat, NEW score, \A j \in 1..N : score[j] \in Int, NEW minScore \in Int,
           NEW i \in 0..(N - 1), NEW r, FirstBest(score, minScore, i, r), NEW s,
           s = IF score[i + 1] >= minScore /\ (r = 0 \/ score[i + 1] > score[r]) THEN i + 1 ELSE r
    PROVE  FirstBest(score, minScore, i + 1, s)
  <1>1. /\ r \in 0..i
        /\ r = 0 => \A j \in 1..i : score[j] < minScore
        /\ r # 0 => /\ score[r] >= minScore
                    /\ \A j \in 1..i : score[j] <= score[r] /\ (j < r => score[j] < score[r])
    BY DEF FirstBest
  <1>2. i \in Nat /\ i + 1 \in 1..N /\ \A j \in 1..(i + 1) : j \in 1..N /\ (j \in 1..i \/ j = i + 1)
    OBVIOUS
  <1>3. score[i + 1] \in Int /\ \A j \in 1..i : score[j] \in Int
    BY <1>2
  <1>4. r # 0 => r \in 1..i /\ score[r] \in Int
    BY <1>1, <1>2, <1>3
  <1>5. CASE score[i + 1] >= minScore /\ (r = 0 \/ score[i + 1] > score[r])
    <2>1. s = i + 1
      BY <1>5
    <2>2. \A j \in 1..i : score[j] < score[i + 1]
      BY <1>1, <1>3, <1>4, <1>5
    <2>3. \A j \in 1..(i + 1) : score[j] <= score[s] /\ (j < s => score[j] < score[s])
      BY <1>2, <1>3, <2>1, <2>2
    <2> QED
      BY <1>2, <1>5, <2>1, <2>3 DEF FirstBest
  <1>6. CASE ~(score[i + 1] >= minScore /\ (r = 0 \/ score[i + 1] > score[r]))
    <2>1. s = r
      BY <1>6
    <2>2. r = 0 => \A j \in 1..(i + 1) : score[j] < minScore
      BY <1>1, <1>2, <1>3, <1>6
    <2>3. r # 0 => /\ score[r] >= minScore
                   /\ \A j \in 1..(i + 1) : score[j] <= score[r] /\ (j < r => score[j] < score[r])
      BY <1>1, <1>2, <1>3, <1>4, <1>6
    <2>4. r \in 0..(i + 1)
      BY <1>1, <1>2
    <2> QED
      BY <2>1, <2>2, <2>3, <2>4 DEF FirstBest
  <1> QED
    BY <1>5, <1>6

LEMMA RelocateIsFirstBest ==
    ASSUME NEW page, IsPage(page), NEW target, IsPrint(target), NEW minScore \in Int
    PROVE  FirstBest(Scores(page, target), minScore, Len(page), Relocate(page, target, minScore))
  <1> DEFINE score == Scores(page, target)
             N == Len(page)
  <1>1. N \in Nat /\ DOMAIN page = 1..N
    BY PageIs
  <1>2. \A j \in 1..N : score[j] \in Int
    <2>1. \A j \in DOMAIN page : score[j] \in 0..FullScore
      BY ScoresAre
    <2> HIDE DEF score, N
    <2> QED
      BY <1>1, <2>1, FullIsNat
  <1>3. PICK F : RelocateGoes(page, target, minScore, F)
    BY RelocateSteps
  <1>4. Len(Positions(page)) = N /\ \A j \in 1..N : Positions(page)[j] = j
    BY <1>1, PositionsAre
  <1>5. /\ F \in [0..N -> 0..N] /\ F[0] = 0 /\ Relocate(page, target, minScore) = F[N]
        /\ \A i \in 1..N : F[i] = IF score[i] >= minScore /\ (F[i - 1] = 0 \/ score[i] > score[F[i - 1]]) THEN i ELSE F[i - 1]
    <2>1. /\ F \in [0..Len(Positions(page)) -> 0..N] /\ F[0] = 0
          /\ Relocate(page, target, minScore) = F[Len(Positions(page))]
          /\ \A i \in 1..Len(Positions(page)) :
                F[i] = IF score[Positions(page)[i]] >= minScore
                           /\ (F[i - 1] = 0 \/ score[Positions(page)[i]] > score[F[i - 1]])
                       THEN Positions(page)[i] ELSE F[i - 1]
      BY <1>3 DEF RelocateGoes
    <2> HIDE DEF score, N
    <2> QED
      BY <1>1, <1>4, <2>1
  <1> HIDE DEF score, N
  <1> DEFINE T == {i \in 0..N : FirstBest(score, minScore, i, F[i])}
  <1>6. 0 \in T
    BY <1>1, <1>5 DEF FirstBest
  <1>7. ASSUME NEW i \in 0..(N - 1), i \in T
        PROVE  i + 1 \in T
    <2>1. i + 1 \in 1..N /\ i + 1 \in 0..N /\ i + 1 - 1 = i
      BY <1>1
    <2> DEFINE r == F[i]
               s == F[i + 1]
    <2>2. s = IF score[i + 1] >= minScore /\ (r = 0 \/ score[i + 1] > score[r]) THEN i + 1 ELSE r
      BY <1>5, <2>1
    <2>3. FirstBest(score, minScore, i, r)
      BY <1>7
    <2> HIDE DEF r, s, T
    <2>4. FirstBest(score, minScore, i + 1, s)
      BY <1>1, <1>2, <2>2, <2>3, NextBest
    <2> QED
      BY <2>1, <2>4 DEF s, T
  <1> HIDE DEF T
  <1>8. 0..N \subseteq T /\ N \in 0..N
    BY <1>1, <1>6, <1>7, UpTo
  <1>9. FirstBest(score, minScore, N, F[N])
    BY <1>8 DEF T
  <1> QED
    BY <1>5, <1>9 DEF score, N

\* The first of the best is one.
LEMMA FirstBestIsOne ==
    ASSUME NEW N \in Nat, NEW score, \A j \in 1..N : score[j] \in Int, NEW a \in 1..N, NEW b \in 1..N,
           \A j \in 1..N : score[j] <= score[a] /\ (j < a => score[j] < score[a]),
           \A j \in 1..N : score[j] <= score[b] /\ (j < b => score[j] < score[b])
    PROVE  a = b
  <1>1. score[a] = score[b]
    OBVIOUS
  <1>2. ~(a < b) /\ ~(b < a)
    BY <1>1
  <1> QED
    BY <1>2

\* An element with none before it in the order of the diagnosis is the first of the best.
LEMMA NoneBefore ==
    ASSUME NEW N \in Nat, NEW score, \A j \in 1..N : score[j] \in Int, NEW n \in 1..N
    PROVE  Cardinality({m \in 1..N : score[m] > score[n] \/ (score[m] = score[n] /\ m < n)}) = 0
              <=> \A j \in 1..N : score[j] <= score[n] /\ (j < n => score[j] < score[n])
  <1> DEFINE before == {m \in 1..N : score[m] > score[n] \/ (score[m] = score[n] /\ m < n)}
  <1>1. IsFiniteSet(before)
    <2>1. IsFiniteSet(1..N)
      BY FS_Interval
    <2>2. before \in SUBSET (1..N)
      OBVIOUS
    <2> HIDE DEF before
    <2> QED
      BY <2>1, <2>2, FS_Subset
  <1>2. before = {} <=> \A j \in 1..N : score[j] <= score[n] /\ (j < n => score[j] < score[n])
    OBVIOUS
  <1>3. Cardinality(before) = 0 <=> before = {}
    <2> HIDE DEF before
    <2> QED
      BY <1>1, FS_EmptySet
  <1> QED
    BY <1>2, <1>3

\* Of any page, some element is the best, whatever its score.
LEMMA SomeIsBest ==
    ASSUME NEW page, IsPage(page), NEW target, IsPrint(target)
    PROVE  \E b \in 1..Len(page) :
              \A j \in 1..Len(page) : /\ Scores(page, target)[j] <= Scores(page, target)[b]
                                      /\ j < b => Scores(page, target)[j] < Scores(page, target)[b]
  <1> DEFINE score == Scores(page, target)
             N == Len(page)
             b == Relocate(page, target, 0)
  <1>1. FirstBest(score, 0, N, b)
    BY RelocateIsFirstBest
  <1>2. N \in Nat /\ DOMAIN page = 1..N /\ 1 \in 1..N
    BY PageIs
  <1>3. score[1] \in 0..FullScore
    BY <1>2, ScoresAre
  <1> HIDE DEF score, N, b
  <1>4. b # 0
    <2>1. ~(score[1] < 0)
      BY <1>3, FullIsNat
    <2> QED
      BY <1>1, <1>2, <2>1 DEF FirstBest
  <1>5. b \in 1..N /\ \A j \in 1..N : score[j] <= score[b] /\ (j < b => score[j] < score[b])
    BY <1>1, <1>2, <1>4 DEF FirstBest
  <1> QED
    BY <1>5 DEF score, N

DiagnosedBest(page, target, minScore, b) ==
    /\ b \in 1..Len(page)
    /\ \A j \in 1..Len(page) : /\ Scores(page, target)[j] <= Scores(page, target)[b]
                               /\ j < b => Scores(page, target)[j] < Scores(page, target)[b]
    /\ Diagnose(page, target, minScore).best = b
    /\ Diagnose(page, target, minScore).accepted <=> Scores(page, target)[b] >= minScore

LEMMA DiagnosisIs ==
    ASSUME NEW page, IsPage(page), NEW target, IsPrint(target), NEW minScore \in Int
    PROVE  \E b : DiagnosedBest(page, target, minScore, b)
  <1> DEFINE score == Scores(page, target)
             N == Len(page)
             Before(n) == {m \in DOMAIN page : score[m] > score[n] \/ (score[m] = score[n] /\ m < n)}
             candidates == [i \in DOMAIN page |-> CHOOSE n \in DOMAIN page : Cardinality(Before(n)) = i - 1]
             accepted == score[candidates[1]] >= minScore
             reason == IF accepted THEN "" ELSE "below-threshold"
             diagnosis == Diagnose(page, target, minScore)
             Best(n) == \A j \in 1..N : score[j] <= score[n] /\ (j < n => score[j] < score[n])
             b == candidates[1]
  <1>1. N \in Nat /\ DOMAIN page = 1..N /\ 1 \in DOMAIN page
    BY PageIs
  <1>2. \A j \in 1..N : score[j] \in Int
    <2>1. \A j \in DOMAIN page : score[j] \in 0..FullScore
      BY ScoresAre
    <2> HIDE DEF score, N
    <2> QED
      BY <1>1, <2>1, FullIsNat
  <1>3. diagnosis = [best |-> candidates[1], accepted |-> accepted, candidates |-> candidates, reason |-> reason]
    BY DEF Diagnose
  <1>4. diagnosis.best = b /\ diagnosis.accepted = accepted
    <2> HIDE DEF diagnosis, candidates, accepted, reason
    <2> QED
      BY <1>3
  <1>5. PICK a \in 1..N : Best(a)
    BY SomeIsBest
  <1> HIDE DEF score, N, diagnosis
  <1>6. \A n \in 1..N : Cardinality(Before(n)) = 0 <=> Best(n)
    BY <1>1, <1>2, NoneBefore
  <1> HIDE DEF Before, Best
  <1>7. b = CHOOSE n \in DOMAIN page : Cardinality(Before(n)) = 0
    <2>1. 1 - 1 = 0
      OBVIOUS
    <2> QED
      BY <1>1, <2>1
  <1>8. b \in DOMAIN page /\ Cardinality(Before(b)) = 0
    <2> HIDE DEF b
    <2> QED
      BY <1>1, <1>5, <1>6, <1>7
  <1>9. b \in 1..N /\ Best(b)
    BY <1>1, <1>6, <1>8
  <1>10. diagnosis.accepted <=> score[b] >= minScore
    BY <1>4 DEF accepted
  <1> HIDE DEF b
  <1> QED
    BY <1>4, <1>9, <1>10 DEF DiagnosedBest, Best, score, N, diagnosis

\* Relocating and diagnosing come to the same element, the first of the best, and to none
\* together, on every page, for every fingerprint and threshold.  (document.go,
\* adaptive_diagnostics.go)
THEOREM RelocationAlwaysAgrees ==
    ASSUME NEW page, IsPage(page), NEW target, IsPrint(target), NEW minScore \in Int
    PROVE  RelocationAgrees(page, target, minScore)
  <1> DEFINE score == Scores(page, target)
             N == Len(page)
             r == Relocate(page, target, minScore)
             diagnosis == Diagnose(page, target, minScore)
  <1>1. N \in Nat /\ DOMAIN page = 1..N
    BY PageIs
  <1>2. \A j \in 1..N : score[j] \in Int
    <2>1. \A j \in DOMAIN page : score[j] \in 0..FullScore
      BY ScoresAre
    <2> HIDE DEF score, N
    <2> QED
      BY <1>1, <2>1, FullIsNat
  <1>3. FirstBest(score, minScore, N, r)
    BY RelocateIsFirstBest
  <1>4. PICK b : DiagnosedBest(page, target, minScore, b)
    BY DiagnosisIs
  <1>5. /\ b \in 1..N /\ \A j \in 1..N : score[j] <= score[b] /\ (j < b => score[j] < score[b])
        /\ diagnosis.best = b /\ (diagnosis.accepted <=> score[b] >= minScore)
    BY <1>4 DEF DiagnosedBest
  <1> HIDE DEF score, N, r, diagnosis
  <1>6. CASE r = 0
    <2>1. score[b] < minScore
      BY <1>3, <1>5, <1>6 DEF FirstBest
    <2>2. ~(score[b] >= minScore)
      BY <1>2, <1>5, <2>1
    <2>3. r = IF diagnosis.accepted THEN diagnosis.best ELSE 0
      BY <1>5, <1>6, <2>2
    <2> QED
      BY <2>3 DEF RelocationAgrees, r, diagnosis
  <1>7. CASE r # 0
    <2>1. /\ r \in 1..N /\ score[r] >= minScore
          /\ \A j \in 1..N : score[j] <= score[r] /\ (j < r => score[j] < score[r])
      BY <1>1, <1>3, <1>7 DEF FirstBest
    <2>2. r = b
      BY <1>1, <1>2, <1>5, <2>1, FirstBestIsOne
    <2>3. r = IF diagnosis.accepted THEN diagnosis.best ELSE 0
      BY <1>5, <2>1, <2>2
    <2> QED
      BY <2>3 DEF RelocationAgrees, r, diagnosis
  <1> QED
    BY <1>6, <1>7

\* What relocating the fingerprint of an element itself comes to.
LEMMA RelocatesToItsLike ==
    ASSUME NEW page, IsPage(page), NEW n \in DOMAIN page, NEW minScore \in Int, minScore <= FullScore
    PROVE  /\ Relocate(page, FingerprintNode(page, n), minScore) \in 1..n
           /\ Scores(page, FingerprintNode(page, n))[Relocate(page, FingerprintNode(page, n), minScore)] = FullScore
  <1> DEFINE target == FingerprintNode(page, n)
             score == Scores(page, target)
             N == Len(page)
             r == Relocate(page, target, minScore)
             full == FullScore
  <1>1. N \in Nat /\ DOMAIN page = 1..N
    BY PageIs
  <1>2. IsPrint(target)
    BY FingerprintIsPrint
  <1>3. \A j \in DOMAIN page : score[j] = ScoreFingerprint(FingerprintNode(page, j), target) /\ score[j] \in 0..full
    <2> HIDE DEF target
    <2> QED
      BY <1>2, ScoresAre
  <1>4. score[n] = full
    <2>1. score[n] = ScoreFingerprint(target, target)
      BY <1>3
    <2> HIDE DEF target, score
    <2>2. ScoreFingerprint(target, target) = full
      BY <1>2, ScoreBounds
    <2> QED
      BY <2>1, <2>2
  <1>5. FirstBest(score, minScore, N, r)
    <2> HIDE DEF target
    <2> QED
      BY <1>2, RelocateIsFirstBest
  <1>6. full \in Nat /\ minScore <= full
    BY FullIsNat
  <1> HIDE DEF target, score, N, r, full
  <1>7. \A j \in 1..N : score[j] \in Int /\ score[j] <= full
    BY <1>1, <1>3, <1>6
  <1>8. r # 0
    BY <1>1, <1>4, <1>5, <1>6 DEF FirstBest
  <1>9. r \in 1..N /\ score[n] <= score[r] /\ (n < r => score[n] < score[r])
    BY <1>1, <1>5, <1>8 DEF FirstBest
  <1>10. ~(n < r)
    BY <1>1, <1>4, <1>6, <1>7, <1>9
  <1>11. r \in 1..n /\ score[r] = full
    BY <1>1, <1>4, <1>6, <1>7, <1>9, <1>10
  <1> QED
    BY <1>11 DEF target, score, r, full

\* An element nothing happened to is found again, or one before it that has all of its
\* fingerprint, on every page, whatever score is asked for.  (score.go, fingerprint.go)
THEOREM UnmovedAlwaysFound ==
    ASSUME NEW page, IsPage(page), NEW minScore \in Int, minScore <= FullScore
    PROVE  UnmovedIsFound(page, minScore)
  <1> DEFINE prints == FingerprintNodes(page)
  <1> SUFFICES ASSUME NEW n \in DOMAIN page
               PROVE  /\ Relocate(page, prints[n], minScore) \in 1..n
                      /\ Scores(page, prints[n])[Relocate(page, prints[n], minScore)] = FullScore
    BY DEF UnmovedIsFound
  <1>1. prints[n] = FingerprintNode(page, n)
    BY DEF FingerprintNodes
  <1> HIDE DEF prints
  <1> QED
    BY <1>1, RelocatesToItsLike

----------------------------------------------------------------------------
(* Selections *)

\* What a selector adds to the answer of a selection of nothing yet.
OnlyBranch(one) == [one EXCEPT !.elements = IF one.error = "" THEN <<>> \o @ ELSE @]

LEMMA SelectOne ==
    ASSUME NEW page, NEW domain, NEW store, NEW branch, NEW opts, MinScoreValid(opts.percentage)
    PROVE  SelectCSS(page, domain, store, <<branch>>, opts) = OnlyBranch(SelectBranch(page, domain, store, branch, opts))
  <1> DEFINE seq == <<branch>>
             base == Selection(<<>>, store, "")
             Next(answer, b) == IF answer.error # "" THEN answer
                                ELSE [SelectBranch(page, domain, answer.store, b, opts) EXCEPT !.elements =
                                         IF SelectBranch(page, domain, answer.store, b, opts).error = ""
                                         THEN answer.elements \o @ ELSE @]
             Is(f) == f = [u \in SUBSET DOMAIN seq |->
                              IF u = {} THEN base ELSE Next(f[u \ {Max(u)}], seq[Max(u)])]
             f == CHOOSE g : Is(g)
             only == Next(base, branch)
             g == [u \in SUBSET DOMAIN seq |-> IF u = {} THEN base ELSE only]
  <1>1. SelectCSS(page, domain, store, <<branch>>, opts) = f[DOMAIN seq]
    BY DEF SelectCSS, FoldLeft, MapThenFoldSet
  <1>2. DOMAIN seq = {1} /\ seq[1] = branch
    OBVIOUS
  <1>3. only = OnlyBranch(SelectBranch(page, domain, store, branch, opts))
    <2>1. base.error = "" /\ base.store = store /\ base.elements = <<>>
      BY DEF Selection
    <2> HIDE DEF base
    <2> QED
      BY <2>1 DEF OnlyBranch
  <1> HIDE DEF only, seq, base, Next
  <1>4. Is(g)
    <2>1. ASSUME NEW u \in SUBSET DOMAIN seq, u # {}
          PROVE  Next(g[u \ {Max(u)}], seq[Max(u)]) = only
      <3>1. u = {1}
        BY <1>2, <2>1
      <3>2. Max(u) = 1 /\ u \ {Max(u)} = {}
        <4>1. Max(u) \in 1..1
          <5>1. u \in SUBSET (1..1) /\ 1 \in Nat
            BY <3>1
          <5> QED
            BY <2>1, <5>1, MaxIn
        <4> QED
          BY <3>1, <4>1
      <3>3. g[{}] = base
        OBVIOUS
      <3> HIDE DEF g
      <3> QED
        BY <1>2, <3>2, <3>3 DEF only
    <2> DEFINE h == [u \in SUBSET DOMAIN seq |-> IF u = {} THEN base ELSE Next(g[u \ {Max(u)}], seq[Max(u)])]
    <2>2. g = h
      BY <2>1
    <2> QED
      BY <2>2
  <1>5. Is(f)
    <2> HIDE DEF Is, g
    <2> QED
      BY <1>4
  <1> HIDE DEF f, g
  <1>6. f[{}] = base
    BY <1>5
  <1>7. f[{1}] = Next(f[{1} \ {Max({1})}], seq[Max({1})])
    BY <1>2, <1>5
  <1>8. Max({1}) = 1
    <2>1. {1} \in SUBSET (1..1) /\ {1} # {} /\ 1 \in Nat
      OBVIOUS
    <2>2. Max({1}) \in 1..1
      BY <2>1, MaxIn
    <2> QED
      BY <2>2
  <1>9. {1} \ {1} = {}
    OBVIOUS
  <1> HIDE DEF Is
  <1>10. f[{1}] = only
    BY <1>2, <1>6, <1>7, <1>8, <1>9 DEF only
  <1> QED
    BY <1>1, <1>2, <1>3, <1>10

\* A branch that finds something or nothing leaves just that as the whole answer.
LEMMA OnlyBranchIs ==
    ASSUME NEW T, NEW elements \in Seq(T), NEW store, NEW error
    PROVE  OnlyBranch(Selection(elements, store, error)) = Selection(elements, store, error)
  <1>1. <<>> \o elements = elements
    OBVIOUS
  <1> DEFINE one == Selection(elements, store, error)
  <1>2. one.error = error /\ one.elements = elements /\ one.store = store
    BY DEF Selection
  <1>3. OnlyBranch(one) = Selection(elements, store, error)
    BY <1>1 DEF OnlyBranch, Selection
  <1> QED
    BY <1>3

LEMMA ExtractedAre ==
    ASSUME NEW page, IsPage(page), NEW nodes, NEW extraction
    PROVE  Extracted(page, nodes, extraction) \in Seq(DOMAIN page)
  <1> DEFINE set == {n \in nodes : CASE extraction = "element" -> TRUE
                                     [] extraction = "text" -> page[n].words # <<>>
                                     [] OTHER -> extraction \in DOMAIN NodeAttributes(page[n])}
             s == Ordered(page, set)
             A == DOMAIN page \cap set
             D == DOMAIN page
  <1>1. Extracted(page, nodes, extraction) = s
    BY DEF Extracted
  <1> HIDE DEF set
  <1>2. s \in Seq(A) /\ A \subseteq D
    BY OrderedIs
  <1> HIDE DEF s, A, D
  <1>3. s \in Seq(D)
    BY <1>2
  <1> QED
    BY <1>1, <1>3 DEF D

LEMMA ExtractedNone ==
    ASSUME NEW page, IsPage(page), NEW extraction
    PROVE  Extracted(page, {}, extraction) = <<>>
  <1> DEFINE set == {n \in {} : CASE extraction = "element" -> TRUE
                                  [] extraction = "text" -> page[n].words # <<>>
                                  [] OTHER -> extraction \in DOMAIN NodeAttributes(page[n])}
             s == Ordered(page, set)
  <1>1. Extracted(page, {}, extraction) = s
    BY DEF Extracted
  <1>2. DOMAIN page \cap set = {}
    OBVIOUS
  <1> HIDE DEF set
  <1>3. s \in Seq(DOMAIN page \cap set)
    BY OrderedIs
  <1> HIDE DEF s
  <1>4. s \in Seq({})
    BY <1>2, <1>3
  <1>5. s = <<>>
    BY <1>4
  <1> QED
    BY <1>1, <1>5

LEMMA ExtractedOne ==
    ASSUME NEW page, IsPage(page), NEW r \in DOMAIN page
    PROVE  Extracted(page, {r}, "element") = <<r>>
  <1> DEFINE set == {n \in {r} : CASE "element" = "element" -> TRUE
                                   [] "element" = "text" -> page[n].words # <<>>
                                   [] OTHER -> "element" \in DOMAIN NodeAttributes(page[n])}
  <1>1. Extracted(page, {r}, "element") = Ordered(page, set)
    BY DEF Extracted
  <1>2. set = {r}
    OBVIOUS
  <1> HIDE DEF set
  <1> QED
    BY <1>1, <1>2, OrderedOne

\* A branch, where there is a store: what it finds, or what was saved under its key.
LEMMA BranchFinds ==
    ASSUME NEW page, NEW domain, NEW store, store.given, NEW branch, ~branch.invalid, NEW opts, opts.autoSave,
           Extracted(page, branch.matches, branch.extraction) # <<>>
    PROVE  SelectBranch(page, domain, store, branch, opts) =
              Selection(Extracted(page, branch.matches, branch.extraction),
                        Saved(store, SelectorKey(domain, branch, opts),
                              FingerprintNodes(page)[Extracted(page, branch.matches, branch.extraction)[1]]),
                        "")
  BY DEF SelectBranch

LEMMA BranchLosesAll ==
    ASSUME NEW page, NEW domain, NEW store, store.given, NEW branch, ~branch.invalid, NEW opts,
           Extracted(page, branch.matches, branch.extraction) = <<>>,
           SelectorKey(domain, branch, opts) \notin DOMAIN store.saved
    PROVE  SelectBranch(page, domain, store, branch, opts) = Selection(<<>>, store, "")
  BY DEF SelectBranch

\* A branch that finds nothing finds r by the fingerprint that was saved.
RelocatesTo(page, domain, store, branch, opts, r) ==
    /\ store.given /\ ~branch.invalid /\ branch.extraction = "element" /\ opts.adaptive /\ ~opts.autoSave
    /\ Extracted(page, branch.matches, branch.extraction) = <<>>
    /\ SelectorKey(domain, branch, opts) \in DOMAIN store.saved
    /\ r \in DOMAIN page
    /\ r = Relocate(page, store.saved[SelectorKey(domain, branch, opts)], MinScoreFromPercentage(opts.percentage))

FindsOnly(page, domain, store, branch, opts, r) ==
    SelectBranch(page, domain, store, branch, opts) = Selection(<<r>>, store, "")

LEMMA BranchRelocates ==
    ASSUME NEW page, IsPage(page), NEW domain, NEW store, NEW branch, NEW opts, NEW r,
           RelocatesTo(page, domain, store, branch, opts, r)
    PROVE  FindsOnly(page, domain, store, branch, opts, r)
  <1> DEFINE key == SelectorKey(domain, branch, opts)
             found == Extracted(page, branch.matches, branch.extraction)
             relocatedTo == [n \in 0..Len(page) |->
                                IF n = 0 THEN Selection(<<>>, store, "")
                                ELSE Selection(Extracted(page, {n}, branch.extraction),
                                               IF opts.autoSave THEN Saved(store, key, FingerprintNodes(page)[n]) ELSE store,
                                               "")]
             to == Relocate(page, store.saved[key], MinScoreFromPercentage(opts.percentage))
  <1>1. SelectBranch(page, domain, store, branch, opts) = relocatedTo[to]
    BY DEF SelectBranch, RelocatesTo
  <1>2. to = r /\ r \in DOMAIN page /\ ~opts.autoSave /\ branch.extraction = "element"
    BY DEF RelocatesTo
  <1> HIDE DEF to
  <1>3. r \in 0..Len(page) /\ r # 0
    BY <1>2, PageIs
  <1>4. relocatedTo[r] = Selection(Extracted(page, {r}, branch.extraction), store, "")
    BY <1>2, <1>3
  <1> HIDE DEF relocatedTo
  <1>5. Extracted(page, {r}, branch.extraction) = <<r>>
    BY <1>2, ExtractedOne
  <1> QED
    BY <1>1, <1>2, <1>4, <1>5 DEF FindsOnly

LEMMA NothingIs ==
    ASSUME NEW store, NEW error
    PROVE  OnlyBranch(Selection(<<>>, store, error)) = Selection(<<>>, store, error)
  <1>1. <<>> \in Seq(STRING)
    OBVIOUS
  <1> QED
    BY <1>1, OnlyBranchIs

LEMMA EmptyStoreIs == EmptyStore.given /\ DOMAIN EmptyStore.saved = {}
  <1> DEFINE none == <<>>
  <1>1. DOMAIN none = {}
    OBVIOUS
  <1> HIDE DEF none
  <1>2. EmptyStore = [given |-> TRUE, saved |-> none]
    BY DEF EmptyStore, none
  <1>3. EmptyStore.given /\ EmptyStore.saved = none
    BY <1>2
  <1> QED
    BY <1>1, <1>3

\* Options are a struct.
IsOptions(opts) ==
    DOMAIN opts = {"identifier", "autoSave", "adaptive", "percentage", "domain"} /\ opts.percentage \in Int

LEMMA AgainIs ==
    ASSUME NEW opts, IsOptions(opts), NEW again, again = [opts EXCEPT !.adaptive = TRUE, !.autoSave = FALSE]
    PROVE  /\ again.adaptive /\ ~again.autoSave
           /\ again.identifier = opts.identifier /\ again.percentage = opts.percentage /\ again.domain = opts.domain
  BY DEF IsOptions

LEMMA MinScoreIs ==
    ASSUME NEW percentage, MinScoreValid(percentage)
    PROVE  MinScoreFromPercentage(percentage) \in Int /\ MinScoreFromPercentage(percentage) <= FullScore
  <1>1. percentage \in Nat /\ percentage <= 100
    BY DEF MinScoreValid
  <1> QED
    BY <1>1, SMT DEF MinScoreFromPercentage, DefaultMinScore, FullScore, Unit

LEMMA SavedIs ==
    ASSUME NEW key, NEW fp
    PROVE  /\ Saved(EmptyStore, key, fp).given
           /\ key \in DOMAIN Saved(EmptyStore, key, fp).saved /\ Saved(EmptyStore, key, fp).saved[key] = fp
  <1> DEFINE e == EmptyStore
             saved == [k \in DOMAIN e.saved \cup {key} |-> IF k = key THEN fp ELSE e.saved[k]]
             store == Saved(EmptyStore, key, fp)
  <1>1. store = [e EXCEPT !.saved = saved]
    BY DEF Saved
  <1>2. key \in DOMAIN saved /\ saved[key] = fp
    OBVIOUS
  <1>3. e.given /\ DOMAIN e = {"given", "saved"}
    BY EmptyStoreIs DEF EmptyStore
  <1> HIDE DEF saved, store, e
  <1>4. store.given /\ store.saved = saved
    BY <1>1, <1>3
  <1> QED
    BY <1>2, <1>4 DEF store

\* first is the answer of a selection that saves, and there is something in it.
SavesSome(page, branch, saving, first) ==
    /\ saving.autoSave /\ first = SelectCSS(page, DefaultDomain, EmptyStore, <<branch>>, saving)
    /\ first.elements # <<>> /\ first.error = ""

\* What a selection that saves has saved, if it found something.
LEMMA FirstSelection ==
    ASSUME NEW page, IsPage(page), NEW branch, NEW saving, NEW first, SavesSome(page, branch, saving, first)
    PROVE  /\ MinScoreValid(saving.percentage)
           /\ first.elements[1] \in DOMAIN page
           /\ first.store = Saved(EmptyStore, SelectorKey(DefaultDomain, branch, saving),
                                  FingerprintNode(page, first.elements[1]))
  <1> DEFINE key == SelectorKey(DefaultDomain, branch, saving)
             found == Extracted(page, branch.matches, branch.extraction)
             one == SelectBranch(page, DefaultDomain, EmptyStore, branch, saving)
  <1>1. saving.autoSave
    BY DEF SavesSome
  <1>0. first = SelectCSS(page, DefaultDomain, EmptyStore, <<branch>>, saving)
    BY DEF SavesSome
  <1>a. first.elements # <<>> /\ first.error = ""
    BY DEF SavesSome
  <1>2. MinScoreValid(saving.percentage)
    <2> SUFFICES ASSUME ~MinScoreValid(saving.percentage)
                 PROVE  FALSE
      OBVIOUS
    <2>1. first = Selection(<<>>, EmptyStore, "ErrInvalidPercentage")
      BY <1>0 DEF SelectCSS
    <2>2. first.error = "ErrInvalidPercentage"
      BY <2>1 DEF Selection
    <2> QED
      BY <1>a, <2>2
  <1>3. first = OnlyBranch(one)
    BY <1>0, <1>2, SelectOne
  <1>4. EmptyStore.given /\ DOMAIN EmptyStore.saved = {}
    BY EmptyStoreIs
  <1>5. ~branch.invalid
    <2> SUFFICES ASSUME branch.invalid
                 PROVE  FALSE
      OBVIOUS
    <2>1. one = Selection(<<>>, EmptyStore, "ErrInvalidSelector")
      BY DEF SelectBranch
    <2> HIDE DEF one
    <2>2. first = Selection(<<>>, EmptyStore, "ErrInvalidSelector")
      BY <1>3, <2>1, NothingIs
    <2>3. first.error = "ErrInvalidSelector"
      BY <2>2 DEF Selection
    <2> QED
      BY <1>a, <2>3
  <1>6. found \in Seq(DOMAIN page)
    BY ExtractedAre
  <1>7. found # <<>>
    <2> SUFFICES ASSUME found = <<>>
                 PROVE  FALSE
      OBVIOUS
    <2>1. key \notin DOMAIN EmptyStore.saved
      BY <1>4
    <2>2. one = Selection(<<>>, EmptyStore, "")
      BY <1>4, <1>5, <2>1, BranchLosesAll
    <2> HIDE DEF one
    <2>3. first = Selection(<<>>, EmptyStore, "")
      BY <1>3, <2>2, NothingIs
    <2>4. first.elements = <<>>
      BY <2>3 DEF Selection
    <2> QED
      BY <1>a, <2>4
  <1> DEFINE store == Saved(EmptyStore, key, FingerprintNodes(page)[found[1]])
  <1>8. one = Selection(found, store, "")
    BY <1>1, <1>4, <1>5, <1>7, BranchFinds
  <1> HIDE DEF one, found, store
  <1>9. first = Selection(found, store, "")
    BY <1>3, <1>6, <1>8, OnlyBranchIs
  <1>10. first.elements = found /\ first.store = store
    BY <1>9 DEF Selection
  <1>11. found[1] \in DOMAIN page
    <2> DEFINE D == DOMAIN page
    <2>1. found \in Seq(D)
      BY <1>6
    <2> HIDE DEF D
    <2>2. 1 \in 1..Len(found)
      BY <1>7, <2>1, EmptySeq, LenProperties
    <2>3. found[1] \in D
      BY <2>1, <2>2, ElementOfSeq
    <2> QED
      BY <2>3 DEF D
  <1>12. FingerprintNodes(page)[found[1]] = FingerprintNode(page, found[1])
    BY <1>11 DEF FingerprintNodes
  <1> QED
    BY <1>2, <1>10, <1>11, <1>12 DEF store

\* What a selection saved under an identifier comes back to any selector that no longer
\* matches, under that identifier and that host: the element it was saved from or one just
\* like it, on every page, whatever the branch matched.  (document.go)
THEOREM SavedAlwaysComesBack ==
    ASSUME NEW page, IsPage(page), NEW branch, NEW saving, IsOptions(saving),
           NEW lost, ~lost.invalid, lost.matches = {}, lost.extraction = "element"
    PROVE  SavedComesBack(page, branch, lost, saving)
  <1> DEFINE opts == [saving EXCEPT !.adaptive = TRUE, !.autoSave = FALSE]
             first == SelectCSS(page, DefaultDomain, EmptyStore, <<branch>>, saving)
             again == SelectCSS(page, DefaultDomain, first.store, <<lost>>, opts)
             Back == /\ Len(again.elements) = 1
                     /\ Scores(page, FingerprintNodes(page)[first.elements[1]])[again.elements[1]] = FullScore
             Saves == saving.autoSave /\ saving.identifier # "" /\ first.elements # <<>> /\ first.error = ""
  <1>1. SavedComesBack(page, branch, lost, saving) <=> (Saves => Back)
    BY DEF SavedComesBack
  <1> SUFFICES ASSUME Saves
               PROVE  Back
    <2> HIDE DEF Saves, Back
    <2> QED
      BY <1>1
  <1>2. saving.autoSave /\ saving.identifier # "" /\ first.elements # <<>> /\ first.error = ""
    OBVIOUS
  <1> DEFINE n == first.elements[1]
             store == first.store
             key == SelectorKey(DefaultDomain, branch, saving)
             print == FingerprintNode(page, n)
             minScore == MinScoreFromPercentage(saving.percentage)
             r == Relocate(page, print, minScore)
  <1> HIDE DEF Saves, Back
  <1>3. /\ MinScoreValid(saving.percentage) /\ n \in DOMAIN page
        /\ store = Saved(EmptyStore, key, print)
    <2> HIDE DEF first
    <2>1. first = SelectCSS(page, DefaultDomain, EmptyStore, <<branch>>, saving)
      BY DEF first
    <2>2. SavesSome(page, branch, saving, first)
      BY <1>2, <2>1 DEF SavesSome
    <2> QED
      BY <2>2, FirstSelection
  <1>4. FingerprintNodes(page)[n] = print
    <2> HIDE DEF n
    <2> QED
      BY <1>3 DEF FingerprintNodes
  <1> HIDE DEF first, opts
  <1>5. store.given /\ key \in DOMAIN store.saved /\ store.saved[key] = print
    <2> HIDE DEF key, print, store
    <2> QED
      BY <1>3, SavedIs
  <1>6. /\ opts.adaptive /\ ~opts.autoSave
        /\ opts.identifier = saving.identifier /\ opts.percentage = saving.percentage /\ opts.domain = saving.domain
    BY AgainIs DEF opts
  <1>7. SelectorKey(DefaultDomain, lost, opts) = key
    BY <1>2, <1>6 DEF SelectorKey
  <1>8. minScore \in Int /\ minScore <= FullScore
    BY <1>3, MinScoreIs
  <1> HIDE DEF n
  <1>9. r \in 1..n /\ Scores(page, print)[r] = FullScore
    <2> HIDE DEF minScore
    <2> QED
      BY <1>3, <1>8, RelocatesToItsLike
  <1>10. r \in DOMAIN page
    <2> HIDE DEF r
    <2> QED
      BY <1>3, <1>9, PageIs
  <1>11. Extracted(page, lost.matches, lost.extraction) = <<>>
    BY ExtractedNone
  <1>12. r = Relocate(page, store.saved[SelectorKey(DefaultDomain, lost, opts)], MinScoreFromPercentage(opts.percentage))
    BY <1>5, <1>6, <1>7
  <1> HIDE DEF store, key, print, minScore, r
  <1>13. SelectBranch(page, DefaultDomain, store, lost, opts) = Selection(<<r>>, store, "")
    <2>1. RelocatesTo(page, DefaultDomain, store, lost, opts, r)
      BY <1>5, <1>6, <1>7, <1>10, <1>11, <1>12 DEF RelocatesTo
    <2>2. FindsOnly(page, DefaultDomain, store, lost, opts, r)
      BY <2>1, BranchRelocates
    <2> QED
      BY <2>2 DEF FindsOnly
  <1>14. again = OnlyBranch(SelectBranch(page, DefaultDomain, store, lost, opts))
    BY <1>3, <1>6, SelectOne DEF store
  <1>15. again = Selection(<<r>>, store, "")
    <2> DEFINE e == <<r>>
               T == {r}
    <2>1. e \in Seq(T)
      OBVIOUS
    <2>2. SelectBranch(page, DefaultDomain, store, lost, opts) = Selection(e, store, "")
      BY <1>13
    <2> HIDE DEF e, T, again
    <2>3. again = Selection(e, store, "")
      BY <1>14, <2>1, <2>2, OnlyBranchIs
    <2> QED
      BY <2>3 DEF e
  <1>16. again.elements = <<r>>
    <2> HIDE DEF again
    <2> QED
      BY <1>15 DEF Selection
  <1>17. Len(again.elements) = 1 /\ again.elements[1] = r
    <2> HIDE DEF again
    <2> QED
      BY <1>16
  <1> QED
    BY <1>4, <1>9, <1>17 DEF Back, n

----------------------------------------------------------------------------
(* Whatever is given to the parser *)

\* What a function is given is what was chosen for it.
LEMMA ChosenIs ==
    ASSUME NEW k, NEW inputs, Choose(k, inputs)
    PROVE  input'.k = k /\ "of" \in DOMAIN input' /\ input'.of \in inputs
  <1>1. PICK x \in inputs : input' = Input(k, x)
    BY DEF Choose
  <1> QED
    BY <1>1 DEF Input

\* PagesRight for all pages the parser makes, all selectors, fingerprints, thresholds,
\* branches and options: generated selectors find their element, likeness is mutual, the
\* two scanners agree, relocation and its diagnosis agree, and what was saved or did not
\* move is found again.  (parser/selector_generation.go, search.go, document.go,
\* adaptive_diagnostics.go; core/storage/score.go)
THEOREM PagesAlwaysRight == LibrarySpec => []PagesRight
  <1> DEFINE Inv == /\ Given("shapes") => input.of \in ShapedPages
                    /\ Given("relocation") => input.of \in MovedPages
                    /\ Given("selectors") => input.of \in SelectorTexts
  <1>1. LibraryInit => Inv
    <2>1. LibraryInit => "of" \notin DOMAIN input
      BY DEF LibraryInit
    <2> QED
      BY <2>1 DEF Given
  <1>2. Inv /\ [LibraryNext]_input => Inv'
    <2> SUFFICES ASSUME Inv, [LibraryNext]_input
                 PROVE  Inv'
      OBVIOUS
    <2>1. CASE Choose("shapes", ShapedPages)
      <3>1. input'.k = "shapes" /\ input'.of \in ShapedPages
        BY <2>1, ChosenIs
      <3> QED
        BY <3>1 DEF Given
    <2>2. CASE Choose("relocation", MovedPages)
      <3>1. input'.k = "relocation" /\ input'.of \in MovedPages
        BY <2>2, ChosenIs
      <3> QED
        BY <3>1 DEF Given
    <2>3. CASE Choose("selectors", SelectorTexts)
      <3>1. input'.k = "selectors" /\ input'.of \in SelectorTexts
        BY <2>3, ChosenIs
      <3> QED
        BY <3>1 DEF Given
    <2>4. CASE RobotsInput \/ OptionsInput \/ Choose("similar", SimilarPages)
      <3>1. input'.k \in {"robots", "static options", "browser options", "similar"}
        BY <2>4, ChosenIs DEF RobotsInput, OptionsInput
      <3> QED
        BY <3>1 DEF Given
    <2>5. CASE UNCHANGED input
      BY <2>5 DEF Given
    <2> QED
      BY <2>1, <2>2, <2>3, <2>4, <2>5 DEF LibraryNext, PagesInput
  <1>3. Inv => PagesRight
    <2> SUFFICES ASSUME Inv
                 PROVE  PagesRight
      OBVIOUS
    <2> DEFINE page == input.of
    <2>1. ASSUME Given("shapes")
          PROVE  SelectorFindsElement(page)
      <3>1. IsPage(page)
        BY <2>1, PagesAssumption
      <3> HIDE DEF page
      <3> QED
        BY <3>1, SelectorAlwaysFinds
    <2>2. \A t \in Thresholds, matchText \in BOOLEAN : SimilarIsMutual(page, t, matchText)
      <3> HIDE DEF page
      <3> QED
        BY SimilarAlwaysMutual
    <2>3. ASSUME Given("relocation")
          PROVE  /\ \A target \in SavedPrints, minScore \in MinScores : RelocationAgrees(page, target, minScore)
                 /\ UnmovedIsFound(page, FullScore)
                 /\ \A branch \in SavedBranches, lost \in LostBranches, saving \in Savings :
                       SavedComesBack(page, branch, lost, saving)
      <3>1. IsPage(page)
        BY <2>3, PagesAssumption
      <3> HIDE DEF page
      <3>2. ASSUME NEW target \in SavedPrints, NEW minScore \in MinScores
            PROVE  RelocationAgrees(page, target, minScore)
        <4>1. IsPrint(target) /\ minScore \in Int
          BY PagesAssumption
        <4> QED
          BY <3>1, <4>1, RelocationAlwaysAgrees
      <3>3. UnmovedIsFound(page, FullScore)
        <4> DEFINE full == FullScore
        <4>1. full \in Int /\ full <= FullScore
          BY FullIsNat
        <4> HIDE DEF full
        <4>2. UnmovedIsFound(page, full)
          BY <3>1, <4>1, UnmovedAlwaysFound
        <4> QED
          BY <4>2 DEF full
      <3>4. ASSUME NEW branch \in SavedBranches, NEW lost \in LostBranches, NEW saving \in Savings
            PROVE  SavedComesBack(page, branch, lost, saving)
        <4>1. ~lost.invalid /\ lost.matches = {} /\ lost.extraction = "element"
          BY PagesAssumption
        <4>2. IsOptions(saving)
          BY PagesAssumption DEF IsOptions
        <4> QED
          BY <3>1, <4>1, <4>2, SavedAlwaysComesBack
      <3> QED
        BY <3>2, <3>3, <3>4
    <2>4. ASSUME Given("selectors")
          PROVE  ScannersAgree(page)
      <3>1. page \in Names
        BY <2>4, PagesAssumption
      <3> HIDE DEF page
      <3> QED
        BY <3>1, ScannersAlwaysAgree
    <2> HIDE DEF Inv
    <2> QED
      BY <2>1, <2>2, <2>3, <2>4 DEF PagesRight
  <1> HIDE DEF Inv
  <1> QED
    BY <1>1, <1>2, <1>3, PTL DEF LibrarySpec
=============================================================================

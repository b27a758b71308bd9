------------------------------- MODULE Adaptive -------------------------------
(***************************************************************************)
(* Adaptive selection (parser/document.go, adaptive_diagnostics.go,        *)
(* core/storage/score.go, fingerprint.go, domain.go): the fingerprint of   *)
(* an element, the score of a candidate, the element a saved fingerprint   *)
(* is relocated to, and selections that save what they find and fall back  *)
(* on what was saved.  Scores are whole numbers: the sum of the components *)
(* with weights in percent of percents.                                    *)
(***************************************************************************)
EXTENDS Pages

----------------------------------------------------------------------------
(* Fingerprints *)

\* Elements as the parser lists them, in document order.
Ordered(page, nodes) == FlattenSeq([n \in DOMAIN page |-> IF n \in nodes THEN <<n>> ELSE <<>>])
Positions(page) == [n \in DOMAIN page |-> n]
TagsOf(page, nodes) == LET s == Ordered(page, nodes) IN [i \in DOMAIN s |-> page[s[i]].tag]
PathTags(page, n) == TagsOf(page, Ancestors(page, n) \cup {n})
NodeText(page, n) ==
    FlattenSeq([m \in DOMAIN page |-> IF m \in Descendants(page, n) THEN page[m].words ELSE <<>>])

\* fingerprintNode
FingerprintNode(page, n) ==
    LET parent == ParentOf(page, n)
    IN  [tag |-> page[n].tag, text |-> NodeText(page, n), attributes |-> NodeAttributes(page[n]),
         parentTag |-> TagOf(page, parent),
         parentText |-> IF parent = 0 THEN <<>> ELSE NodeText(page, parent),
         parentAttributes |-> IF parent = 0 THEN <<>> ELSE NodeAttributes(page[parent]),
         siblings |-> TagsOf(page, Siblings(page, n)), children |-> TagsOf(page, Children(page, n)),
         path |-> PathTags(page, n)]
FingerprintNodes(page) == [n \in DOMAIN page |-> FingerprintNode(page, n)]
\* One that was saved has what one is made of.
IsPrint(print) ==
    /\ {print.text, print.parentText, print.siblings, print.children, print.path} \subseteq Seq(STRING)
    /\ IsAttributes(print.attributes) /\ IsAttributes(print.parentAttributes)

----------------------------------------------------------------------------
(* Scores *)

ExactScore(a, b) == IF a = b THEN Unit ELSE 0
\* The row of the table for one more element, from the row before.
NextRow(previous, x, b) ==
    LET current[j \in 0..Len(b)] ==
            IF j = 0 THEN 0
            ELSE IF x = b[j] THEN previous[j - 1] + 1
            ELSE IF previous[j] > current[j - 1] THEN previous[j] ELSE current[j - 1]
    IN  current
LongestCommonSubsequence(a, b) ==
    LET rows[i \in 0..Len(a)] ==
            IF i = 0 THEN [j \in 0..Len(b) |-> 0] ELSE NextRow(rows[i - 1], a[i], b)
    IN  rows[Len(a)][Len(b)]
SequenceSimilarity(a, b) ==
    IF a = <<>> /\ b = <<>> THEN Unit
    ELSE (Unit * LongestCommonSubsequence(a, b)) \div Max({Len(a), Len(b)})

ParentSimilarity(c, t) ==
    35 * ExactScore(c.parentTag, t.parentTag) + 25 * StringSimilarity(c.parentText, t.parentText)
        + 20 * MapKeySimilarity(c.parentAttributes, t.parentAttributes)
        + 20 * AttrValueSimilarity(c.parentAttributes, t.parentAttributes)

\* scoreFingerprintComponents: the contribution of each component
Components(c, t) ==
    <<2200 * ExactScore(c.tag, t.tag), 2200 * StringSimilarity(c.text, t.text),
      1100 * MapKeySimilarity(c.attributes, t.attributes),
      1400 * AttrValueSimilarity(c.attributes, t.attributes),
      12 * ParentSimilarity(c, t), 500 * SequenceSimilarity(c.siblings, t.siblings),
      700 * SequenceSimilarity(c.path, t.path), 700 * SequenceSimilarity(c.children, t.children)>>
ScoreFingerprint(c, t) == FoldLeft(+, 0, Components(c, t))
\* The score of every element of a page; those with one fingerprint have one score.
Scores(page, target) ==
    LET prints == FingerprintNodes(page)
        score[c \in Range(prints)] == ScoreFingerprint(c, target)
    IN  [n \in DOMAIN page |-> score[prints[n]]]
FullScore == 10000 * Unit
DefaultMinScore == 6500 * Unit

MinScoreValid(percentage) == percentage \in 0..100
MinScoreFromPercentage(percentage) ==
    IF percentage = 0 THEN DefaultMinScore ELSE percentage * 100 * Unit

----------------------------------------------------------------------------
(* Relocation: the position of the element, 0 for none *)

\* Mutant: of equal scores the last wins.
RelocateLast(page, target, minScore) ==
    LET score == Scores(page, target)
        better(best, n) ==
            IF score[n] >= minScore /\ (best = 0 \/ score[n] >= score[best]) THEN n ELSE best
    IN  FoldLeft(better, 0, Positions(page))
\* relocateWithKey, of a fingerprint that was loaded
Relocate(page, target, minScore) ==
    LET score == Scores(page, target)
        better(best, n) ==
            IF score[n] >= minScore /\ (best = 0 \/ score[n] > score[best]) THEN n ELSE best
    IN  FoldLeft(better, 0, Positions(page))

\* DiagnoseRelocate: all candidates in stable order of their scores
Diagnose(page, target, minScore) ==
    LET score == Scores(page, target)
        before(m, n) == score[m] > score[n] \/ (score[m] = score[n] /\ m < n)
        candidates == [i \in DOMAIN page |->
                          CHOOSE n \in DOMAIN page : Cardinality({m \in DOMAIN page : before(m, n)}) = i - 1]
        accepted == score[candidates[1]] >= minScore
    IN  [best |-> candidates[1], accepted |-> accepted, candidates |-> candidates,
         reason |-> IF accepted THEN "" ELSE "below-threshold"]

----------------------------------------------------------------------------
(* Keys.  An address or a domain is a record: how it is written and its host. *)

DefaultDomain == "default"
AdaptiveDomain(url) == IF url.form = "absolute" THEN url.host ELSE DefaultDomain
\* selectorDomain: an address, a host with a port and a bare host all name the host.
SelectorDomain(default, override) == IF override.form = "blank" THEN default ELSE override.host
\* Mutant: an identifier goes together with the selector.
SelectorKeyBoth(domain, selector, opts) ==
    [domain |-> SelectorDomain(domain, opts.domain), identifier |-> <<selector.name, opts.identifier>>]
SelectorKey(domain, selector, opts) ==
    [domain |-> SelectorDomain(domain, opts.domain),
     identifier |-> IF opts.identifier = "" THEN <<selector.name>> ELSE <<opts.identifier>>]

----------------------------------------------------------------------------
(* Selections.  A selector is its branches; a branch has its text (name), the elements it *)
(* matches on the page and what it extracts ("element", "text" or an attribute's name).   *)
(* A store is a function on the keys saved so far, if the document was given one.         *)

EmptyStore == [given |-> TRUE, saved |-> <<>>]
Saved(store, key, fp) ==
    [store EXCEPT !.saved = [k \in DOMAIN @ \cup {key} |-> IF k = key THEN fp ELSE @[k]]]

\* applyExtraction: those of the elements that have such a value
Extracted(page, nodes, extraction) ==
    Ordered(page, {n \in nodes : CASE extraction = "element" -> TRUE
                                   [] extraction = "text" -> page[n].words # <<>>
                                   [] OTHER -> extraction \in DOMAIN NodeAttributes(page[n])})

Selection(elements, store, error) == [elements |-> elements, store |-> store, error |-> error]
SelectBranch(page, domain, store, branch, opts) ==
    LET key == SelectorKey(domain, branch, opts)
        found == Extracted(page, branch.matches, branch.extraction)
        save(n) == IF opts.autoSave THEN Saved(store, key, FingerprintNodes(page)[n]) ELSE store
        relocatedTo[n \in 0..Len(page)] ==
            IF n = 0 THEN Selection(<<>>, store, "")
            ELSE Selection(Extracted(page, {n}, branch.extraction), save(n), "")
    IN  IF branch.invalid THEN Selection(<<>>, store, "ErrInvalidSelector")
        ELSE IF ~store.given /\ (opts.autoSave \/ (found = <<>> /\ opts.adaptive))
            THEN Selection(<<>>, store, "ErrMissingStore")
        ELSE IF found # <<>> THEN Selection(found, save(found[1]), "")
        ELSE IF ~opts.adaptive \/ key \notin DOMAIN store.saved THEN Selection(<<>>, store, "")
        ELSE relocatedTo[Relocate(page, store.saved[key], MinScoreFromPercentage(opts.percentage))]

\* SelectCSS: an identifier keeps the selector whole; the first failing branch fails all of
\* it, though the branches before it have saved theirs.  Extracted values are dropped (the
\* elements they came from stay).
SelectCSS(page, domain, store, branches, opts) ==
    LET next(answer, branch) ==
            LET one == SelectBranch(page, domain, answer.store, branch, opts)
            IN  IF answer.error # "" THEN answer
                ELSE [one EXCEPT !.elements = IF one.error = "" THEN answer.elements \o @ ELSE @]
    IN  IF ~MinScoreValid(opts.percentage) THEN Selection(<<>>, store, "ErrInvalidPercentage")
        ELSE FoldLeft(next, Selection(<<>>, store, ""), branches)

----------------------------------------------------------------------------
(* Laws *)

\* Relocating and diagnosing, which go through the page separately, come to the same
\* element, the first of the best, and to none together.  (document.go:446-488,
\* adaptive_diagnostics.go:90-119)
RelocationAgrees(page, target, minScore) ==
    LET diagnosis == Diagnose(page, target, minScore)
    IN  Relocate(page, target, minScore) = (IF diagnosis.accepted THEN diagnosis.best ELSE 0)
\* An element nothing happened to is found again, or one before it that has all of its
\* fingerprint, whatever score is asked for.  (score.go, fingerprint.go)
UnmovedIsFound(page, minScore) ==
    LET prints == FingerprintNodes(page) IN
    \A n \in DOMAIN page :
        LET found == Relocate(page, prints[n], minScore)
        IN  found \in 1..n /\ Scores(page, prints[n])[found] = FullScore
\* What a selection saved under an identifier comes back to any selector that no longer
\* matches, under that identifier and that host, though the page's own address says
\* nothing of it: the element it was saved from or one just like it.  (document.go:65-139)
SavedComesBack(page, branch, lost, saving) ==
    LET opts == [saving EXCEPT !.adaptive = TRUE, !.autoSave = FALSE]
        comesBack(first) ==
            \E again \in {SelectCSS(page, DefaultDomain, first.store, <<lost>>, opts)} :
                /\ Len(again.elements) = 1
                /\ Scores(page, FingerprintNodes(page)[first.elements[1]])[again.elements[1]] = FullScore
    IN  \A first \in {SelectCSS(page, DefaultDomain, EmptyStore, <<branch>>, saving)} :
            (saving.autoSave /\ saving.identifier # "" /\ first.elements # <<>> /\ first.error = "")
                => comesBack(first)
=============================================================================

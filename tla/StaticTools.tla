----------------------------- MODULE StaticTools -----------------------------
(***************************************************************************)
(* The static tools for Gormes: which provider a key names (providers.go)  *)
(* and how the results of several providers become one ranking             *)
(* (results.go).  Scores are counted in units of 1/Unit, so that every     *)
(* weight divided by a position of the checked inputs is a whole number.   *)
(***************************************************************************)
EXTENDS Sequences, SequencesExt, Integers, FiniteSets, FiniteSetsExt

Unit == 60

----------------------------------------------------------------------------
(* Providers *)

NoProvider == [name |-> "", shortcut |-> "", enabled |-> FALSE]

\* Mutant: a name and a shortcut count alike.
ResolveProviderFirst(providers, key) ==
    LET matches == SelectSeq(providers, LAMBDA p : key \in {p.name, p.shortcut})
    IN  IF matches = <<>> \/ ~matches[1].enabled THEN NoProvider ELSE matches[1]
\* ResolveProvider: the provider of that name, else the only one of that shortcut.
ResolveProvider(providers, key) ==
    LET named == SelectSeq(providers, LAMBDA p : p.name = key)
        short == SelectSeq(providers, LAMBDA p : p.shortcut = key)
        found == IF key = "" THEN <<>> ELSE IF named # <<>> THEN <<named[1]>> ELSE short
    IN  IF Len(found) # 1 \/ ~found[1].enabled THEN NoProvider ELSE found[1]

\* A key names the same provider in whatever order providers of different names are
\* registered, never a disabled one, and a name is not taken by another's shortcut.
\* (ResolveProvider)
ProviderLaw(providers, key) ==
    LET p == ResolveProvider(providers, key)
        others == {q \in ToSet(providers) : q.name # p.name}
    IN  /\ p = ResolveProvider(Reverse(providers), key)
        /\ p = NoProvider \/ p.enabled
        /\ p # NoProvider => p.name = key \/ \A q \in others : key \notin {q.name, q.shortcut}
        /\ (\E q \in ToSet(providers) : q.name = key /\ q.enabled) => p.name = key

----------------------------------------------------------------------------
(* The results of several providers.  A result has a URL or none, a title  *)
(* or none, the names of its fields, its suggestions, and a provider with  *)
(* a weight.                                                               *)

\* resultContainerKey, and what Add takes instead if there is none.
Key(result) == IF result.url # "" THEN <<result.url>> ELSE <<result.provider, result.title>>
\* resultProviderWeight
Weight(result) == IF result.weight > 0 THEN result.weight ELSE 1

\* mergeMissingFields: into a map that was never made, as that of a first result without
\* fields, nothing is merged.
MergeMissingFields(target, source, position) ==
    IF DOMAIN target = {} THEN target
    ELSE [f \in DOMAIN target \cup source |-> IF f \in DOMAIN target THEN target[f] ELSE position]
AppendNew(seq, new) == FoldLeft(LAMBDA s, x : IF x \in ToSet(s) THEN s ELSE Append(s, x), seq, new)

\* Mutant: a position counts within its merged result.
EvidenceOwnCount(container, merged, result) ==
    LET position == Len(merged.providers) + 1
    IN  [provider |-> result.provider, position |-> position, score |-> (Weight(result) * Unit) \div position]
\* ResultProviderEvidence: the position counts all results.
Evidence(container, merged, result) ==
    LET position == container.position + 1
    IN  [provider |-> result.provider, position |-> position, score |-> (Weight(result) * Unit) \div position]

NewResultContainer == [results |-> <<>>, position |-> 0, suggestions |-> <<>>]
\* Add; a field's value is the position of the result that gave it.
Add(container, result) ==
    LET position == container.position + 1
        known == {i \in DOMAIN container.results : container.results[i].key = Key(result)}
        first == [key |-> Key(result), title |-> result.title, fields |-> [f \in result.fields |-> position],
                  suggestions |-> <<>>, providers |-> <<>>, score |-> 0]
        merged == IF known = {} THEN first ELSE container.results[Min(known)]
        evidence == Evidence(container, merged, result)
        updated == [merged EXCEPT !.title = IF @ = "" THEN result.title ELSE @,
                                  !.fields = MergeMissingFields(@, result.fields, position),
                                  !.suggestions = AppendNew(@, result.suggestions),
                                  !.providers = Append(@, evidence),
                                  !.score = @ + evidence.score]
    IN  [results |-> IF known = {} THEN Append(container.results, updated)
                     ELSE [container.results EXCEPT ![Min(known)] = updated],
         position |-> position,
         suggestions |-> AppendNew(container.suggestions, result.suggestions)]

\* Snapshot: the highest score first, of equal ones the one that was there first.
Snapshot(container) ==
    SortSeq(container.results, LAMBDA r, s :
        r.score > s.score \/ (r.score = s.score /\ r.providers[1].position < s.providers[1].position))

\* Every result is evidence of the one entry of its key, and of no other; an entry's title,
\* suggestions and fields are those of the earliest results that have them (fields only
\* where the first result of the key has any); and entries are ranked by what all
\* positions add up to.  (Add, Snapshot)
ContainerLaw(results) ==
    LET container == FoldLeft(Add, NewResultContainer, results)
        ranked == Snapshot(container)
        group(k) == {i \in DOMAIN results : Key(results[i]) = k}
        score(k) == MapThenSumSet(LAMBDA i : (Weight(results[i]) * Unit) \div i, group(k))
        titled(k) == {i \in group(k) : results[i].title # ""}
        first(k, f) == {i \in group(k) : f \in results[i].fields}
    IN  /\ ToSet([i \in DOMAIN ranked |-> ranked[i].key]) = {Key(results[i]) : i \in DOMAIN results}
        /\ \A i, j \in DOMAIN ranked : i # j => ranked[i].key # ranked[j].key
        /\ \A i \in DOMAIN ranked :
            LET r == ranked[i] IN
            /\ {e.position : e \in ToSet(r.providers)} = group(r.key)
            /\ Len(r.providers) = Cardinality(group(r.key))
            /\ r.score = score(r.key)
            /\ r.title = IF titled(r.key) = {} THEN "" ELSE results[Min(titled(r.key))].title
            /\ results[Min(group(r.key))].fields # {} =>
                    r.fields = [f \in UNION {results[j].fields : j \in group(r.key)} |-> Min(first(r.key, f))]
            /\ ToSet(r.suggestions) = UNION {ToSet(results[j].suggestions) : j \in group(r.key)}
            /\ i > 1 => \/ ranked[i - 1].score > r.score
                        \/ ranked[i - 1].score = r.score /\ Min(group(ranked[i - 1].key)) < Min(group(r.key))
        /\ ToSet(container.suggestions) = UNION {ToSet(r.suggestions) : r \in ToSet(results)}
        /\ IsInjective(container.suggestions)
=============================================================================

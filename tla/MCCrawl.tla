------------------------------ MODULE MCCrawl ------------------------------
(***************************************************************************)
(* Small sites for Crawl.  `a' is the start page; `b' may answer blocked   *)
(* and `c' has the higher priority; `cFragment' is `c' with a fragment.    *)
(***************************************************************************)
EXTENDS Crawl

CONSTANTS a, b, c, cFragment, offsite, broken, near, far

MCUrls == {a, b, c, cFragment, offsite, broken}
MCCanon == [u \in MCUrls |-> IF u = cFragment THEN c ELSE u]
MCDomainOf == [u \in MCUrls |-> IF u = offsite THEN far ELSE near]
Get(u) == [url |-> u, priority |-> 0, dontFilter |-> FALSE, retryCount |-> 0]
OneStart == {<<Get(a)>>}
\* Two starts: what one finds is queued while the other is in flight.
TwoStarts == {<<Get(a), Get(b)>>}
\* Starts that collide, and a list whose second URL does not parse.
ManyStarts == {<<Get(a), Get(c), Get(cFragment)>>, <<Get(a), Get(broken)>>}

To(u, p) == [item |-> FALSE, next |-> {[url |-> u, priority |-> p, dontFilter |-> FALSE, follow |-> FALSE]}]
Follow(u) == [item |-> FALSE, next |-> {[url |-> u, priority |-> 0, dontFilter |-> FALSE, follow |-> TRUE]}]
ItemOf(output) == [output EXCEPT !.item = TRUE]
JustItem == [item |-> TRUE, next |-> {}]

\* a links to b and to c twice; the blockable b links back and, through Follow, on.
PausePages == [u \in MCUrls |->
    CASE u = a -> <<To(b, 0), To(c, 1), To(cFragment, 0)>>
      [] u = b -> <<Follow(c), To(a, 0)>>
      [] OTHER -> <<>>]

\* The same with more items than the stream takes.
PauseItemPages == [PausePages EXCEPT ![a] = <<JustItem, JustItem>> \o @]

\* Pages for the hooks: items with and without links, links that are refused.
HookPages == [u \in MCUrls |->
    CASE u = a -> <<JustItem, ItemOf(To(b, 0)), To(offsite, 0), To(c, 0)>>
      [] u = b -> <<To(broken, 0), JustItem>>
      [] OTHER -> <<ItemOf(To(a, 0))>>]

\* Two hosts, three pages of one of them in flight together, items, a link that fails.
LimitPages == [u \in MCUrls |->
    CASE u = a -> <<To(b, 0), ItemOf(To(offsite, 0)), JustItem, To(c, 0)>>
      [] u = b -> <<To(broken, 0), To(c, 0)>>
      [] OTHER -> <<>>]
============================================================================

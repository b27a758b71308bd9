--------------------------- MODULE SessionsProofs ---------------------------
(***************************************************************************)
(* Sessions that are shared: the page pool of a browser session, for any   *)
(* number of calls and pages; the registry of browser sessions, for any    *)
(* number of tool calls, whatever ids they choose; the sessions of a crawl *)
(* and the documents it judges by, for any tasks, sites and runs.          *)
(***************************************************************************)
EXTENDS BrowserPool, SessionRegistry, SpiderSessions, FiniteSetTheorems, SequenceTheorems, TLAPS

----------------------------------------------------------------------------
(***************************************************************************)
(* The page pool of a browser session.                                     *)
(*                                                                         *)
(* The induction is over where pages are: each in one place, each that is  *)
(* counted by the mutex's side of the session (`pages' and their states)   *)
(* also held by a call or waiting in the channel.  Capacity is counted in  *)
(* pages: what is in the channel or on its way to it is part of `pages'    *)
(* until Close, and only shrinks after it.                                 *)
(***************************************************************************)
\* A call creates a page when it leaves "lock", and only there.
CreatedOnce == \A p \in DOMAIN state : at[p] \notin {"new", "lock", "wait"}

\* The pages held or free have been made.
PagesMade ==
    /\ \A f \in Fetches : page[f] # NoPage => page[f] \in DOMAIN state
    /\ Elements(available) \subseteq DOMAIN state

\* The pages in the channel or on their way to it.
Committed == Elements(available) \cup Holding({"return"})

Bounded == Cardinality(pages) <= MaxPages /\ Cardinality(Committed) <= MaxPages

PoolInv == PoolTypeOK /\ PagesExclusive /\ CreatedOnce /\ PagesMade

----------------------------------------------------------------------------
\* What a send and a receive do to the pages of the channel.
LEMMA ElementsAppend ==
    ASSUME NEW S, NEW s \in Seq(S), NEW x \in S
    PROVE  /\ Append(s, x) \in Seq(S)
           /\ Elements(Append(s, x)) = Elements(s) \cup {x}
           /\ Len(Append(s, x)) = Len(s) + 1
           /\ \A i \in 1..Len(s) : Append(s, x)[i] = s[i]
           /\ Append(s, x)[Len(s) + 1] = x
  BY DEF Elements

LEMMA ElementsTail ==
    ASSUME NEW S, NEW s \in Seq(S), s # <<>>,
           \A i, j \in 1..Len(s) : s[i] = s[j] => i = j
    PROVE  /\ Tail(s) \in Seq(S) /\ Head(s) \in S
           /\ Elements(s) = Elements(Tail(s)) \cup {Head(s)}
           /\ Head(s) \notin Elements(Tail(s))
           /\ \A i, j \in 1..Len(Tail(s)) : Tail(s)[i] = Tail(s)[j] => i = j
  <1>1. /\ Tail(s) \in Seq(S) /\ Head(s) \in S /\ Head(s) = s[1]
        /\ Len(s) \in Nat \ {0} /\ Len(Tail(s)) = Len(s) - 1
        /\ \A i \in 1..Len(Tail(s)) : i + 1 \in 1..Len(s) /\ Tail(s)[i] = s[i + 1]
    OBVIOUS
  <1>2. \A i \in 1..Len(s) : i = 1 \/ (i - 1 \in 1..Len(Tail(s)) /\ s[i] = Tail(s)[i - 1])
    BY <1>1
  <1>3. Elements(s) = Elements(Tail(s)) \cup {Head(s)}
    BY <1>1, <1>2 DEF Elements
  <1>4. Head(s) \notin Elements(Tail(s))
    BY <1>1 DEF Elements
  <1>5. \A i, j \in 1..Len(Tail(s)) : Tail(s)[i] = Tail(s)[j] => i = j
    BY <1>1
  <1> QED
    BY <1>1, <1>3, <1>4, <1>5

\* A channel without duplicates holds as many pages as it is long.
LEMMA ElementsCounted ==
    ASSUME NEW S, NEW s \in Seq(S), \A i, j \in 1..Len(s) : s[i] = s[j] => i = j
    PROVE  IsFiniteSet(Elements(s)) /\ Cardinality(Elements(s)) = Len(s)
  <1> DEFINE place == [i \in 1..Len(s) |-> s[i]]
  <1>n. Len(s) \in Nat
    BY LenProperties
  <1>1. IsFiniteSet(1..Len(s)) /\ Cardinality(1..Len(s)) = Len(s)
    <2>1. Len(s) \in Int /\ 1 \in Int
      BY <1>n
    <2>2. /\ IsFiniteSet(1..Len(s))
          /\ Cardinality(1..Len(s)) = IF 1 > Len(s) THEN 0 ELSE Len(s) - 1 + 1
      BY <2>1, FS_Interval, Zenon
    <2> QED
      BY <1>n, <2>2
  <1>2. place \in Bijection(1..Len(s), Elements(s))
    BY DEF Elements, Bijection, Injection, Surjection, IsInjective
  <1>3. ExistsBijection(1..Len(s), Elements(s))
    BY <1>2 DEF ExistsBijection
  <1> QED
    BY <1>1, <1>3, FS_Bijection
----------------------------------------------------------------------------
(***************************************************************************)
(* Pages stay in one place.                                                *)
(***************************************************************************)
LEMMA InitInv == Init => PoolInv /\ PagesAccounted /\ Bounded
  <1> SUFFICES ASSUME Init PROVE PoolInv /\ PagesAccounted /\ Bounded
    OBVIOUS
  <1>1. Elements(available) = {} /\ available \in Seq(Fetches) /\ DOMAIN state = {}
    BY DEF Init, Elements
  <1>2. PoolTypeOK /\ PagesExclusive /\ CreatedOnce /\ PagesMade
    <2>1. PoolTypeOK
      <3>1. /\ at \in [Fetches -> Places] /\ page \in [Fetches -> Fetches \cup {NoPage}]
            /\ outcome \in [Fetches -> Outcomes] /\ ended \subseteq Fetches /\ closed \in BOOLEAN
            /\ \A f \in Fetches : page[f] = NoPage /\ at[f] = "new"
        BY DEF Init, Places, Outcomes
      <3> QED
        BY <1>1, <3>1 DEF PoolTypeOK, Init
    <2>2. PagesExclusive
      BY <1>1 DEF Init, PagesExclusive
    <2>3. CreatedOnce /\ PagesMade
      BY <1>1 DEF Init, CreatedOnce, PagesMade
    <2> QED
      BY <2>1, <2>2, <2>3
  <1>3. Holding({"return"}) = {} /\ Holding({"fetch", "release"}) = {} /\ Holding({"mark", "return"}) = {}
    BY DEF Init, Holding
  <1>4. Committed = {} /\ pages = {}
    BY <1>1, <1>3 DEF Committed, Init
  <1>5. PagesAccounted
    BY <1>1, <1>3, <1>4 DEF PagesAccounted
  <1>6. Bounded
    BY <1>4, FS_EmptySet, PoolAssumption DEF Bounded
  <1> QED
    BY <1>2, <1>5, <1>6 DEF PoolInv

LEMMA ReceiveKeepsInv ==
    ASSUME PoolInv, NEW f \in Fetches, at[f] \in {"new", "wait"}, Receive(f)
    PROVE  PoolInv'
  <1>1. /\ available \in Seq(Fetches) /\ available # <<>>
        /\ \A i, j \in 1..Len(available) : available[i] = available[j] => i = j
    BY DEF PoolInv, PoolTypeOK, PagesExclusive, Receive
  <1>2. /\ available' \in Seq(Fetches) /\ page'[f] \in Fetches
        /\ page'[f] \in Elements(available) /\ page'[f] \notin Elements(available')
        /\ Elements(available') \subseteq Elements(available)
        /\ \A i, j \in 1..Len(available') : available'[i] = available'[j] => i = j
    BY <1>1, ElementsTail DEF PoolInv, PoolTypeOK, Receive
  <1>3. /\ at' = [at EXCEPT ![f] = "mark"]
        /\ page' = [page EXCEPT ![f] = page'[f]]
        /\ UNCHANGED <<outcome, ended, pages, state, closed>>
    BY DEF PoolInv, PoolTypeOK, Receive, Go
  <1>4. PoolTypeOK'
    BY <1>2, <1>3, PoolAssumption DEF PoolInv, PoolTypeOK, Places
  <1>5. PagesExclusive'
    BY <1>2, <1>3 DEF PoolInv, PoolTypeOK, PagesExclusive
  <1>6. CreatedOnce' /\ PagesMade'
    BY <1>2, <1>3 DEF PoolInv, PoolTypeOK, CreatedOnce, PagesMade
  <1> QED
    BY <1>4, <1>5, <1>6 DEF PoolInv

\* A call moves on, with its page or without; nothing is sent or received.
LEMMA MoveKeepsInv ==
    ASSUME PoolInv, NEW f \in Fetches, NEW place \in Places, NEW q \in {page[f], NoPage},
           at' = [at EXCEPT ![f] = place], page' = [page EXCEPT ![f] = q],
           q # NoPage <=> place \in {"mark", "fetch", "release", "return"},
           place \in {"new", "lock", "wait"} => at[f] \in {"new", "lock", "wait"},
           available' = available, DOMAIN state' = DOMAIN state, pages' \subseteq pages,
           \A p \in DOMAIN state : state'[p] \in PageStates,
           outcome' \in [Fetches -> Outcomes], ended' = ended, closed' = closed
    PROVE  PoolInv'
  <1>1. PoolTypeOK'
    BY DEF PoolInv, PoolTypeOK
  <1>2. PagesExclusive'
    <2>1. \A g \in Fetches : page'[g] \in {page[g], NoPage}
      BY DEF PoolInv, PoolTypeOK
    <2>2. Elements(available') = Elements(available)
      BY DEF Elements
    <2>3. NoPage \notin Elements(available)
      BY PoolAssumption DEF PoolInv, PoolTypeOK, Elements
    <2> QED
      BY <2>1, <2>2, <2>3 DEF PoolInv, PagesExclusive
  <1>3. CreatedOnce'
    BY DEF PoolInv, PoolTypeOK, CreatedOnce
  <1>4. PagesMade'
    BY DEF PoolInv, PoolTypeOK, PagesMade, Elements
  <1> QED
    BY <1>1, <1>2, <1>3, <1>4 DEF PoolInv

\* A step that leaves the calls and the channel alone.
LEMMA StayKeepsInv ==
    ASSUME PoolInv, UNCHANGED <<callVars, state, available>>,
           pages' \subseteq pages, ended' \subseteq Fetches, closed' \in BOOLEAN
    PROVE  PoolInv'
  <1>1. PoolTypeOK'
    BY DEF PoolInv, callVars, PoolTypeOK
  <1>2. PagesExclusive' /\ CreatedOnce' /\ PagesMade'
    BY DEF PoolInv, callVars, PagesExclusive, CreatedOnce, PagesMade, Elements
  <1> QED
    BY <1>1, <1>2 DEF PoolInv

LEMMA AnswerTyped ==
    ASSUME PoolTypeOK, NEW f \in Fetches, NEW what \in Outcomes, outcome' = [outcome EXCEPT ![f] = what]
    PROVE  outcome' \in [Fetches -> Outcomes]
  BY DEF PoolTypeOK

LEMMA CreatePageKeepsInv ==
    ASSUME PoolInv, NEW f \in Fetches, CreatePage(f)
    PROVE  PoolInv'
  <1>1. f \notin DOMAIN state /\ f \notin Elements(available) /\ \A g \in Fetches : page[g] # f
    BY PoolAssumption DEF CreatePage, PoolInv, CreatedOnce, PagesMade
  <1>2. /\ DOMAIN state' = DOMAIN state \cup {f} /\ pages' \subseteq pages \cup {f}
        /\ at' = [at EXCEPT ![f] = "fetch"] /\ page' = [page EXCEPT ![f] = f]
        /\ \A p \in DOMAIN state' : state'[p] = IF p = f THEN "busy" ELSE state[p]
        /\ UNCHANGED <<outcome, ended, available, closed>>
    BY DEF CreatePage, Kept, Go
  <1>3. PoolTypeOK'
    BY <1>2, PoolAssumption DEF PoolInv, PoolTypeOK, Places, PageStates
  <1>4. PagesExclusive'
    BY <1>1, <1>2 DEF PoolInv, PoolTypeOK, PagesExclusive, Elements
  <1>5. CreatedOnce' /\ PagesMade'
    BY <1>2 DEF PoolInv, PoolTypeOK, CreatedOnce, PagesMade, Elements
  <1> QED
    BY <1>3, <1>4, <1>5 DEF PoolInv

LEMMA AcquireKeepsInv ==
    ASSUME PoolInv, NEW f \in Fetches,
           TryReceive(f) \/ MarkPageBusy(f) \/ CreatePage(f) \/ FindFull(f) \/ FindClosed(f) \/ Wait(f)
    PROVE  PoolInv'
  <1> USE DEF Go, Answer, poolVars
  <1>0. PoolTypeOK /\ page \in [Fetches -> Fetches \cup {NoPage}]
    BY DEF PoolInv, PoolTypeOK
  <1>p. at[f] \in {"new", "lock", "wait"} => page[f] = NoPage
    BY DEF PoolInv, PoolTypeOK
  <1>1. CASE (TryReceive(f) \/ Wait(f)) /\ Receive(f)
    BY <1>1, ReceiveKeepsInv DEF TryReceive, Wait
  <1>2. CASE TryReceive(f) /\ ~Receive(f)
    <2>1. /\ at' = [at EXCEPT ![f] = "lock"] /\ page' = [page EXCEPT ![f] = page[f]] /\ at[f] = "new"
          /\ UNCHANGED <<outcome, ended, poolVars>>
      BY <1>0, <1>2 DEF TryReceive
    <2> QED
      BY <1>0, <1>p, <2>1, MoveKeepsInv DEF PoolTypeOK, Places
  <1>3. CASE (Wait(f) /\ ~Receive(f)) \/ FindClosed(f)
    <2>1. PICK what \in {"context error", "session closed"} : outcome' = [outcome EXCEPT ![f] = what]
      BY <1>3 DEF Wait, FindClosed
    <2>2. /\ at' = [at EXCEPT ![f] = "done"] /\ page' = [page EXCEPT ![f] = page[f]]
          /\ at[f] \in {"wait", "lock"} /\ UNCHANGED <<ended, poolVars>>
      BY <1>0, <1>3 DEF Wait, FindClosed
    <2>3. outcome' \in [Fetches -> Outcomes]
      BY <1>0, <2>1, AnswerTyped DEF Outcomes
    <2> QED
      BY <1>0, <1>p, <2>2, <2>3, MoveKeepsInv DEF PoolTypeOK, Places
  <1>4. CASE MarkPageBusy(f) /\ ~(closed \/ state[page[f]] # "ready")
    <2>1. /\ at' = [at EXCEPT ![f] = "fetch"] /\ page' = [page EXCEPT ![f] = page[f]] /\ at[f] = "mark"
          /\ state' = [state EXCEPT ![page[f]] = "busy"]
          /\ UNCHANGED <<outcome, ended, pages, available, closed>>
      BY <1>0, <1>4 DEF MarkPageBusy
    <2>2. page[f] # NoPage /\ DOMAIN state' = DOMAIN state
      BY <2>1 DEF PoolInv, PoolTypeOK
    <2>3. \A p \in DOMAIN state : state'[p] \in PageStates
      BY <1>0, <2>1 DEF PoolTypeOK, PageStates
    <2> QED
      BY <1>0, <2>1, <2>2, <2>3, MoveKeepsInv DEF PoolTypeOK, Places
  <1>5. CASE MarkPageBusy(f) /\ (closed \/ state[page[f]] # "ready")
    <2>1. /\ at' = [at EXCEPT ![f] = "done"] /\ page' = [page EXCEPT ![f] = NoPage]
          /\ outcome' = [outcome EXCEPT ![f] = "session closed"]
          /\ UNCHANGED <<ended, pages, state, available, closed>>
      BY <1>5 DEF MarkPageBusy
    <2>2. outcome' \in [Fetches -> Outcomes]
      BY <1>0, <2>1, AnswerTyped DEF Outcomes
    <2> QED
      BY <1>0, <2>1, <2>2, MoveKeepsInv DEF PoolTypeOK, Places
  <1>6. CASE CreatePage(f)
    BY <1>6, CreatePageKeepsInv
  <1>7. CASE FindFull(f)
    <2>1. /\ at' = [at EXCEPT ![f] = "wait"] /\ page' = [page EXCEPT ![f] = page[f]] /\ at[f] = "lock"
          /\ pages' \subseteq pages /\ UNCHANGED <<outcome, ended, state, available, closed>>
      BY <1>0, <1>7 DEF FindFull, Kept
    <2> QED
      BY <1>0, <1>p, <2>1, MoveKeepsInv DEF PoolTypeOK, Places
  <1> QED
    BY <1>1, <1>2, <1>3, <1>4, <1>5, <1>6, <1>7

LEMMA EndingKeepsInv ==
    ASSUME PoolInv, NEW f \in Fetches, EngineReturns(f) \/ ReleasePage(f)
    PROVE  PoolInv'
  <1> USE DEF Go, poolVars
  <1>0. PoolTypeOK /\ page \in [Fetches -> Fetches \cup {NoPage}]
    BY DEF PoolInv, PoolTypeOK
  <1>1. CASE EngineReturns(f)
    <2>1. PICK what \in {"response", "engine error"} : outcome' = [outcome EXCEPT ![f] = what]
      BY <1>1 DEF EngineReturns
    <2>2. /\ at' = [at EXCEPT ![f] = "release"] /\ page' = [page EXCEPT ![f] = page[f]] /\ at[f] = "fetch"
          /\ UNCHANGED <<ended, poolVars>>
      BY <1>0, <1>1 DEF EngineReturns
    <2>3. outcome' \in [Fetches -> Outcomes] /\ page[f] # NoPage
      BY <1>0, <2>1, <2>2, AnswerTyped DEF Outcomes, PoolTypeOK
    <2> QED
      BY <1>0, <2>2, <2>3, MoveKeepsInv DEF PoolTypeOK, Places
  <1>2. CASE ReleasePage(f)
    <2>1. at[f] = "release" /\ page[f] # NoPage /\ UNCHANGED <<outcome, ended, pages, available, closed>>
      BY <1>0, <1>2 DEF ReleasePage, PoolTypeOK
    <2>2. DOMAIN state' = DOMAIN state
      BY <1>2 DEF ReleasePage
    <2>3. \A p \in DOMAIN state : state'[p] \in PageStates
      BY <1>0, <1>2 DEF ReleasePage, PoolTypeOK, PageStates
    <2>4. \/ at' = [at EXCEPT ![f] = "return"] /\ page' = [page EXCEPT ![f] = page[f]]
          \/ at' = [at EXCEPT ![f] = "done"] /\ page' = [page EXCEPT ![f] = NoPage]
      BY <1>0, <1>2 DEF ReleasePage
    <2> QED
      BY <1>0, <2>1, <2>2, <2>3, <2>4, MoveKeepsInv DEF PoolTypeOK, Places
  <1> QED
    BY <1>1, <1>2

LEMMA ReturnPageKeepsInv ==
    ASSUME PoolInv, NEW f \in Fetches, ReturnPage(f)
    PROVE  PoolInv'
  <1>1. /\ at[f] = "return" /\ page[f] \in Fetches /\ page[f] \in DOMAIN state
        /\ page[f] \notin Elements(available)
        /\ at' = [at EXCEPT ![f] = "done"] /\ page' = [page EXCEPT ![f] = NoPage]
        /\ UNCHANGED <<outcome, ended, pages, state, closed>>
    BY DEF ReturnPage, PoolInv, PoolTypeOK, PagesExclusive, PagesMade, Go
  <1>2. CASE UNCHANGED available
    BY <1>1, <1>2, PoolAssumption
       DEF PoolInv, PoolTypeOK, PagesExclusive, CreatedOnce, PagesMade, Places
  <1>3. CASE available' = Append(available, page[f])
    <2>1. /\ available' \in Seq(Fetches)
          /\ Elements(available') = Elements(available) \cup {page[f]}
          /\ Len(available') = Len(available) + 1
          /\ \A i \in 1..Len(available) : available'[i] = available[i]
          /\ available'[Len(available) + 1] = page[f]
      BY <1>1, <1>3, ElementsAppend DEF PoolInv, PoolTypeOK
    <2>2. \A i \in 1..Len(available) : available[i] # page[f]
      BY <1>1 DEF Elements
    <2>3. \A i, j \in 1..Len(available') : available'[i] = available'[j] => i = j
      BY <2>1, <2>2 DEF PoolInv, PoolTypeOK, PagesExclusive
    <2>4. PagesExclusive'
      <3>1. \A g \in Fetches : page'[g] = IF g = f THEN NoPage ELSE page[g]
        BY <1>1 DEF PoolInv, PoolTypeOK
      <3>2. NoPage \notin Elements(available) /\ NoPage # page[f]
        BY <1>1, PoolAssumption DEF PoolInv, PoolTypeOK, Elements
      <3>3. \A g, h \in Fetches : page'[g] = page'[h] /\ page'[g] # NoPage => g = h
        BY <3>1 DEF PoolInv, PagesExclusive
      <3>4. \A g \in Fetches : page'[g] \notin Elements(available')
        BY <1>1, <2>1, <3>1, <3>2 DEF PoolInv, PagesExclusive
      <3> QED
        BY <2>3, <3>3, <3>4 DEF PagesExclusive
    <2> QED
      BY <1>1, <2>1, <2>4, PoolAssumption DEF PoolInv, PoolTypeOK, CreatedOnce, PagesMade, Places
  <1> QED
    BY <1>2, <1>3 DEF ReturnPage

LEMMA InvStep == PoolInv /\ [Next]_vars => PoolInv'
  <1> SUFFICES ASSUME PoolInv, [Next]_vars PROVE PoolInv'
    OBVIOUS
  <1>1. CASE \E f \in Fetches : Step(f)
    BY <1>1, AcquireKeepsInv, EndingKeepsInv, ReturnPageKeepsInv DEF Step
  <1>2. CASE (\E f \in Fetches : EndContext(f)) \/ Close \/ UNCHANGED vars
    <2>1. /\ UNCHANGED <<callVars, state, available>>
          /\ pages' \subseteq pages /\ ended' \subseteq Fetches /\ closed' \in BOOLEAN
      BY <1>2 DEF EndContext, Close, vars, poolVars, callVars, PoolInv, PoolTypeOK
    <2> QED
      BY <2>1, StayKeepsInv
  <1> QED
    BY <1>1, <1>2 DEF Next, Rest

\* The session's variables keep their types and a call holds a page exactly while it
\* is between taking one and giving it up.  (acquirePage, releasePage)
THEOREM PoolTypeCorrect == Spec => []PoolTypeOK
  <1>1. Init => PoolInv
    BY InitInv
  <1>2. PoolInv => PoolTypeOK
    BY DEF PoolInv
  <1> QED
    BY <1>1, <1>2, InvStep, PTL DEF Spec

\* No two calls are ever given the same page, nor a page that is still in the channel.
THEOREM PagesNotShared == Spec => []PagesExclusive
  <1>1. Init => PoolInv
    BY InitInv
  <1>2. PoolInv => PagesExclusive
    BY DEF PoolInv
  <1> QED
    BY <1>1, <1>2, InvStep, PTL DEF Spec

----------------------------------------------------------------------------
(***************************************************************************)
(* No page is lost, none is counted wrongly.                               *)
(***************************************************************************)
\* What the calls use, and what passes from or to the channel.
Using == Holding({"fetch", "release"})
Moving == Holding({"mark", "return"})

\* One call moves to a place, with a page or without.
Moves(f, place, q) ==
    /\ at'[f] = place /\ page'[f] = q
    /\ \A g \in Fetches : g # f => at'[g] = at[g] /\ page'[g] = page[g]

LEMMA HoldersChange ==
    ASSUME PoolInv, NEW f \in Fetches, NEW place, NEW q, Moves(f, place, q)
    PROVE  /\ place \in {"fetch", "release"} => Using' = (Using \ {page[f]}) \cup {q}
           /\ place \notin {"fetch", "release"} => Using' = Using \ {page[f]}
           /\ place \in {"mark", "return"} => Moving' = (Moving \ {page[f]}) \cup {q}
           /\ place \notin {"mark", "return"} => Moving' = Moving \ {page[f]}
           /\ NoPage \notin Using /\ NoPage \notin Moving
  <1>1. \A g \in Fetches : at[g] \in {"fetch", "release", "mark", "return"} /\ page[g] = page[f] => g = f
    BY DEF PoolInv, PoolTypeOK, PagesExclusive
  <1>2. /\ place \in {"fetch", "release"} => Using' = (Using \ {page[f]}) \cup {q}
        /\ place \notin {"fetch", "release"} => Using' = Using \ {page[f]}
    BY <1>1 DEF Using, Holding, Moves
  <1>3. /\ place \in {"mark", "return"} => Moving' = (Moving \ {page[f]}) \cup {q}
        /\ place \notin {"mark", "return"} => Moving' = Moving \ {page[f]}
    BY <1>1 DEF Moving, Holding, Moves
  <1>4. NoPage \notin Using /\ NoPage \notin Moving
    BY DEF PoolInv, PoolTypeOK, Holding, Using, Moving
  <1> QED
    BY <1>2, <1>3, <1>4

LEMMA ReceiveKeepsAccounts ==
    ASSUME PoolInv, PagesAccounted, NEW f \in Fetches, at[f] \in {"new", "wait"}, Receive(f)
    PROVE  PagesAccounted'
  <1> DEFINE h == Head(available)
  <1>1. /\ Elements(available) = Elements(available') \cup {h} /\ h \notin Elements(available')
        /\ Moves(f, "mark", h)
        /\ UNCHANGED <<pages, state, closed>>
    BY ElementsTail DEF Receive, Go, Moves, PoolInv, PoolTypeOK, PagesExclusive
  <1>2. page[f] = NoPage
    BY DEF PoolInv, PoolTypeOK
  <1>3. /\ Using' = Using
        /\ Moving' = Moving \cup {h}
    BY <1>1, <1>2, HoldersChange
  <1> QED
    BY <1>1, <1>3 DEF PagesAccounted, Using, Moving

\* A call that has no page, before and after, changes no account.
LEMMA EmptyHandedKeepsAccounts ==
    ASSUME PoolInv, PagesAccounted, NEW f \in Fetches, NEW place \in {"lock", "wait", "done"},
           page[f] = NoPage, at' = [at EXCEPT ![f] = place], page' = page,
           pages' \subseteq pages, \A p \in pages : p \in pages' \/ state[p] = "error",
           UNCHANGED <<state, available, closed>>
    PROVE  PagesAccounted'
  <1>1. Moves(f, place, NoPage)
    BY DEF Moves, PoolInv, PoolTypeOK
  <1>2. Using' = Using /\ Moving' = Moving
    BY <1>1, HoldersChange
  <1> QED
    BY <1>2 DEF PagesAccounted, Using, Moving, Elements

LEMMA CreatePageKeepsAccounts ==
    ASSUME PoolInv, PagesAccounted, NEW f \in Fetches, CreatePage(f)
    PROVE  PagesAccounted'
  <1>1. /\ Moves(f, "fetch", f)
        /\ pages' = Kept \cup {f} /\ UNCHANGED <<available, closed>> /\ ~closed
        /\ page[f] = NoPage
    BY DEF CreatePage, Go, Moves, PoolInv, PoolTypeOK
  <1>2. f \notin DOMAIN state /\ DOMAIN state' = DOMAIN state \cup {f}
    BY DEF CreatePage, PoolInv, CreatedOnce
  <1>3. state'[f] = "busy" /\ \A p \in pages : state'[p] = state[p] /\ p # f
    BY <1>2 DEF CreatePage, PoolInv, PoolTypeOK
  <1>4. /\ Using' = Using \cup {f}
        /\ Moving' = Moving
    BY <1>1, HoldersChange
  <1>5. /\ {p \in pages' : state'[p] = "busy"} = {p \in pages : state[p] = "busy"} \cup {f}
        /\ {p \in pages' : state'[p] = "ready"} = {p \in pages : state[p] = "ready"}
    BY <1>1, <1>3 DEF Kept
  <1> QED
    BY <1>1, <1>4, <1>5 DEF PagesAccounted, Using, Moving

LEMMA MarkKeepsAccounts ==
    ASSUME PoolInv, PagesAccounted, NEW f \in Fetches, MarkPageBusy(f)
    PROVE  PagesAccounted'
  <1> SUFFICES ASSUME ~closed' PROVE PagesAccounted'
    BY DEF PagesAccounted, Using, Moving
  <1>1. at[f] = "mark" /\ page[f] # NoPage /\ ~closed /\ UNCHANGED <<pages, available, closed>>
    BY DEF MarkPageBusy, PoolInv, PoolTypeOK
  <1>2. page[f] \in pages /\ state[page[f]] = "ready" /\ page[f] \notin Elements(available)
    BY <1>1 DEF PagesAccounted, Using, Moving, Holding, PoolInv, PagesExclusive
  <1>3. /\ Moves(f, "fetch", page[f])
        /\ state' = [state EXCEPT ![page[f]] = "busy"]
    BY <1>1, <1>2 DEF MarkPageBusy, Go, Moves, PoolInv, PoolTypeOK
  <1>4. /\ Using' = Using \cup {page[f]}
        /\ Moving' = Moving \ {page[f]}
    BY <1>3, HoldersChange
  <1>5. \A p \in pages : state'[p] = (IF p = page[f] THEN "busy" ELSE state[p])
    BY <1>3 DEF PoolInv, PoolTypeOK
  <1>6. /\ {p \in pages' : state'[p] = "busy"} = {p \in pages : state[p] = "busy"} \cup {page[f]}
        /\ {p \in pages' : state'[p] = "ready"} = {p \in pages : state[p] = "ready"} \ {page[f]}
    BY <1>1, <1>2, <1>5
  <1> QED
    BY <1>1, <1>2, <1>4, <1>6 DEF PagesAccounted, Using, Moving

LEMMA ReleaseKeepsAccounts ==
    ASSUME PoolInv, PagesAccounted, NEW f \in Fetches, ReleasePage(f)
    PROVE  PagesAccounted'
  <1> SUFFICES ASSUME ~closed' PROVE PagesAccounted'
    BY DEF PagesAccounted, Using, Moving
  <1>1. at[f] = "release" /\ page[f] # NoPage /\ ~closed /\ UNCHANGED <<pages, available, closed>>
    BY DEF ReleasePage, PoolInv, PoolTypeOK
  <1>2. /\ page[f] \in pages /\ state[page[f]] = "busy" /\ page[f] \notin Elements(available)
        /\ page[f] \notin Moving
    BY <1>1 DEF PagesAccounted, Using, Moving, Holding, PoolInv, PagesExclusive
  <1>3. \A p \in pages : p # page[f] => state'[p] = state[p]
    BY <1>1 DEF ReleasePage, PoolInv, PoolTypeOK
  <1>4. CASE outcome[f] = "response"
    <2>1. Moves(f, "return", page[f]) /\ state'[page[f]] = "ready"
      BY <1>1, <1>2, <1>4 DEF ReleasePage, Go, Moves, PoolInv, PoolTypeOK
    <2>2. /\ Using' = Using \ {page[f]}
          /\ Moving' = Moving \cup {page[f]}
      BY <2>1, HoldersChange
    <2>3. /\ {p \in pages' : state'[p] = "busy"} = {p \in pages : state[p] = "busy"} \ {page[f]}
          /\ {p \in pages' : state'[p] = "ready"} = {p \in pages : state[p] = "ready"} \cup {page[f]}
      BY <1>1, <1>2, <1>3, <2>1
    <2> QED
      BY <1>1, <2>2, <2>3 DEF PagesAccounted, Using, Moving
  <1>5. CASE outcome[f] # "response"
    <2>1. Moves(f, "done", NoPage) /\ state'[page[f]] = "error"
      BY <1>1, <1>2, <1>5 DEF ReleasePage, Go, Moves, PoolInv, PoolTypeOK
    <2>2. /\ Using' = Using \ {page[f]}
          /\ Moving' = Moving
      BY <1>2, <2>1, HoldersChange
    <2>3. /\ {p \in pages' : state'[p] = "busy"} = {p \in pages : state[p] = "busy"} \ {page[f]}
          /\ {p \in pages' : state'[p] = "ready"} = {p \in pages : state[p] = "ready"}
      BY <1>1, <1>2, <1>3, <2>1
    <2> QED
      BY <1>1, <2>2, <2>3 DEF PagesAccounted, Using, Moving
  <1> QED
    BY <1>4, <1>5

LEMMA ReturnKeepsAccounts ==
    ASSUME PoolInv, PagesAccounted, NEW f \in Fetches, ReturnPage(f)
    PROVE  PagesAccounted'
  <1> SUFFICES ASSUME ~closed' PROVE PagesAccounted'
    BY DEF PagesAccounted, Using, Moving
  <1>1. /\ at[f] = "return" /\ ~closed /\ UNCHANGED <<pages, state, closed>>
        /\ Moves(f, "done", NoPage)
        /\ available' = Append(available, page[f]) /\ page[f] \in Fetches
    BY DEF ReturnPage, Go, Moves, PoolInv, PoolTypeOK
  <1>2. Elements(available') = Elements(available) \cup {page[f]}
    BY <1>1, ElementsAppend DEF PoolInv, PoolTypeOK
  <1>3. page[f] \in Moving /\ page[f] \notin Using
    <2>1. \A g \in Fetches : page[g] = page[f] => g = f
      BY <1>1, PoolAssumption DEF PoolInv, PagesExclusive
    <2> QED
      BY <1>1, <2>1 DEF Using, Moving, Holding
  <1>4. /\ Using' = Using \ {page[f]}
        /\ Moving' = Moving \ {page[f]}
    BY <1>1, HoldersChange
  <1> QED
    BY <1>1, <1>2, <1>3, <1>4 DEF PagesAccounted, Using, Moving

LEMMA AccountsStep == PoolInv /\ PagesAccounted /\ [Next]_vars => PagesAccounted'
  <1> SUFFICES ASSUME PoolInv, PagesAccounted, [Next]_vars PROVE PagesAccounted'
    OBVIOUS
  <1>1. CASE \E f \in Fetches : Step(f)
    <2>1. PICK f \in Fetches : Step(f)
      BY <1>1
    <2>2. at[f] \in {"new", "lock", "wait"} => page[f] = NoPage
      BY DEF PoolInv, PoolTypeOK
    <2>3. CASE (TryReceive(f) \/ Wait(f)) /\ Receive(f)
      BY <2>3, ReceiveKeepsAccounts DEF TryReceive, Wait
    <2>4. CASE ((TryReceive(f) \/ Wait(f)) /\ ~Receive(f)) \/ FindFull(f) \/ FindClosed(f)
      <3>1. PICK place \in {"lock", "wait", "done"} : at' = [at EXCEPT ![f] = place]
        BY <2>4 DEF TryReceive, Wait, FindFull, FindClosed, Answer, Go
      <3>2. /\ page' = page /\ at[f] \in {"new", "lock", "wait"} /\ UNCHANGED <<state, available, closed>>
            /\ pages' \subseteq pages /\ \A p \in pages : p \in pages' \/ state[p] = "error"
        BY <2>4 DEF TryReceive, Wait, FindFull, FindClosed, Answer, Kept, poolVars
      <3> QED
        BY <2>2, <3>1, <3>2, EmptyHandedKeepsAccounts
    <2>5. CASE EngineReturns(f)
      <3>1. /\ at[f] = "fetch" /\ Moves(f, "release", page[f])
            /\ UNCHANGED poolVars
        BY <2>5 DEF EngineReturns, Go, Moves, PoolInv, PoolTypeOK
      <3>2. page[f] \in Using /\ page[f] \notin Moving
        BY <3>1 DEF Using, Moving, Holding, PoolInv, PoolTypeOK, PagesExclusive
      <3>3. /\ Using' = Using
            /\ Moving' = Moving
        BY <3>1, <3>2, HoldersChange
      <3> QED
        BY <3>1, <3>3 DEF PagesAccounted, Using, Moving, poolVars, Elements
    <2> QED
      BY <2>1, <2>3, <2>4, <2>5, CreatePageKeepsAccounts, MarkKeepsAccounts,
         ReleaseKeepsAccounts, ReturnKeepsAccounts DEF Step
  <1>2. CASE Close
    BY <1>2 DEF Close, PagesAccounted
  <1>3. CASE (\E f \in Fetches : EndContext(f)) \/ UNCHANGED vars
    BY <1>3 DEF EndContext, vars, callVars, poolVars, PagesAccounted, Using, Moving, Holding, Elements
  <1> QED
    BY <1>1, <1>2, <1>3 DEF Next, Rest

\* Stats is exact and no page leaks: busy pages are those calls use, ready ones those in
\* the channel or passing from or to it.  (markPageBusy, releasePage, cleanupErrorPagesLocked)
THEOREM PagesNotLost == Spec => []PagesAccounted
  <1>1. Init => PoolInv /\ PagesAccounted
    BY InitInv
  <1>2. PoolInv /\ PagesAccounted /\ [Next]_vars => PoolInv' /\ PagesAccounted'
    BY InvStep, AccountsStep
  <1> QED
    BY <1>1, <1>2, PTL DEF Spec

----------------------------------------------------------------------------
(***************************************************************************)
(* The channel is never full for a page that comes back.                   *)
(***************************************************************************)
LEMMA PagesFinite ==
    ASSUME PoolInv
    PROVE  IsFiniteSet(pages) /\ IsFiniteSet(Committed)
  <1>1. pages \in SUBSET Fetches /\ Committed \in SUBSET Fetches
    BY DEF PoolInv, PoolTypeOK, Committed, Elements, Holding
  <1> QED
    BY <1>1, FS_Subset, PoolAssumption

LEMMA PagesStayBounded ==
    ASSUME PoolInv, Bounded, [Next]_vars
    PROVE  Cardinality(pages') <= MaxPages
  <1>1. CASE \E f \in Fetches : CreatePage(f)
    <2>1. PICK f \in Fetches : CreatePage(f)
      BY <1>1
    <2>2. pages' = Kept \cup {f} /\ Cardinality(Kept) < MaxPages
      BY <2>1 DEF CreatePage
    <2>3. IsFiniteSet(Kept) /\ Cardinality(Kept) \in Nat
      BY PagesFinite, FS_Subset, FS_CardinalityType DEF Kept
    <2>4. Cardinality(pages') \in {Cardinality(Kept), Cardinality(Kept) + 1}
      BY <2>2, <2>3, FS_AddElement
    <2>5. Cardinality(Kept) + 1 <= MaxPages
      BY <2>2, <2>3, PoolAssumption
    <2> QED
      BY <2>2, <2>3, <2>4, <2>5, PoolAssumption
  <1>2. CASE ~\E f \in Fetches : CreatePage(f)
    <2>1. pages' \in SUBSET pages
      BY <1>2 DEF Next, Step, TryReceive, Receive, MarkPageBusy, FindFull, FindClosed, Wait, EngineReturns,
                  ReleasePage, ReturnPage, EndContext, Close, Rest, Kept, vars, poolVars
    <2>2. Cardinality(pages') <= Cardinality(pages) /\ Cardinality(pages) \in Nat /\ Cardinality(pages') \in Nat
      BY <2>1, PagesFinite, FS_Subset, FS_CardinalityType
    <2> QED
      BY <2>2, PoolAssumption DEF Bounded
  <1> QED
    BY <1>1, <1>2

\* After Close nothing more is on its way to the channel.
LEMMA CommittedShrinks ==
    ASSUME PoolInv, [Next]_vars, closed
    PROVE  Committed' \subseteq Committed
  <1>1. CASE \E f \in Fetches : Step(f)
    <2>1. PICK f \in Fetches : Step(f)
      BY <1>1
    <2>2. CASE Receive(f)
      <3>1. Elements(available') \subseteq Elements(available)
        BY <2>2, ElementsTail DEF Receive, PoolInv, PoolTypeOK, PagesExclusive
      <3>2. Moves(f, "mark", page'[f])
        BY <2>2 DEF Receive, Go, Moves, PoolInv, PoolTypeOK
      <3>3. Holding({"return"})' \subseteq Holding({"return"})
        BY <3>2 DEF Moves, Holding
      <3> QED
        BY <3>1, <3>3 DEF Committed
    <2>3. CASE ReturnPage(f)
      <3>1. /\ at[f] = "return" /\ Moves(f, "done", NoPage) /\ page[f] \in Fetches
            /\ (available' = available \/ available' = Append(available, page[f]))
        BY <2>3 DEF ReturnPage, Go, Moves, PoolInv, PoolTypeOK
      <3>2. Elements(available') \subseteq Elements(available) \cup {page[f]}
        <4>1. CASE available' = available
          BY <4>1 DEF Elements
        <4>2. CASE available' = Append(available, page[f])
          BY <3>1, <4>2, ElementsAppend DEF PoolInv, PoolTypeOK
        <4> QED
          BY <3>1, <4>1, <4>2
      <3>3. Holding({"return"})' \subseteq Holding({"return"}) /\ page[f] \in Holding({"return"})
        BY <3>1 DEF Moves, Holding
      <3> QED
        BY <3>2, <3>3 DEF Committed
    <2>4. CASE ~Receive(f) /\ ~ReturnPage(f)
      <3>1. available' = available /\ \E place \in Places \ {"return"} : Moves(f, place, page'[f])
        BY <2>1, <2>4, closed DEF Step, TryReceive, MarkPageBusy, CreatePage, FindFull, FindClosed, Wait,
             EngineReturns, ReleasePage, poolVars, Answer, Go, Moves, PoolInv, PoolTypeOK, Places
      <3>2. Holding({"return"})' \subseteq Holding({"return"})
        BY <3>1 DEF Moves, Holding
      <3> QED
        BY <3>1, <3>2 DEF Committed, Elements
    <2> QED
      BY <2>2, <2>3, <2>4
  <1>2. CASE ~\E f \in Fetches : Step(f)
    BY <1>2 DEF Next, EndContext, Close, Rest, vars, callVars, poolVars, Committed, Holding, Elements
  <1> QED
    BY <1>1, <1>2

LEMMA BoundedStep ==
    ASSUME PoolInv, PoolInv', Bounded, PagesAccounted', [Next]_vars
    PROVE  Bounded'
  <1>1. Cardinality(pages') <= MaxPages
    BY PagesStayBounded
  <1>2. CASE closed /\ closed'
    <2>1. Committed' \in SUBSET Committed
      BY <1>2, CommittedShrinks
    <2>2. Cardinality(Committed') <= Cardinality(Committed) /\ Cardinality(Committed) \in Nat
          /\ Cardinality(Committed') \in Nat
      BY <2>1, PagesFinite, FS_Subset, FS_CardinalityType
    <2> QED
      BY <1>1, <2>2, PoolAssumption DEF Bounded
  <1>3. CASE ~closed'
    <2>1. Committed' \in SUBSET pages'
      BY <1>3 DEF PagesAccounted, Committed, Holding
    <2>2. IsFiniteSet(pages')
      BY FS_Subset, PoolAssumption DEF PoolInv, PoolTypeOK
    <2>3. Cardinality(Committed') <= Cardinality(pages') /\ Cardinality(pages') \in Nat
          /\ Cardinality(Committed') \in Nat
      BY <2>1, <2>2, FS_Subset, FS_CardinalityType
    <2> QED
      BY <1>1, <2>3, PoolAssumption DEF Bounded
  <1>4. CASE ~closed /\ closed'
    <2>1. Close
      BY <1>4 DEF Next, Step, TryReceive, Receive, MarkPageBusy, CreatePage, FindFull, FindClosed, Wait,
                  EngineReturns, ReleasePage, ReturnPage, EndContext, Rest, vars, poolVars
    <2>2. Committed' = Committed
      BY <2>1 DEF Close, callVars, Committed, Holding, Elements
    <2> QED
      BY <1>1, <2>2 DEF Bounded
  <1> QED
    BY <1>2, <1>3, <1>4 DEF PoolInv, PoolTypeOK

LEMMA BoundedLeavesRoom == PoolInv /\ Bounded => SendNeverBlocks
  <1> SUFFICES ASSUME PoolInv, Bounded, NEW f \in Fetches, at[f] = "return"
               PROVE  Len(available) < MaxPages
    BY DEF SendNeverBlocks
  <1> DEFINE E == Elements(available)
  <1>1. IsFiniteSet(E) /\ Cardinality(E) = Len(available) /\ Len(available) \in Nat
    BY ElementsCounted, LenProperties DEF PoolInv, PoolTypeOK, PagesExclusive
  <1>2. page[f] \notin E /\ E \cup {page[f]} \in SUBSET Committed
    BY DEF Committed, Holding, PoolInv, PagesExclusive
  <1>3. Cardinality(E \cup {page[f]}) = Len(available) + 1
    BY <1>1, <1>2, FS_AddElement
  <1>4. Cardinality(E \cup {page[f]}) <= Cardinality(Committed) /\ Cardinality(Committed) \in Nat
    BY <1>2, PagesFinite, FS_Subset, FS_CardinalityType
  <1> QED
    BY <1>1, <1>3, <1>4, PoolAssumption DEF Bounded

\* releasePage never waits for room in the channel, whoever else releases, takes or closes.
THEOREM SendsDoNotBlock == Spec => []SendNeverBlocks
  <1> DEFINE All == PoolInv /\ PagesAccounted /\ Bounded
  <1>1. Init => All
    BY InitInv
  <1>2. All /\ [Next]_vars => All'
    BY InvStep, AccountsStep, BoundedStep
  <1>3. All => SendNeverBlocks
    BY BoundedLeavesRoom
  <1> QED
    BY <1>1, <1>2, <1>3, PTL DEF Spec

----------------------------------------------------------------------------
(***************************************************************************)
(* The calls whose engine works are a limiter.                             *)
(***************************************************************************)
AtWork == {f \in Fetches : at[f] = "fetch"}

\* Before Close each call at work uses a page of the pool, another one each.
LEMMA WorkersFit ==
    ASSUME PoolInv', PagesAccounted', Bounded', ~closed'
    PROVE  IsFiniteSet(AtWork') /\ Cardinality(AtWork') <= MaxPages
  <1> DEFINE pageOf == [f \in AtWork' |-> page'[f]]
  <1>1. \A f \in AtWork' : page'[f] \in pages'
    BY DEF PagesAccounted, Holding, AtWork
  <1>2. \A f, g \in AtWork' : page'[f] = page'[g] => f = g
    BY DEF PoolInv, PoolTypeOK, PagesExclusive, AtWork
  <1>3. pageOf \in Injection(AtWork', pages')
    BY <1>1, <1>2 DEF Injection, IsInjective
  <1>4. IsFiniteSet(pages')
    BY FS_Subset, PoolAssumption DEF PoolInv, PoolTypeOK
  <1>5. IsFiniteSet(AtWork') /\ Cardinality(AtWork') <= Cardinality(pages')
    BY <1>3, <1>4, FS_Injection
  <1>6. Cardinality(AtWork') \in Nat /\ Cardinality(pages') \in Nat
    BY <1>4, <1>5, FS_CardinalityType
  <1> QED
    BY <1>5, <1>6, PoolAssumption DEF Bounded

LEMMA EnterStep ==
    ASSUME PoolInv, PoolInv', PagesAccounted', Bounded', NEW f \in Fetches, ~closed, ~closed',
           at[f] # "fetch", Moves(f, "fetch", page'[f])
    PROVE  Pool!Enter(f)
  <1>1. f \notin AtWork /\ AtWork' = AtWork \cup {f}
    BY DEF AtWork, Moves
  <1>2. IsFiniteSet(AtWork') /\ Cardinality(AtWork') <= MaxPages
    BY WorkersFit
  <1>3. IsFiniteSet(AtWork)
    BY <1>1, <1>2, FS_Subset
  <1>4. Cardinality(AtWork') = Cardinality(AtWork) + 1 /\ Cardinality(AtWork) \in Nat
    BY <1>1, <1>3, FS_AddElement, FS_CardinalityType
  <1>5. Cardinality(AtWork) < MaxPages
    BY <1>2, <1>4, PoolAssumption
  <1>6. closed' = closed
    BY DEF PoolInv, PoolTypeOK
  <1>7. /\ f \notin {g \in Fetches : at[g] = "fetch"}
        /\ {g \in Fetches : at'[g] = "fetch"} = {g \in Fetches : at[g] = "fetch"} \cup {f}
        /\ Cardinality({g \in Fetches : at[g] = "fetch"}) < MaxPages
    BY <1>1, <1>5 DEF AtWork
  <1> QED
    BY <1>6, <1>7, Zenon DEF Pool!Enter, Pool!Cardinality, Cardinality

LEMMA LimiterStep ==
    ASSUME PoolInv, PoolInv', PagesAccounted', Bounded', [Next]_vars
    PROVE  [Pool!Next]_(Pool!vars)
  <1> USE DEF Pool!Next, Pool!vars
  <1>1. CASE \E f \in Fetches : Step(f)
    <2>1. PICK f \in Fetches : Step(f)
      BY <1>1
    <2>2. closed' = closed
      BY <2>1 DEF Step, TryReceive, Receive, MarkPageBusy, CreatePage, FindFull, FindClosed, Wait,
                  EngineReturns, ReleasePage, ReturnPage, poolVars
    <2>3. CASE CreatePage(f) \/ (MarkPageBusy(f) /\ at'[f] = "fetch")
      <3>1. ~closed /\ at[f] # "fetch" /\ Moves(f, "fetch", page'[f])
        BY <2>3, ZenonT(40) DEF CreatePage, MarkPageBusy, Answer, Go, Moves, PoolInv, PoolTypeOK
      <3>2. Pool!Enter(f)
        BY <2>2, <3>1, EnterStep
      <3> QED
        BY <3>2
    <2>4. CASE EngineReturns(f)
      <3>1. at[f] = "fetch" /\ Moves(f, "release", page[f])
        BY <2>4 DEF EngineReturns, Go, Moves, PoolInv, PoolTypeOK
      <3>2. Pool!Leave(f)
        BY <2>2, <3>1 DEF Pool!Leave, Moves
      <3> QED
        BY <3>2
    <2>5. CASE ~CreatePage(f) /\ ~(MarkPageBusy(f) /\ at'[f] = "fetch") /\ ~EngineReturns(f)
      <3>1. at[f] # "fetch" /\ \E place \in Places \ {"fetch"} : Moves(f, place, page'[f])
        BY <2>1, <2>5, ZenonT(40) DEF Step, TryReceive, Receive, MarkPageBusy, FindFull, FindClosed, Wait,
             ReleasePage, ReturnPage, Answer, Go, Moves, PoolInv, PoolTypeOK, Places
      <3>2. AtWork' = AtWork
        BY <3>1 DEF Moves, AtWork
      <3> QED
        BY <2>2, <3>2 DEF AtWork
    <2> QED
      BY <2>3, <2>4, <2>5
  <1>2. CASE Close
    BY <1>2 DEF Close, callVars, Pool!Shut
  <1>3. CASE (\E f \in Fetches : EndContext(f)) \/ UNCHANGED vars
    BY <1>3 DEF EndContext, callVars, poolVars, vars
  <1> QED
    BY <1>1, <1>2, <1>3 DEF Next, Rest

\* At most MaxPages calls have an engine working at a time and none gets one once the
\* session is closed.  (acquirePage, markPageBusy, Close)
THEOREM PoolIsALimiter == Spec => ImplementsLimiter
  <1> DEFINE All == PoolInv /\ PagesAccounted /\ Bounded
  <1>1. Init => All
    BY InitInv
  <1>2. All /\ [Next]_vars => All'
    BY InvStep, AccountsStep, BoundedStep
  <1>3. Init => Pool!Init
    BY DEF Init, Pool!Init
  <1>4. All /\ All' /\ [Next]_vars => [Pool!Next]_(Pool!vars)
    BY LimiterStep
  <1> QED
    BY <1>1, <1>2, <1>3, <1>4, PTL DEF Spec, Pool!Spec, ImplementsLimiter

\* The pool's books are right: pages are neither shared nor lost nor sent in vain.
\* (acquirePage, releasePage)
THEOREM PoolAlwaysSound == Spec => []PoolSound
  BY PoolTypeCorrect, PagesNotShared, PagesNotLost, SendsDoNotBlock, PTL DEF PoolSound
----------------------------------------------------------------------------
(* The registry of the MCP server *)

\* The calls between a reservation and its end hold distinct ids; a session in
\* the making is its maker's; a shared session was registered before its use.
HandsSound ==
    /\ \A c \in Calls : callAt[c] \in {"new", "reserve", "create", "clear"} => c \notin born
    /\ \A c \in Calls : handle[c] # NoSession => handle[c] \in born
    /\ \A c \in Calls : callAt[c] = "store" => handle[c] = c
    /\ \A c \in Calls : callAt[c] \in {"reserve", "create", "store"} => type[c] \in Types
    /\ \A c \in Calls \ born : closes[c] = 0

RegistryInv == RegistryTypeOK /\ HandsSound /\ ReservationsExact /\ SessionsOwned

\* Initially nothing is open.
LEMMA BooksAtStart == ASSUME RegistryInit PROVE RegistryInv
  BY RegistryAssumption DEF RegistryInit, RegistryInv, RegistryTypeOK, HandsSound, ReservationsExact, SessionsOwned,
         Ids, CallPlaces, Opens, Owns, IsRegistered

\* Types survive a step.
LEMMA TypeStep == ASSUME RegistryInv, [RegistryNext]_toolVars PROVE RegistryTypeOK'
  <1> USE RegistryAssumption DEF RegistryInv, RegistryTypeOK, HandsSound, registryVars, sessionVars
  <1> USE DEF Move, Hold, CallPlaces
  <1>1. ASSUME NEW c \in Calls, OpenNamed(c) \/ OpenUnnamed(c) PROVE RegistryTypeOK'
    BY <1>1 DEF OpenNamed, OpenUnnamed, Ids, Types
  <1>2. ASSUME NEW c \in Calls, Reserve(c) \/ ClearReservation(c) PROVE RegistryTypeOK'
    BY <1>2 DEF Reserve, ClearReservation
  <1>3. ASSUME NEW c \in Calls, CreateSession(c) PROVE RegistryTypeOK'
    BY <1>3 DEF CreateSession, Make
  <1>4. ASSUME NEW c \in Calls, StoreSession(c) PROVE RegistryTypeOK'
    BY <1>4 DEF StoreSession
  <1>5. ASSUME NEW c \in Calls, FetchWithTemporary(c) PROVE RegistryTypeOK'
    BY <1>5 DEF FetchWithTemporary, Make
  <1>6. ASSUME NEW c \in Calls, FetchWithSession(c) PROVE RegistryTypeOK'
    BY <1>6 DEF FetchWithSession, Usable, KnownIds, Ids
  <1>7. ASSUME NEW c \in Calls, FinishUse(c) PROVE RegistryTypeOK'
    BY <1>7 DEF FinishUse
  <1>8. ASSUME NEW c \in Calls, RemoveSession(c) PROVE RegistryTypeOK'
    BY <1>8 DEF RemoveSession, KnownIds, Ids
  <1>9. ASSUME NEW c \in Calls, CloseHeld(c) PROVE RegistryTypeOK'
    BY <1>9 DEF CloseHeld
  <1>10. ASSUME NEW s \in born, Die(s) PROVE RegistryTypeOK'
    BY <1>10 DEF Die
  <1>11. CASE UNCHANGED toolVars
    BY <1>11 DEF toolVars
  <1> QED
    BY <1>1, <1>2, <1>3, <1>4, <1>5, <1>6, <1>7, <1>8, <1>9, <1>10, <1>11 DEF RegistryNext, CallStep, CallsRest

\* Nothing a call holds is disturbed by the others.
LEMMA HandsStep == ASSUME RegistryInv, [RegistryNext]_toolVars PROVE HandsSound'
  <1> USE RegistryAssumption DEF RegistryInv, RegistryTypeOK, HandsSound, registryVars, sessionVars
  <1> USE DEF Move, Hold, CallPlaces
  <1>1. ASSUME NEW c \in Calls, OpenNamed(c) \/ OpenUnnamed(c) PROVE HandsSound'
    BY <1>1 DEF OpenNamed, OpenUnnamed
  <1>2. ASSUME NEW c \in Calls, Reserve(c) \/ ClearReservation(c) PROVE HandsSound'
    BY <1>2 DEF Reserve, ClearReservation
  <1>3. ASSUME NEW c \in Calls, CreateSession(c) PROVE HandsSound'
    BY <1>3 DEF CreateSession, Make
  <1>4. ASSUME NEW c \in Calls, StoreSession(c) PROVE HandsSound'
    BY <1>4 DEF StoreSession
  <1>5. ASSUME NEW c \in Calls, FetchWithTemporary(c) PROVE HandsSound'
    BY <1>5 DEF FetchWithTemporary, Make
  <1>6. ASSUME NEW c \in Calls, FetchWithSession(c) PROVE HandsSound'
    BY <1>6 DEF FetchWithSession, Usable
  <1>7. ASSUME NEW c \in Calls, FinishUse(c) PROVE HandsSound'
    BY <1>7 DEF FinishUse
  <1>8. ASSUME NEW c \in Calls, RemoveSession(c) PROVE HandsSound'
    BY <1>8 DEF RemoveSession
  <1>9. ASSUME NEW c \in Calls, CloseHeld(c) PROVE HandsSound'
    BY <1>9 DEF CloseHeld
  <1>10. ASSUME NEW s \in born, Die(s) PROVE HandsSound'
    BY <1>10 DEF Die
  <1>11. CASE UNCHANGED toolVars
    BY <1>11 DEF toolVars
  <1> QED
    BY <1>1, <1>2, <1>3, <1>4, <1>5, <1>6, <1>7, <1>8, <1>9, <1>10, <1>11 DEF RegistryNext, CallStep, CallsRest

\* An id is reserved by one call, from Reserve to StoreSession or ClearReservation.
LEMMA ReservationsStep == ASSUME RegistryInv, [RegistryNext]_toolVars PROVE ReservationsExact'
  <1> USE DEF RegistryInv, RegistryTypeOK, ReservationsExact, Opens, registryVars, sessionVars
  <1> USE DEF Move, Hold, CallPlaces
  <1>1. ASSUME NEW c \in Calls, OpenNamed(c) \/ OpenUnnamed(c) PROVE ReservationsExact'
    BY <1>1 DEF OpenNamed, OpenUnnamed
  <1>2. ASSUME NEW c \in Calls, Reserve(c) PROVE ReservationsExact'
    BY <1>2 DEF Reserve, Taken
  <1>3. ASSUME NEW c \in Calls, CreateSession(c) PROVE ReservationsExact'
    BY <1>3 DEF CreateSession, Make
  <1>4. ASSUME NEW c \in Calls, StoreSession(c) \/ ClearReservation(c) PROVE ReservationsExact'
    BY <1>4 DEF StoreSession, ClearReservation
  <1>5. ASSUME NEW c \in Calls, FetchWithTemporary(c) PROVE ReservationsExact'
    BY <1>5 DEF FetchWithTemporary, Make
  <1>6. ASSUME NEW c \in Calls, FetchWithSession(c) PROVE ReservationsExact'
    BY <1>6 DEF FetchWithSession, Usable
  <1>7. ASSUME NEW c \in Calls, FinishUse(c) PROVE ReservationsExact'
    BY <1>7 DEF FinishUse
  <1>8. ASSUME NEW c \in Calls, RemoveSession(c) PROVE ReservationsExact'
    BY <1>8 DEF RemoveSession
  <1>9. ASSUME NEW c \in Calls, CloseHeld(c) PROVE ReservationsExact'
    BY <1>9 DEF CloseHeld
  <1>10. ASSUME NEW s \in born, Die(s) PROVE ReservationsExact'
    BY <1>10 DEF Die
  <1>11. CASE UNCHANGED toolVars
    BY <1>11 DEF toolVars
  <1> QED
    BY <1>1, <1>2, <1>3, <1>4, <1>5, <1>6, <1>7, <1>8, <1>9, <1>10, <1>11 DEF RegistryNext, CallStep, CallsRest

\* Each session has one owner until its Close is called.
LEMMA OwnersStep == ASSUME RegistryInv, [RegistryNext]_toolVars PROVE SessionsOwned'
  <1> USE RegistryAssumption
  <1> USE DEF RegistryInv, RegistryTypeOK, HandsSound, SessionsOwned, Owns, IsRegistered, registryVars, sessionVars
  <1> USE DEF Move, Hold, CallPlaces
  <1>1. ASSUME NEW c \in Calls, OpenNamed(c) \/ OpenUnnamed(c) PROVE SessionsOwned'
    BY <1>1 DEF OpenNamed, OpenUnnamed
  <1>2. ASSUME NEW c \in Calls, Reserve(c) \/ ClearReservation(c) PROVE SessionsOwned'
    BY <1>2 DEF Reserve, ClearReservation
  <1>3. ASSUME NEW c \in Calls, CreateSession(c) PROVE SessionsOwned'
    BY <1>3 DEF CreateSession, Make
  <1>4. ASSUME NEW c \in Calls, StoreSession(c) PROVE SessionsOwned'
    <2>1. handle[c] = c /\ c \in born /\ id[c] \notin DOMAIN sessions
      BY <1>4 DEF StoreSession, ReservationsExact, Opens
    <2>2. /\ DOMAIN sessions' = DOMAIN sessions \cup {id[c]}
          /\ sessions'[id[c]].session = c
          /\ \A i \in DOMAIN sessions : sessions'[i] = sessions[i]
          /\ UNCHANGED <<born, closes>>
      BY <1>4, <2>1 DEF StoreSession
    <2>3. (\A s : Owns(c, s) <=> s = c) /\ \A d, s \in Calls : Owns(d, s)' <=> Owns(d, s) /\ d # c
      BY <1>4, <2>1 DEF StoreSession
    <2>4. \A s : IsRegistered(s)' <=> IsRegistered(s) \/ s = c
      BY <2>1, <2>2
    <2>5. \A s \in born : closes[s] \in {0, 1} /\ (closes[s] = 0 <=> IsRegistered(s)' \/ \E d \in Calls : Owns(d, s)')
      <3> HIDE DEF Owns, IsRegistered
      <3> QED BY <2>1, <2>3, <2>4
    <2>6. \A i, j \in DOMAIN sessions' : sessions'[i].session = sessions'[j].session => i = j
      BY <2>1, <2>2, <2>3
    <2>7. \A s \in born, d \in Calls : Owns(d, s)' => ~IsRegistered(s)'
      <3> HIDE DEF Owns, IsRegistered
      <3> QED BY <2>1, <2>3, <2>4
    <2>8. \A s \in born, d, e \in Calls : Owns(d, s)' /\ Owns(e, s)' => d = e
      BY <2>3
    <2> QED
      BY <2>2, <2>5, <2>6, <2>7, <2>8
  <1>5. ASSUME NEW c \in Calls, FetchWithTemporary(c) PROVE SessionsOwned'
    BY <1>5 DEF FetchWithTemporary, Make
  <1>6. ASSUME NEW c \in Calls, FetchWithSession(c) PROVE SessionsOwned'
    BY <1>6 DEF FetchWithSession, Usable
  <1>7. ASSUME NEW c \in Calls, FinishUse(c) PROVE SessionsOwned'
    BY <1>7 DEF FinishUse, IsTemporary
  <1>8. ASSUME NEW c \in Calls, RemoveSession(c) PROVE SessionsOwned'
    <2>1. PICK i \in KnownIds :
            IF i \in DOMAIN sessions
            THEN /\ Move(c, "new", "close") /\ Hold(c, sessions[i].session)
                 /\ sessions' = [j \in DOMAIN sessions \ {i} |-> sessions[j]]
            ELSE Move(c, "new", "done") /\ UNCHANGED <<handle, sessions>>
      BY <1>8 DEF RemoveSession
    <2>2. UNCHANGED <<born, closes>>
      BY <1>8 DEF RemoveSession
    <2>3. CASE i \notin DOMAIN sessions
      BY <2>1, <2>2, <2>3
    <2>4. CASE i \in DOMAIN sessions
      <3> DEFINE s0 == sessions[i].session
      <3>1. s0 \in born /\ handle[c] = NoSession /\ ~\E d \in Calls : Owns(d, s0)
        BY <2>1, <2>4
      <3>2. \A d, s \in Calls : Owns(d, s)' <=> Owns(d, s) \/ (d = c /\ s = s0)
        BY <2>1, <2>4, <3>1
      <3>3. \A s \in born : IsRegistered(s)' <=> IsRegistered(s) /\ s # s0
        BY <2>1, <2>4
      <3>4. IsRegistered(s0)
        BY <2>4
      <3> HIDE DEF s0
      <3>5. \A s \in born : closes[s] \in {0, 1} /\ (closes[s] = 0 <=> IsRegistered(s)' \/ \E d \in Calls : Owns(d, s)')
        BY <3>1, <3>2, <3>3, <3>4
      <3>6. \A s \in born, d \in Calls : Owns(d, s)' => ~IsRegistered(s)'
        BY <3>2, <3>3
      <3>7. \A s \in born, d, e \in Calls : Owns(d, s)' /\ Owns(e, s)' => d = e
        BY <3>1, <3>2
      <3>8. \A j, k \in DOMAIN sessions' : sessions'[j].session = sessions'[k].session => j = k
        BY <2>1, <2>4
      <3> QED
        BY <2>2, <3>5, <3>6, <3>7, <3>8
    <2> QED
      BY <2>3, <2>4
  <1>9. ASSUME NEW c \in Calls, CloseHeld(c) PROVE SessionsOwned'
    BY <1>9 DEF CloseHeld
  <1>10. ASSUME NEW s \in born, Die(s) PROVE SessionsOwned'
    BY <1>10 DEF Die
  <1>11. CASE UNCHANGED toolVars
    BY <1>11 DEF toolVars
  <1> QED
    BY <1>1, <1>2, <1>3, <1>4, <1>5, <1>6, <1>7, <1>8, <1>9, <1>10, <1>11 DEF RegistryNext, CallStep, CallsRest

\* The invariant holds in every reachable state.
LEMMA RegistryInvariant == RegistrySpec => []RegistryInv
  <1>1. RegistryInv /\ [RegistryNext]_toolVars => RegistryInv'
    BY TypeStep, HandsStep, ReservationsStep, OwnersStep DEF RegistryInv
  <1> QED
    BY <1>1, BooksAtStart, PTL DEF RegistrySpec

\* Every variable keeps its type; a call holds a session exactly between getting
\* it and giving it up.
THEOREM RegistryTypeCorrect == RegistrySpec => []RegistryTypeOK
  <1>1. RegistryInv => RegistryTypeOK
    BY DEF RegistryInv
  <1> QED
    BY <1>1, RegistryInvariant, PTL

\* Reservations are those of the calls that open a session, one call per id, and
\* none is of an id in use.
THEOREM ReservationsHeld == RegistrySpec => []ReservationsExact
  <1>1. RegistryInv => ReservationsExact
    BY DEF RegistryInv
  <1> QED
    BY <1>1, RegistryInvariant, PTL

\* No session is lost open and none is closed twice.
THEOREM NoSessionLost == RegistrySpec => []SessionsOwned
  <1>1. RegistryInv => SessionsOwned
    BY DEF RegistryInv
  <1> QED
    BY <1>1, RegistryInvariant, PTL

\* No session takes the place of a registered one.
THEOREM NoEntryReplaced == RegistrySpec => EntriesNotReplaced
  <1> DEFINE Steady == \A i \in DOMAIN sessions \cap DOMAIN sessions' : sessions'[i] = sessions[i]
  <1>1. RegistryInv /\ [RegistryNext]_toolVars => Steady
    <2> SUFFICES ASSUME RegistryInv, [RegistryNext]_toolVars PROVE Steady
      OBVIOUS
    <2> USE DEF registryVars
    <2>1. ASSUME NEW c \in Calls, StoreSession(c) PROVE Steady
      <3>1. id[c] \notin DOMAIN sessions
        BY <2>1 DEF StoreSession, Move, RegistryInv, ReservationsExact, Opens
      <3> QED
        BY <2>1, <3>1 DEF StoreSession
    <2>2. ASSUME NEW c \in Calls, RemoveSession(c) PROVE Steady
      BY <2>2 DEF RemoveSession
    <2>3. ASSUME NEW c \in Calls, CallStep(c), ~StoreSession(c), ~RemoveSession(c) PROVE Steady
      BY <2>3 DEF CallStep, OpenNamed, OpenUnnamed, Reserve, CreateSession, ClearReservation,
                  FetchWithTemporary, FetchWithSession, FinishUse, CloseHeld
    <2>4. ASSUME NEW s \in born, Die(s) PROVE Steady
      BY <2>4 DEF Die
    <2>5. CASE UNCHANGED toolVars
      BY <2>5 DEF toolVars
    <2> QED
      BY <2>1, <2>2, <2>3, <2>4, <2>5 DEF RegistryNext, CallsRest
  <1>2. RegistryInv /\ [RegistryNext]_toolVars => [Steady]_toolVars
    BY <1>1
  <1> QED
    BY <1>2, RegistryInvariant, PTL DEF RegistrySpec, EntriesNotReplaced

\* The registry's books are right: reservations are exact, sessions have one owner.
\* (reserveSessionID, storeReservedSession, removeSession)
THEOREM RegistryAlwaysSound == RegistrySpec => []RegistrySound
  BY RegistryTypeCorrect, ReservationsHeld, NoSessionLost, PTL DEF RegistrySound

----------------------------------------------------------------------------
(* The sessions and documents of a crawl *)

Quiet == \A t \in Tasks : taskAt[t] \in {"ready", "done"}

\* The mutex is the run's while it starts and closes sessions, and a task's while it starts
\* one; outside of a run no task is on its way.
HoldersSound ==
    /\ holder = Run <=> run \in {"starting", "closing"}
    /\ \A t \in Tasks : holder = t <=> taskAt[t] \in {"start document", "start page"}
    /\ \A t \in Tasks : holder = t => Session(t) \in registered \ started
    /\ run \notin {"prefetching", "running"} => Quiet

\* A session that is started is open once, and is closed only by a run with nothing in flight.
OpenSound ==
    /\ \A s \in SessionIds : open[s] = IF s \in started THEN 1 ELSE 0
    /\ \A t \in Tasks : taskAt[t] \in {"fetch document", "fetch page"} => Session(t) \in started
    /\ run = "starting" => todo \cap started = {}
    /\ run = "closing" => todo = started
    /\ run = "ended" => started = {}

\* What a task judged by is what the cache has, and stays there.
JudgedSound ==
    /\ \A t \in Tasks : judged[t] # NoDocument => cache[OriginOf[t]] = judged[t]
    /\ \A t \in Tasks : taskAt[t] = "store" => fetched[t] # NoDocument

SpiderInv == SpiderTypeOK /\ HoldersSound /\ OpenSound /\ JudgedSound

LEMMA SpiderAtStart == ASSUME SpiderInit PROVE SpiderInv
  <1> USE SpiderSessionsAssumption DEF SpiderInit
  <1>1. SpiderTypeOK
    BY DEF SpiderTypeOK, TaskPlaces
  <1>2. HoldersSound
    BY DEF HoldersSound, Quiet
  <1>3. OpenSound
    BY DEF OpenSound
  <1>4. JudgedSound
    BY DEF JudgedSound
  <1> QED
    BY <1>1, <1>2, <1>3, <1>4 DEF SpiderInv

\* A step of the run moves no task and no document.
LEMMA RunKeepsJudged == ASSUME SpiderInv, UNCHANGED <<taskAt, robotsVars>> PROVE JudgedSound'
  BY DEF SpiderInv, JudgedSound, robotsVars

LEMMA AddKeeps ==
    ASSUME SpiderInv, NEW s \in SessionIds, NEW default \in BOOLEAN, NEW isLazy \in BOOLEAN,
           AddSession(s, default, isLazy)
    PROVE  SpiderInv'
  <1> USE SpiderSessionsAssumption DEF SpiderInv
  <1>1. /\ run = "new" /\ registered' = registered \cup {s}
        /\ defaultId' \in {s, defaultId} /\ lazy' \in {lazy, lazy \cup {s}}
        /\ UNCHANGED <<started, holder, run, runs, todo, open, taskAt, robotsVars>>
    BY DEF AddSession
  <1>2. SpiderTypeOK'
    BY <1>1 DEF SpiderTypeOK, robotsVars
  <1>3. HoldersSound'
    BY <1>1 DEF HoldersSound, Quiet, SpiderTypeOK
  <1>4. OpenSound'
    BY <1>1 DEF OpenSound, HoldersSound, Quiet
  <1> QED
    BY <1>1, <1>2, <1>3, <1>4, RunKeepsJudged

\* Outside of a run the tasks do not look at the sessions.
LEMMA QuietSound ==
    ASSUME SpiderInv, Quiet, UNCHANGED taskAt,
           holder' \in {Nobody, Run}, (holder' = Run) <=> run' \in {"starting", "closing"}
    PROVE  HoldersSound' /\ \A t \in Tasks : taskAt'[t] \notin {"fetch document", "fetch page"}
  BY SpiderSessionsAssumption DEF HoldersSound, Quiet

LEMMA RunStarts == ASSUME SpiderInv, BeginStart PROVE SpiderInv'
  <1> USE SpiderSessionsAssumption DEF SpiderInv
  <1>1. /\ run \notin {"prefetching", "running"} /\ runs < MaxRuns
        /\ run' = "starting" /\ runs' = runs + 1 /\ holder' = Run
        /\ todo' = registered \ (lazy \cup started)
        /\ UNCHANGED <<registered, lazy, defaultId, started, open, taskAt, robotsVars>>
    BY DEF BeginStart
  <1>2. SpiderTypeOK'
    BY <1>1 DEF SpiderTypeOK, robotsVars
  <1>3. Quiet
    BY <1>1 DEF HoldersSound
  <1>4. OpenSound'
    BY <1>1, <1>3, QuietSound DEF OpenSound
  <1> QED
    BY <1>1, <1>2, <1>3, <1>4, QuietSound, RunKeepsJudged

\* What the two steps that change the sessions' own counts do to them
LEMMA MarkedOpen ==
    ASSUME SpiderInv, NEW s \in registered \ started, MarkOpen(s)
    PROVE  /\ started' = started \cup {s} /\ open' \in [SessionIds -> Nat]
           /\ \A i \in SessionIds : open'[i] = IF i \in started' THEN 1 ELSE 0
  <1>1. s \in SessionIds /\ open[s] = 0
    BY DEF SpiderInv, SpiderTypeOK, OpenSound
  <1>2. started' = started \cup {s} /\ open' = [open EXCEPT ![s] = 1]
    BY <1>1 DEF MarkOpen
  <1> QED
    BY <1>1, <1>2 DEF SpiderInv, SpiderTypeOK, OpenSound
LEMMA MarkedClosed ==
    ASSUME SpiderInv, NEW s \in started, MarkClosed(s)
    PROVE  /\ started' = started \ {s} /\ open' \in [SessionIds -> Nat]
           /\ \A i \in SessionIds : open'[i] = IF i \in started' THEN 1 ELSE 0
  <1>1. s \in SessionIds /\ open[s] = 1
    BY DEF SpiderInv, SpiderTypeOK, OpenSound
  <1>2. started' = started \ {s} /\ open' = [open EXCEPT ![s] = 0]
    BY <1>1 DEF MarkClosed
  <1> QED
    BY <1>1, <1>2 DEF SpiderInv, SpiderTypeOK, OpenSound

LEMMA StartKeeps == ASSUME SpiderInv, NEW s \in SessionIds, StartOne(s) PROVE SpiderInv'
  <1> USE SpiderSessionsAssumption DEF SpiderInv
  <1>1. /\ run = "starting" /\ holder = Run /\ Quiet /\ s \in todo /\ todo \cap started = {}
        /\ UNCHANGED <<registered, lazy, defaultId, runs, taskAt, robotsVars>>
    BY DEF StartOne, HoldersSound, OpenSound
  <1>2. CASE MarkOpen(s) /\ todo' = todo \ {s} /\ UNCHANGED <<holder, run>>
    <2>1. /\ started' = started \cup {s} /\ open' \in [SessionIds -> Nat]
          /\ \A i \in SessionIds : open'[i] = IF i \in started' THEN 1 ELSE 0
      BY <1>1, <1>2, MarkedOpen DEF SpiderTypeOK
    <2>2. SpiderTypeOK'
      BY <1>1, <1>2, <2>1 DEF SpiderTypeOK, robotsVars
    <2>3. OpenSound'
      BY <1>1, <1>2, <2>1, QuietSound DEF OpenSound
    <2> QED
      BY <1>1, <1>2, <2>2, <2>3, QuietSound, RunKeepsJudged
  <1>3. CASE run' = "failed" /\ holder' = Nobody /\ todo' = {} /\ UNCHANGED <<started, open>>
    <2>1. SpiderTypeOK'
      BY <1>1, <1>3 DEF SpiderTypeOK, robotsVars
    <2>2. OpenSound'
      BY <1>1, <1>3, QuietSound DEF OpenSound
    <2> QED
      BY <1>1, <1>3, <2>1, <2>2, QuietSound, RunKeepsJudged
  <1> QED
    BY <1>2, <1>3 DEF StartOne

LEMMA StartEnds == ASSUME SpiderInv, Started PROVE SpiderInv'
  <1> USE SpiderSessionsAssumption DEF SpiderInv, Started
  <1>1. SpiderTypeOK'
    BY DEF SpiderTypeOK, robotsVars
  <1>2. Quiet
    BY DEF HoldersSound
  <1>3. OpenSound'
    BY <1>2, QuietSound DEF OpenSound
  <1> QED
    BY <1>1, <1>2, <1>3, QuietSound, RunKeepsJudged

LEMMA PrefetchEnds == ASSUME SpiderInv, Prefetched PROVE SpiderInv'
  <1> USE SpiderSessionsAssumption DEF SpiderInv, Prefetched
  <1>1. SpiderTypeOK'
    BY DEF SpiderTypeOK, robotsVars
  <1>2. HoldersSound'
    BY DEF HoldersSound, Session
  <1>3. OpenSound'
    BY ZenonT(40) DEF OpenSound, Session
  <1> QED
    BY <1>1, <1>2, <1>3, RunKeepsJudged

LEMMA CloseBegins == ASSUME SpiderInv, BeginClose PROVE SpiderInv'
  <1> USE SpiderSessionsAssumption DEF SpiderInv, BeginClose
  <1>1. SpiderTypeOK'
    BY DEF SpiderTypeOK, robotsVars
  <1>2. Quiet
    BY DEF Quiet
  <1>3. OpenSound'
    BY <1>2, QuietSound DEF OpenSound
  <1> QED
    BY <1>1, <1>2, <1>3, QuietSound, RunKeepsJudged

LEMMA CloseKeeps == ASSUME SpiderInv, NEW s \in SessionIds, CloseOne(s) PROVE SpiderInv'
  <1> USE SpiderSessionsAssumption DEF SpiderInv
  <1>1. /\ run = "closing" /\ holder = Run /\ Quiet /\ s \in started /\ todo = started
        /\ MarkClosed(s) /\ todo' = todo \ {s}
        /\ UNCHANGED <<registered, lazy, defaultId, holder, run, runs, taskAt, robotsVars>>
    BY DEF CloseOne, HoldersSound, OpenSound
  <1>2. /\ started' = started \ {s} /\ open' \in [SessionIds -> Nat]
        /\ \A i \in SessionIds : open'[i] = IF i \in started' THEN 1 ELSE 0
    BY <1>1, MarkedClosed
  <1>3. SpiderTypeOK'
    BY <1>1, <1>2 DEF SpiderTypeOK, robotsVars
  <1>4. OpenSound'
    BY <1>1, <1>2, QuietSound DEF OpenSound
  <1> QED
    BY <1>1, <1>3, <1>4, QuietSound, RunKeepsJudged

LEMMA CloseEnds == ASSUME SpiderInv, Closed PROVE SpiderInv'
  <1> USE SpiderSessionsAssumption DEF SpiderInv, Closed
  <1>1. SpiderTypeOK'
    BY DEF SpiderTypeOK, robotsVars
  <1>2. Quiet
    BY DEF HoldersSound
  <1>3. OpenSound'
    BY <1>2, QuietSound DEF OpenSound
  <1> QED
    BY <1>1, <1>2, <1>3, QuietSound, RunKeepsJudged

\* A task on its way is part of a run, which holds no lock meanwhile.
LEMMA TaskRuns ==
    ASSUME SpiderInv, NEW t \in Tasks, taskAt[t] \notin {"ready", "done"}
    PROVE  run \in {"prefetching", "running"} /\ holder # Run
  BY DEF SpiderInv, HoldersSound, Quiet

LEMMA Moved ==
    ASSUME SpiderInv, NEW t \in Tasks, NEW place \in TaskPlaces, MoveTask(t, place)
    PROVE  /\ taskAt' \in [Tasks -> TaskPlaces]
           /\ \A u \in Tasks : taskAt'[u] = IF u = t THEN place ELSE taskAt[u]
  BY DEF SpiderInv, SpiderTypeOK, MoveTask

\* A task that moves between places where it holds no lock, over sessions that stay as they are
LEMMA MoveSound ==
    ASSUME SpiderInv, NEW t \in Tasks, NEW place \in TaskPlaces, MoveTask(t, place),
           UNCHANGED managerVars, run \in {"prefetching", "running"},
           {taskAt[t], place} \cap {"start document", "start page"} = {},
           place \in {"fetch document", "fetch page"} => Session(t) \in started
    PROVE  HoldersSound' /\ OpenSound'
  <1>1. \A u \in Tasks : taskAt'[u] = IF u = t THEN place ELSE taskAt[u]
    BY Moved
  <1>2. \A u \in Tasks : Session(u)' = Session(u)
    BY DEF Session, managerVars
  <1>3. HoldersSound'
    BY <1>1, <1>2 DEF SpiderInv, HoldersSound, managerVars
  <1>4. OpenSound'
    BY <1>1, <1>2 DEF SpiderInv, OpenSound, managerVars
  <1> QED
    BY <1>3, <1>4

LEMMA TaskBegins == ASSUME SpiderInv, NEW t \in Tasks, Begin(t) PROVE SpiderInv'
  <1> DEFINE place == "look up"
  <1>1. place \in TaskPlaces /\ run \in {"prefetching", "running"} /\ taskAt[t] = "ready"
    BY DEF Begin, TaskPlaces
  <1>2. HoldersSound' /\ OpenSound'
    BY <1>1, MoveSound DEF Begin
  <1>3. SpiderTypeOK'
    BY <1>1, Moved DEF Begin, SpiderInv, SpiderTypeOK, managerVars, robotsVars
  <1>4. JudgedSound'
    BY <1>1, Moved DEF Begin, SpiderInv, JudgedSound, robotsVars
  <1> QED
    BY <1>2, <1>3, <1>4 DEF SpiderInv

LEMMA LookUpKeeps == ASSUME SpiderInv, NEW t \in Tasks, LookUp(t) PROVE SpiderInv'
  <1> DEFINE document == cache[OriginOf[t]]
  <1>1. /\ run \in {"prefetching", "running"} /\ taskAt[t] = "look up"
        /\ UNCHANGED <<managerVars, fetched, cache>>
    BY TaskRuns DEF LookUp
  <1>2. document \in Documents \cup {NoDocument}
    BY DEF SpiderInv, SpiderTypeOK, Origins
  <1>3. PICK place \in {"done", "want page", "want document"} :
            MoveTask(t, place) /\ judged' \in {judged, [judged EXCEPT ![t] = document]}
    BY DEF LookUp, Judge
  <1>4. place \in TaskPlaces
    BY DEF TaskPlaces
  <1>5. HoldersSound' /\ OpenSound'
    BY <1>1, <1>3, <1>4, MoveSound
  <1>6. SpiderTypeOK'
    BY <1>1, <1>2, <1>3, <1>4, Moved DEF SpiderInv, SpiderTypeOK, managerVars
  <1>7. \A u \in Tasks : judged'[u] # NoDocument => cache[OriginOf[u]] = judged'[u]
    BY <1>3 DEF SpiderInv, JudgedSound, SpiderTypeOK
  <1>8. JudgedSound'
    BY <1>1, <1>3, <1>4, <1>7, Moved DEF SpiderInv, JudgedSound
  <1> QED
    BY <1>5, <1>6, <1>8 DEF SpiderInv

\* A task that does not get its session goes on without.
LEMMA Failing ==
    ASSUME SpiderInv, NEW t \in Tasks, NEW wanting \in {"document", "page"}, Fail(t, wanting)
    PROVE  /\ \E place \in TaskPlaces \cap {"done", "store"} :
                 /\ MoveTask(t, place)
                 /\ place = "store" => fetched'[t] = Empty
           /\ fetched' \in [Tasks -> Documents \cup {NoDocument}]
           /\ \A u \in Tasks : u # t => fetched'[u] = fetched[u]
  <1> USE SpiderSessionsAssumption DEF SpiderInv, SpiderTypeOK
  <1>1. CASE wanting = "page"
    <2>1. MoveTask(t, "done") /\ UNCHANGED fetched /\ "done" \in TaskPlaces
      BY <1>1 DEF Fail, TaskPlaces
    <2> QED
      BY <2>1
  <1>2. CASE wanting # "page"
    <2>1. MoveTask(t, "store") /\ fetched' = [fetched EXCEPT ![t] = Empty] /\ "store" \in TaskPlaces
      BY <1>2 DEF Fail, TaskPlaces
    <2> QED
      BY <2>1
  <1> QED
    BY <1>1, <1>2

LEMMA LockKeeps ==
    ASSUME SpiderInv, NEW t \in Tasks, NEW wanting \in {"document", "page"}, LockSession(t, wanting)
    PROVE  SpiderInv'
  <1> USE SpiderSessionsAssumption
  <1>1. /\ run \in {"prefetching", "running"} /\ holder = Nobody
        /\ taskAt[t] \in {"want document", "want page"}
        /\ UNCHANGED <<registered, lazy, defaultId, started, run, runs, todo, open, cache, judged>>
    BY TaskRuns DEF LockSession, Want
  <1>2. CASE Session(t) \notin registered /\ Fail(t, wanting) /\ UNCHANGED holder
    <2>1. PICK place \in TaskPlaces \cap {"done", "store"} :
              MoveTask(t, place) /\ (place = "store" => fetched'[t] = Empty)
      BY <1>2, Failing
    <2>2. HoldersSound' /\ OpenSound'
      BY <1>1, <1>2, <2>1, MoveSound DEF managerVars
    <2>3. /\ taskAt' \in [Tasks -> TaskPlaces]
          /\ \A u \in Tasks : taskAt'[u] = IF u = t THEN place ELSE taskAt[u]
          /\ fetched' \in [Tasks -> Documents \cup {NoDocument}]
          /\ \A u \in Tasks : u # t => fetched'[u] = fetched[u]
      BY <1>2, <2>1, Moved, Failing
    <2>4. SpiderTypeOK'
      BY <1>1, <1>2, <2>3 DEF SpiderInv, SpiderTypeOK
    <2>5. JudgedSound'
      BY <1>1, <2>1, <2>3 DEF SpiderInv, JudgedSound
    <2> QED
      BY <2>2, <2>4, <2>5 DEF SpiderInv
  <1>3. CASE Session(t) \in started /\ MoveTask(t, Fetching(wanting)) /\ UNCHANGED <<holder, fetched>>
    <2>1. Fetching(wanting) \in TaskPlaces \cap {"fetch document", "fetch page"}
      BY DEF Fetching, TaskPlaces
    <2>2. HoldersSound' /\ OpenSound'
      BY <1>1, <1>3, <2>1, MoveSound DEF managerVars
    <2>3. SpiderTypeOK'
      BY <1>1, <1>3, <2>1, Moved DEF SpiderInv, SpiderTypeOK
    <2>4. JudgedSound'
      BY <1>1, <1>3, <2>1, Moved DEF SpiderInv, JudgedSound
    <2> QED
      BY <2>2, <2>3, <2>4 DEF SpiderInv
  <1>4. CASE /\ Session(t) \in registered \ started
             /\ MoveTask(t, Starting(wanting)) /\ holder' = t /\ UNCHANGED fetched
    <2>1. Starting(wanting) \in TaskPlaces \cap {"start document", "start page"}
      BY DEF Starting, TaskPlaces
    <2>2. /\ taskAt' \in [Tasks -> TaskPlaces]
          /\ \A u \in Tasks : taskAt'[u] = IF u = t THEN Starting(wanting) ELSE taskAt[u]
          /\ \A u \in Tasks : Session(u)' = Session(u)
      BY <1>1, <1>4, <2>1, Moved DEF Session
    <2>3. HoldersSound'
      BY <1>1, <1>4, <2>1, <2>2 DEF SpiderInv, HoldersSound
    <2>4. OpenSound'
      BY <1>1, <1>4, <2>1, <2>2 DEF SpiderInv, OpenSound
    <2>5. SpiderTypeOK' /\ JudgedSound'
      BY <1>1, <1>4, <2>1, <2>2 DEF SpiderInv, SpiderTypeOK, JudgedSound
    <2> QED
      BY <2>3, <2>4, <2>5 DEF SpiderInv
  <1>5. Session(t) \in started => Session(t) \in registered
    BY DEF SpiderInv, SpiderTypeOK
  <1> QED
    BY <1>2, <1>3, <1>4, <1>5 DEF LockSession, Lock

LEMMA TaskStartKeeps ==
    ASSUME SpiderInv, NEW t \in Tasks, NEW wanting \in {"document", "page"}, StartSession(t, wanting)
    PROVE  SpiderInv'
  <1> USE SpiderSessionsAssumption
  <1>1. taskAt[t] \in {"start document", "start page"}
    BY DEF StartSession, Starting
  <1>2. /\ run \in {"prefetching", "running"} /\ holder = t /\ holder' = Nobody
        /\ Session(t) \in registered \ started
        /\ UNCHANGED <<registered, lazy, defaultId, run, runs, todo, cache, judged>>
    BY <1>1, TaskRuns DEF StartSession, SpiderInv, HoldersSound
  <1>3. \A u \in Tasks : Session(u)' = Session(u)
    BY <1>2 DEF Session
  <1>4. \A u \in Tasks \ {t} : taskAt[u] \notin {"start document", "start page"}
    BY <1>2 DEF SpiderInv, HoldersSound
  <1>5. CASE MarkOpen(Session(t)) /\ MoveTask(t, Fetching(wanting)) /\ UNCHANGED fetched
    <2>1. Fetching(wanting) \in TaskPlaces \cap {"fetch document", "fetch page"}
      BY DEF Fetching, TaskPlaces
    <2>2. /\ taskAt' \in [Tasks -> TaskPlaces]
          /\ \A u \in Tasks : taskAt'[u] = IF u = t THEN Fetching(wanting) ELSE taskAt[u]
      BY <1>5, <2>1, Moved
    <2>3. /\ started' = started \cup {Session(t)} /\ open' \in [SessionIds -> Nat]
          /\ \A i \in SessionIds : open'[i] = IF i \in started' THEN 1 ELSE 0
      BY <1>2, <1>5, MarkedOpen
    <2>4. HoldersSound'
      BY <1>2, <1>3, <1>4, <2>1, <2>2, <2>3 DEF SpiderInv, HoldersSound
    <2>5. OpenSound'
      BY <1>2, <1>3, <2>1, <2>2, <2>3 DEF SpiderInv, OpenSound
    <2>6. SpiderTypeOK'
      BY <1>2, <1>5, <2>2, <2>3 DEF SpiderInv, SpiderTypeOK
    <2>7. JudgedSound'
      BY <1>2, <1>5, <2>1, <2>2 DEF SpiderInv, JudgedSound
    <2> QED
      BY <2>4, <2>5, <2>6, <2>7 DEF SpiderInv
  <1>6. CASE Fail(t, wanting) /\ UNCHANGED <<started, open>>
    <2>1. PICK place \in TaskPlaces \cap {"done", "store"} :
              MoveTask(t, place) /\ (place = "store" => fetched'[t] = Empty)
      BY <1>6, Failing
    <2>2. /\ taskAt' \in [Tasks -> TaskPlaces]
          /\ \A u \in Tasks : taskAt'[u] = IF u = t THEN place ELSE taskAt[u]
      BY <2>1, Moved
    <2>3. HoldersSound'
      BY <1>2, <1>3, <1>4, <1>6, <2>2 DEF SpiderInv, HoldersSound
    <2>4. OpenSound'
      BY <1>2, <1>3, <1>6, <2>2 DEF SpiderInv, OpenSound
    <2>5. SpiderTypeOK'
      BY <1>2, <1>6, <2>2, Failing DEF SpiderInv, SpiderTypeOK
    <2>6. JudgedSound'
      BY <1>2, <1>6, <2>1, <2>2, Failing DEF SpiderInv, JudgedSound
    <2> QED
      BY <2>3, <2>4, <2>5, <2>6 DEF SpiderInv
  <1> QED
    BY <1>5, <1>6 DEF StartSession

LEMMA FetchKeeps == ASSUME SpiderInv, NEW t \in Tasks, FetchDocument(t) \/ FetchPage(t) PROVE SpiderInv'
  <1>1. /\ run \in {"prefetching", "running"} /\ taskAt[t] \in {"fetch document", "fetch page"}
        /\ UNCHANGED <<managerVars, cache, judged>>
    BY TaskRuns DEF FetchDocument, FetchPage, robotsVars
  <1>2. PICK place \in {"store", "done"} :
            /\ MoveTask(t, place) /\ fetched' \in [Tasks -> Documents \cup {NoDocument}]
            /\ \A u \in Tasks : u # t => fetched'[u] = fetched[u]
            /\ place = "store" => fetched'[t] \in Documents
    BY DEF FetchDocument, FetchPage, robotsVars, SpiderInv, SpiderTypeOK
  <1>3. place \in TaskPlaces
    BY DEF TaskPlaces
  <1>4. HoldersSound' /\ OpenSound'
    BY <1>1, <1>2, <1>3, MoveSound
  <1>5. SpiderTypeOK'
    BY <1>1, <1>2, <1>3, Moved DEF SpiderInv, SpiderTypeOK, managerVars
  <1>6. \A u \in Tasks : taskAt'[u] = "store" => fetched'[u] # NoDocument
    BY <1>2, <1>3, Moved, SpiderSessionsAssumption DEF SpiderInv, JudgedSound
  <1>7. JudgedSound'
    BY <1>1, <1>6 DEF SpiderInv, JudgedSound
  <1> QED
    BY <1>4, <1>5, <1>7 DEF SpiderInv

\* A document that is stored takes an empty place: what others judged by is not touched.
LEMMA StoreKeeps == ASSUME SpiderInv, NEW t \in Tasks, Store(t) PROVE SpiderInv'
  <1> DEFINE o == OriginOf[t]
             document == IF cache[o] # NoDocument THEN cache[o] ELSE fetched[t]
  <1>1. /\ run \in {"prefetching", "running"} /\ taskAt[t] = "store" /\ o \in Origins
        /\ UNCHANGED <<managerVars, fetched>>
    BY TaskRuns DEF Store, Origins
  <1>2. document \in Documents \cup {NoDocument} /\ cache \in [Origins -> Documents \cup {NoDocument}]
    BY <1>1 DEF SpiderInv, SpiderTypeOK
  <1>3. PICK place \in {"done", "want page"} :
            /\ MoveTask(t, place) /\ judged' = [judged EXCEPT ![t] = document]
            /\ cache' = [cache EXCEPT ![o] = document]
    BY DEF Store, Judge
  <1>4. place \in TaskPlaces
    BY DEF TaskPlaces
  <1>5. HoldersSound' /\ OpenSound'
    BY <1>1, <1>3, <1>4, MoveSound
  <1>6. SpiderTypeOK'
    BY <1>1, <1>2, <1>3, <1>4, Moved DEF SpiderInv, SpiderTypeOK, managerVars
  <1>7. JudgedSound'
    <2>1. \A u \in Tasks : OriginOf[u] \in Origins
      BY DEF Origins
    <2>2. \A p \in Origins : cache[p] # NoDocument => cache'[p] = cache[p]
      BY <1>1, <1>2, <1>3
    <2>3. judged'[t] = cache'[o] /\ \A u \in Tasks : u # t => judged'[u] = judged[u]
      BY <1>1, <1>2, <1>3 DEF SpiderInv, SpiderTypeOK
    <2>4. \A u \in Tasks : judged'[u] # NoDocument => cache'[OriginOf[u]] = judged'[u]
      BY <2>1, <2>2, <2>3 DEF SpiderInv, JudgedSound
    <2> QED
      BY <1>1, <1>3, <1>4, <2>4, Moved DEF SpiderInv, JudgedSound
  <1> QED
    BY <1>5, <1>6, <1>7 DEF SpiderInv

LEMMA SpiderInvariant == SpiderSpec => []SpiderInv
  <1>1. SpiderInv /\ [SpiderNext]_spiderVars => SpiderInv'
    <2>1. SpiderInv /\ UNCHANGED spiderVars => SpiderInv'
      BY DEF SpiderInv, SpiderTypeOK, HoldersSound, OpenSound, JudgedSound, Quiet, Session,
             spiderVars, managerVars, robotsVars
    <2> QED
      BY <2>1, AddKeeps, RunStarts, StartKeeps, StartEnds, PrefetchEnds, CloseBegins, CloseKeeps,
         CloseEnds, TaskBegins, LookUpKeeps, LockKeeps, TaskStartKeeps, FetchKeeps, StoreKeeps
         DEF SpiderNext, SpiderRest, RunStep, TaskStep
  <1> QED
    BY <1>1, SpiderAtStart, PTL DEF SpiderSpec

\* Whatever tasks, sessions and runs there are, a session that is started is open exactly
\* once until it is closed, no task fetches with a closed one, and a run that ends closes all.
\* (SessionManager.Start, Fetch, Close; crawlRuntime.run)
THEOREM SessionsAlwaysHeldOpen == SpiderSpec => []SessionsHeldOpen
  <1>1. SpiderInv => SessionsHeldOpen
    BY DEF SpiderInv, SpiderTypeOK, OpenSound, SessionsHeldOpen
  <1> QED
    BY <1>1, SpiderInvariant, PTL

\* All tasks of one origin judge by one document, for as long as the manager lives.
\* (RobotsTxtManager.parserFor)
THEOREM OneDocumentAlways == SpiderSpec => []OneDocumentPerOrigin
  <1>1. SpiderInv => OneDocumentPerOrigin
    BY DEF SpiderInv, SpiderTypeOK, JudgedSound, OneDocumentPerOrigin
  <1> QED
    BY <1>1, SpiderInvariant, PTL
=============================================================================

-------------------------- MODULE SchedulerProofs --------------------------
(***************************************************************************)
(* The scheduler implements its lanes, for any requests and priorities.    *)
(*                                                                         *)
(* A lane is a set of entries with places: an entry's place is the number  *)
(* of entries pushed before it.  Each place is taken by one entry, a push  *)
(* takes the place after the last, a take frees the first, and the rank    *)
(* that a snapshot gives an entry in the whole queue leaves it its place   *)
(* in the lane.                                                            *)
(***************************************************************************)
EXTENDS SchedulerEnv, FiniteSetTheorems, SequenceTheorems, TLAPS

----------------------------------------------------------------------------
(***************************************************************************)
(* Places in a set of entries that were pushed one after the other.        *)
(***************************************************************************)
\* No two entries were pushed at once.
InTurn(entries) ==
    /\ IsFiniteSet(entries)
    /\ \A e \in entries : e.order \in Nat
    /\ \A x, y \in entries : x.order = y.order => x = y

Place(entries, e) == Cardinality(Ahead(entries, e)) + 1

\* A part of a finite set that lacks one element of another part, and has none that
\* the other lacks, is the smaller.
LEMMA SmallerPart ==
    ASSUME NEW S, IsFiniteSet(S), NEW A, A \subseteq S, NEW B, B \subseteq S,
           A \subseteq B, NEW x, x \in B, x \notin A
    PROVE  Cardinality(A) < Cardinality(B) /\ Cardinality(A) \in Nat /\ Cardinality(B) \in Nat
  <1>1. IsFiniteSet(A) /\ IsFiniteSet(B)
    BY FS_Subset
  <1>2. Cardinality(A) <= Cardinality(B) /\ (Cardinality(B) = Cardinality(A) => B = A)
    BY <1>1, FS_Subset
  <1>3. Cardinality(A) \in Nat /\ Cardinality(B) \in Nat
    BY <1>1, FS_CardinalityType
  <1> QED
    BY <1>2, <1>3

\* Places go by the order of pushes, from the first to the last.
LEMMA PlacesOrdered ==
    ASSUME NEW S, InTurn(S)
    PROVE  /\ Cardinality(S) \in Nat
           /\ \A e \in S : Place(S, e) \in 1..Cardinality(S)
           /\ \A x, y \in S : x.order < y.order => Place(S, x) < Place(S, y)
           /\ \A x, y \in S : Place(S, x) = Place(S, y) => x = y
  <1>1. IsFiniteSet(S) /\ \A e \in S : e.order \in Nat
    BY DEF InTurn
  <1>2. Cardinality(S) \in Nat
    BY <1>1, FS_CardinalityType
  <1>3. \A e \in S : Ahead(S, e) \subseteq S /\ e \notin Ahead(S, e)
    BY <1>1 DEF Ahead
  <1>4. \A e \in S : Cardinality(Ahead(S, e)) \in Nat /\ Cardinality(Ahead(S, e)) < Cardinality(S)
    BY <1>1, <1>3, SmallerPart
  <1>5. ASSUME NEW x \in S, NEW y \in S, x.order < y.order
        PROVE  Cardinality(Ahead(S, x)) < Cardinality(Ahead(S, y))
    <2>1. Ahead(S, x) \subseteq Ahead(S, y) /\ x \in Ahead(S, y)
      BY <1>1, <1>5 DEF Ahead
    <2> QED
      BY <1>1, <1>3, <2>1, SmallerPart
  <1>6. \A x, y \in S : x # y => x.order < y.order \/ y.order < x.order
    BY <1>1 DEF InTurn
  <1> QED
    BY <1>2, <1>4, <1>5, <1>6 DEF Place

\* Every place up to the number of entries is taken: Nth finds the entry that has it.
LEMMA NthTakes ==
    ASSUME NEW S, InTurn(S)
    PROVE  /\ \A i \in 1..Cardinality(S) : Nth(S, i) \in S /\ Place(S, Nth(S, i)) = i
           /\ \A e \in S : Nth(S, Place(S, e)) = e
  <1> DEFINE n == Cardinality(S)
             place == [e \in S |-> Place(S, e)]
  <1>1. n \in Nat /\ IsFiniteSet(S) /\ \A e \in S : Cardinality(Ahead(S, e)) \in Nat
    <2>1. \A e \in S : IsFiniteSet(Ahead(S, e))
      BY FS_Subset DEF InTurn, Ahead
    <2> QED
      BY <2>1, PlacesOrdered, FS_CardinalityType DEF InTurn
  <1>2. place \in Injection(S, 1..n)
    BY PlacesOrdered DEF Injection, IsInjective
  <1>3. IsFiniteSet(1..n) /\ Cardinality(1..n) = n
    BY <1>1, FS_Interval
  <1>4. place \in Surjection(S, 1..n)
    BY <1>2, <1>3, FS_Injection
  <1>5. \A i \in 1..n : \E e \in S : Place(S, e) = i
    BY <1>4 DEF Surjection
  <1>6. \A e \in S, i \in 1..n : Place(S, e) = i <=> Cardinality(Ahead(S, e)) = i - 1
    BY <1>1 DEF Place
  <1>7. \A i \in 1..n : Nth(S, i) \in S /\ Place(S, Nth(S, i)) = i
    BY <1>5, <1>6 DEF Nth
  <1>8. \A e \in S : Nth(S, Place(S, e)) = e
    BY <1>7, PlacesOrdered
  <1> QED
    BY <1>7, <1>8
\* The entry of a place is the one that Nth finds there.
LEMMA NthIs ==
    ASSUME NEW S, InTurn(S), NEW e \in S, NEW i, Place(S, e) = i
    PROVE  Nth(S, i) = e
  BY NthTakes

\* A push takes the place after the last.
LEMMA PushedLast ==
    ASSUME NEW S, InTurn(S), NEW e, e.order \in Nat, \A x \in S : x.order < e.order
    PROVE  /\ InTurn(S \cup {e})
           /\ Cardinality(S \cup {e}) = Cardinality(S) + 1
           /\ \A i \in 1..Cardinality(S) : Nth(S \cup {e}, i) = Nth(S, i)
           /\ Nth(S \cup {e}, Cardinality(S) + 1) = e
  <1> DEFINE T == S \cup {e}
  <1>1. e \notin S
    OBVIOUS
  <1>2. InTurn(T) /\ Cardinality(T) = Cardinality(S) + 1
    <2>1. IsFiniteSet(T) /\ Cardinality(T) = Cardinality(S) + 1
      BY <1>1, FS_AddElement DEF InTurn
    <2>2. \A x \in T : x.order \in Nat
      BY DEF InTurn
    <2>3. \A x, y \in T : x.order = y.order => x = y
      BY <2>2 DEF InTurn
    <2> QED
      BY <2>1, <2>2, <2>3 DEF InTurn
  <1>3. \A x \in S : Place(T, x) = Place(S, x)
    <2>1. \A x \in S : Ahead(T, x) = Ahead(S, x)
      BY DEF Ahead, InTurn
    <2> QED
      BY <2>1 DEF Place
  <1>4. Place(T, e) = Cardinality(S) + 1
    <2>1. Ahead(T, e) = S
      BY DEF Ahead
    <2> QED
      BY <2>1 DEF Place
  <1>5. \A i \in 1..Cardinality(S) : Nth(T, i) = Nth(S, i)
    <2> SUFFICES ASSUME NEW i \in 1..Cardinality(S)
                 PROVE  Nth(T, i) = Nth(S, i)
      OBVIOUS
    <2>1. Nth(S, i) \in S /\ Place(S, Nth(S, i)) = i
      BY NthTakes
    <2> QED
      BY <1>2, <1>3, <2>1, NthIs
  <1>6. Nth(T, Cardinality(S) + 1) = e
    BY <1>2, <1>4, NthIs
  <1> QED
    BY <1>2, <1>5, <1>6

\* When the first is taken, each of the others moves up by one.
LEMMA TakenFirst ==
    ASSUME NEW S, InTurn(S), NEW e \in S, \A x \in S \ {e} : e.order < x.order
    PROVE  /\ InTurn(S \ {e})
           /\ Cardinality(S \ {e}) \in Nat /\ Cardinality(S) = Cardinality(S \ {e}) + 1
           /\ Nth(S, 1) = e
           /\ \A i \in 1..Cardinality(S \ {e}) : Nth(S \ {e}, i) = Nth(S, i + 1)
  <1> DEFINE T == S \ {e}
  <1>1. /\ InTurn(T)
        /\ Cardinality(T) \in Nat /\ Cardinality(S) = Cardinality(T) + 1
    <2>1. IsFiniteSet(T) /\ Cardinality(T) = Cardinality(S) - 1
      BY FS_RemoveElement DEF InTurn
    <2>2. InTurn(T)
      BY <2>1 DEF InTurn
    <2> QED
      BY <2>1, <2>2, PlacesOrdered
  <1>2. Place(S, e) = 1
    <2>1. Ahead(S, e) = {}
      BY DEF Ahead, InTurn
    <2> QED
      BY <2>1, FS_EmptySet DEF Place
  <1>3. \A x \in T : Place(S, x) = Place(T, x) + 1
    <2> SUFFICES ASSUME NEW x \in T
                 PROVE  Place(S, x) = Place(T, x) + 1
      OBVIOUS
    <2>1. Ahead(S, x) = Ahead(T, x) \cup {e} /\ e \notin Ahead(T, x)
      BY DEF Ahead
    <2>2. IsFiniteSet(Ahead(T, x))
      BY <1>1, FS_Subset DEF InTurn, Ahead
    <2> QED
      BY <2>1, <2>2, FS_AddElement DEF Place
  <1>4. \A i \in 1..Cardinality(T) : Nth(T, i) = Nth(S, i + 1)
    <2> SUFFICES ASSUME NEW i \in 1..Cardinality(T)
                 PROVE  Nth(T, i) = Nth(S, i + 1)
      OBVIOUS
    <2>1. Nth(T, i) \in T /\ Place(T, Nth(T, i)) = i
      BY <1>1, NthTakes
    <2>2. Nth(T, i) \in S /\ Place(S, Nth(T, i)) = i + 1
      BY <1>3, <2>1
    <2> QED
      BY <2>2, NthIs
  <1> QED
    BY <1>1, <1>2, <1>4, NthIs

\* New orders that run as the old ones leave each entry its place.
LEMMA Renumbered ==
    ASSUME NEW S, InTurn(S), NEW f, NEW T, f \in Surjection(S, T),
           \A x \in S : f[x].order \in Nat,
           \A x, y \in S : x.order < y.order => f[x].order < f[y].order
    PROVE  /\ InTurn(T)
           /\ Cardinality(T) = Cardinality(S)
           /\ \A i \in 1..Cardinality(S) : Nth(T, i) = f[Nth(S, i)]
  <1>1. \A x, y \in S : x # y => x.order < y.order \/ y.order < x.order
    BY DEF InTurn
  <1>2. \A x, y \in S : x.order < y.order <=> f[x].order < f[y].order
    BY <1>1
  <1>3. f \in Bijection(S, T)
    <2>1. \A x, y \in S : f[x] = f[y] => x = y
      BY <1>1
    <2> QED
      BY <2>1 DEF Surjection, Bijection, Injection, IsInjective
  <1>4. IsFiniteSet(T) /\ Cardinality(T) = Cardinality(S)
    BY <1>3, FS_Bijection DEF InTurn, ExistsBijection
  <1>5. InTurn(T)
    <2>1. \A y \in T : \E x \in S : f[x] = y
      BY DEF Surjection
    <2>2. \A y \in T : y.order \in Nat
      BY <2>1
    <2>3. \A x, y \in S : f[x].order = f[y].order => f[x] = f[y]
      BY <1>1
    <2> QED
      BY <1>4, <2>1, <2>2, <2>3 DEF InTurn
  <1>6. \A x \in S : f[x] \in T /\ Place(T, f[x]) = Place(S, x)
    <2> SUFFICES ASSUME NEW x \in S
                 PROVE  f[x] \in T /\ Place(T, f[x]) = Place(S, x)
      OBVIOUS
    <2> DEFINE g == [y \in Ahead(S, x) |-> f[y]]
    <2>1. f \in [S -> T] /\ (\A t \in T : \E s \in S : f[s] = t) /\ \A s, t \in S : f[s] = f[t] => s = t
      BY <1>3 DEF Surjection, Bijection, Injection, IsInjective
    <2>2. \A y \in Ahead(S, x) : g[y] \in Ahead(T, f[x])
      BY <1>2, <2>1 DEF Ahead
    <2>3. \A t \in Ahead(T, f[x]) : \E y \in Ahead(S, x) : g[y] = t
      BY <1>2, <2>1 DEF Ahead
    <2>4. \A y, z \in Ahead(S, x) : g[y] = g[z] => y = z
      BY <2>1 DEF Ahead
    <2>5. g \in Bijection(Ahead(S, x), Ahead(T, f[x]))
      BY <2>2, <2>3, <2>4 DEF Surjection, Bijection, Injection, IsInjective
    <2>6. IsFiniteSet(Ahead(S, x))
      BY FS_Subset DEF InTurn, Ahead
    <2>7. Cardinality(Ahead(T, f[x])) = Cardinality(Ahead(S, x))
      BY <2>5, <2>6, FS_Bijection DEF ExistsBijection
    <2> QED
      BY <2>1, <2>7 DEF Place
  <1>7. ASSUME NEW i \in 1..Cardinality(S)
        PROVE  Nth(T, i) = f[Nth(S, i)]
    <2>1. Nth(S, i) \in S /\ Place(S, Nth(S, i)) = i
      BY NthTakes
    <2> QED
      BY <1>5, <1>6, <2>1, NthIs
  <1> QED
    BY <1>4, <1>5, <1>7
----------------------------------------------------------------------------
(***************************************************************************)
(* The requests of such a set in the order of their pushes.                *)
(***************************************************************************)
Requested(entries) == \A e \in entries : e.request \in Requests

LEMMA PushOrder ==
    ASSUME NEW S, InTurn(S), Requested(S)
    PROVE  /\ InPushOrder(S) \in Seq(Requests) /\ Len(InPushOrder(S)) = Cardinality(S)
           /\ \A i \in 1..Cardinality(S) : InPushOrder(S)[i] = Nth(S, i).request
           /\ {InPushOrder(S)[i] : i \in 1..Len(InPushOrder(S))} = {e.request : e \in S}
  <1>1. Cardinality(S) \in Nat /\ \A i \in 1..Cardinality(S) : Nth(S, i) \in S
    BY PlacesOrdered, NthTakes
  <1>2. \A e \in S : \E i \in 1..Cardinality(S) : Nth(S, i) = e
    BY PlacesOrdered, NthTakes
  <1>3. InPushOrder(S) \in Seq(Requests) /\ Len(InPushOrder(S)) = Cardinality(S)
    BY <1>1 DEF InPushOrder, Requested
  <1>4. \A i \in 1..Cardinality(S) : InPushOrder(S)[i] = Nth(S, i).request
    BY DEF InPushOrder
  <1> QED
    BY <1>1, <1>2, <1>3, <1>4

\* A push appends.
LEMMA PushAppends ==
    ASSUME NEW S, InTurn(S), Requested(S), NEW e, e.request \in Requests,
           e.order \in Nat, \A x \in S : x.order < e.order
    PROVE  InPushOrder(S \cup {e}) = Append(InPushOrder(S), e.request)
  <1> DEFINE old == InPushOrder(S)
             new == InPushOrder(S \cup {e})
             n == Cardinality(S)
  <1>1. /\ InTurn(S \cup {e}) /\ Cardinality(S \cup {e}) = n + 1 /\ n \in Nat
        /\ \A i \in 1..n : Nth(S \cup {e}, i) = Nth(S, i)
        /\ Nth(S \cup {e}, n + 1) = e
    BY PushedLast, PlacesOrdered
  <1>2. old \in Seq(Requests) /\ Len(old) = n /\ \A i \in 1..n : old[i] = Nth(S, i).request
    BY PushOrder
  <1>3. /\ new \in Seq(Requests) /\ Len(new) = n + 1
        /\ \A i \in 1..(n + 1) : new[i] = Nth(S \cup {e}, i).request
    <2>1. Requested(S \cup {e})
      BY DEF Requested
    <2> QED
      BY <1>1, <2>1, PushOrder
  <1> HIDE DEF old, new, n
  <1>4. /\ Append(old, e.request) \in Seq(Requests) /\ Len(Append(old, e.request)) = n + 1
        /\ \A i \in 1..n : Append(old, e.request)[i] = old[i]
        /\ Append(old, e.request)[n + 1] = e.request
    BY <1>2, AppendProperties
  <1>5. \A i \in 1..(n + 1) : new[i] = Append(old, e.request)[i]
    <2> SUFFICES ASSUME NEW i \in 1..(n + 1)
                 PROVE  new[i] = Append(old, e.request)[i]
      OBVIOUS
    <2>1. CASE i = n + 1
      BY <1>1, <1>3, <1>4, <2>1
    <2>2. CASE i \in 1..n
      BY <1>1, <1>2, <1>3, <1>4, <2>2
    <2>3. i = n + 1 \/ i \in 1..n
      <3>1. n \in Nat
        BY <1>1
      <3> QED
        BY <3>1
    <2> QED
      BY <2>1, <2>2, <2>3
  <1> QED
    BY <1>3, <1>4, <1>5, SeqEqual DEF old, new

\* Taking the first leaves the tail.
LEMMA TakeLeavesTail ==
    ASSUME NEW S, InTurn(S), Requested(S), NEW e \in S, \A x \in S \ {e} : e.order < x.order
    PROVE  InPushOrder(S) # <<>> /\ InPushOrder(S \ {e}) = Tail(InPushOrder(S))
  <1> DEFINE old == InPushOrder(S)
             new == InPushOrder(S \ {e})
             n == Cardinality(S \ {e})
  <1>1. /\ InTurn(S \ {e}) /\ Cardinality(S) = n + 1 /\ n \in Nat
        /\ \A i \in 1..n : Nth(S \ {e}, i) = Nth(S, i + 1)
    BY TakenFirst
  <1>2. /\ old \in Seq(Requests) /\ Len(old) = n + 1
        /\ \A i \in 1..(n + 1) : old[i] = Nth(S, i).request
    BY <1>1, PushOrder
  <1>3. new \in Seq(Requests) /\ Len(new) = n /\ \A i \in 1..n : new[i] = Nth(S \ {e}, i).request
    <2>1. Requested(S \ {e})
      BY DEF Requested
    <2> QED
      BY <1>1, <2>1, PushOrder
  <1> HIDE DEF old, new, n
  <1>4. old # <<>>
    BY <1>1, <1>2
  <1>5. /\ Tail(old) \in Seq(Requests) /\ Len(Tail(old)) = n
        /\ \A i \in 1..n : Tail(old)[i] = old[i + 1]
    BY <1>1, <1>2, <1>4, HeadTailProperties
  <1>6. \A i \in 1..n : new[i] = Tail(old)[i]
    <2> SUFFICES ASSUME NEW i \in 1..n
                 PROVE  new[i] = Tail(old)[i]
      OBVIOUS
    <2>1. i + 1 \in 1..(n + 1)
      <3>1. n \in Nat
        BY <1>1
      <3> QED
        BY <3>1
    <2>2. Tail(old)[i] = Nth(S, i + 1).request
      BY <1>2, <1>5, <2>1
    <2> QED
      BY <1>1, <1>3, <2>2
  <1> QED
    BY <1>3, <1>4, <1>5, <1>6, SeqEqual DEF old, new

\* New numbers change nothing.
LEMMA RenumberingKeeps ==
    ASSUME NEW S, InTurn(S), NEW f, NEW T, f \in Surjection(S, T),
           \A x \in S : f[x].order \in Nat /\ f[x].request = x.request,
           \A x, y \in S : x.order < y.order => f[x].order < f[y].order
    PROVE  InPushOrder(T) = InPushOrder(S)
  <1>1. Cardinality(T) = Cardinality(S) /\ \A i \in 1..Cardinality(S) : Nth(T, i) = f[Nth(S, i)]
    BY Renumbered
  <1>2. \A i \in 1..Cardinality(S) : Nth(S, i) \in S
    BY NthTakes
  <1>3. \A i \in 1..Cardinality(S) : Nth(T, i).request = Nth(S, i).request
    BY <1>1, <1>2
  <1> QED
    BY <1>1, <1>3 DEF InPushOrder

----------------------------------------------------------------------------
(***************************************************************************)
(* The queue.                                                              *)
(***************************************************************************)
QueueInv ==
    /\ SchedulerTypeOK /\ InTurn(queue)
    /\ \A e \in queue : e.request \in Requests /\ e.order <= counter
    /\ FilteredIn(queue) \subseteq seen

LEMMA QueueTypes ==
    ASSUME QueueInv
    PROVE  /\ \A e \in queue : e.order \in Nat /\ e.request.priority \in Int
           /\ \A e \in queue : e.request.priority \in Priorities
           /\ \A p : InTurn(OfPriority(p)) /\ Requested(OfPriority(p))
  <1>1. \A e \in queue : e \in Entry /\ e.order \in Nat /\ e.request.priority \in Int
    BY DEF QueueInv, SchedulerTypeOK, Entry, Request
  <1>2. \A e \in queue : e.request.priority \in Priorities
    BY DEF QueueInv, Priorities
  <1>3. ASSUME NEW p
        PROVE  InTurn(OfPriority(p)) /\ Requested(OfPriority(p))
    <2>1. OfPriority(p) \subseteq queue
      BY DEF OfPriority
    <2> QED
      BY <2>1, FS_Subset DEF QueueInv, InTurn, Requested
  <1> QED
    BY <1>1, <1>2, <1>3

\* The place of an entry in the list of a snapshot.
Listed(e) == Cardinality({x \in queue : Precedes(x, e)}) + 1
Relisted == [e \in queue |-> [request |-> e.request, order |-> Listed(e)]]

\* The list goes by Less, from the first place to the last.
LEMMA ListPlaces ==
    ASSUME QueueInv
    PROVE  /\ Cardinality(queue) \in Nat
           /\ \A e \in queue : Listed(e) \in 1..Cardinality(queue)
           /\ \A x, y \in queue : Precedes(x, y) => Listed(x) < Listed(y)
           /\ \A x, y \in queue : Listed(x) = Listed(y) => x = y
  <1> DEFINE Before(e) == {x \in queue : Precedes(x, e)}
  <1>1. \A e \in queue : e.order \in Nat /\ e.request.priority \in Int
    BY QueueTypes
  <1>2. IsFiniteSet(queue) /\ Cardinality(queue) \in Nat
    BY FS_CardinalityType DEF QueueInv, InTurn
  <1>3. \A e \in queue : Before(e) \subseteq queue /\ e \notin Before(e)
    BY <1>1 DEF Precedes
  <1>4. \A e \in queue : Cardinality(Before(e)) \in Nat /\ Cardinality(Before(e)) < Cardinality(queue)
    BY <1>2, <1>3, SmallerPart
  <1>5. ASSUME NEW x \in queue, NEW y \in queue, Precedes(x, y)
        PROVE  Cardinality(Before(x)) < Cardinality(Before(y))
    <2>1. Before(x) \subseteq Before(y) /\ x \in Before(y)
      BY <1>1, <1>5 DEF Precedes
    <2> QED
      BY <1>2, <1>3, <2>1, SmallerPart
  <1>6. \A x, y \in queue : x # y => Precedes(x, y) \/ Precedes(y, x)
    BY <1>1 DEF Precedes, QueueInv, InTurn
  <1>7. \A e \in queue : Listed(e) = Cardinality(Before(e)) + 1
    BY DEF Listed
  <1> HIDE DEF Before
  <1>8. \A x, y \in queue : Precedes(x, y) => Listed(x) < Listed(y)
    BY <1>4, <1>5, <1>7
  <1>9. \A e \in queue : Listed(e) \in 1..Cardinality(queue)
    BY <1>2, <1>4, <1>7
  <1>10. \A x, y \in queue : Listed(x) = Listed(y) => x = y
    BY <1>6, <1>8, <1>9
  <1> QED
    BY <1>2, <1>8, <1>9, <1>10

\* What a restore does to the queue: every entry gets the number of its place.
LEMMA ListingRenumbers ==
    ASSUME QueueInv
    PROVE  /\ Relisted \in Surjection(queue, Listing(queue))
           /\ InTurn(Listing(queue)) /\ Cardinality(Listing(queue)) = Cardinality(queue)
           /\ \A e \in queue : /\ Relisted[e].request = e.request
                               /\ Relisted[e].order = Listed(e)
  <1>1. Listing(queue) = {Relisted[e] : e \in queue}
    BY DEF Listing, Relisted, Listed
  <1>2. Relisted \in Surjection(queue, Listing(queue))
    BY <1>1 DEF Surjection, Relisted
  <1>3. \A e \in queue : Relisted[e].request = e.request /\ Relisted[e].order = Listed(e)
    BY DEF Relisted
  <1>4. IsFiniteSet(Listing(queue)) /\ Cardinality(Listing(queue)) = Cardinality(queue)
    <2>1. Relisted \in Bijection(queue, Listing(queue))
      BY <1>2, <1>3, ListPlaces DEF Surjection, Bijection, Injection, IsInjective
    <2> QED
      BY <2>1, FS_Bijection DEF ExistsBijection, QueueInv, InTurn
  <1>5. InTurn(Listing(queue))
    <2>1. \A t \in Listing(queue) : \E e \in queue : t = Relisted[e]
      BY <1>1
    <2>2. \A t \in Listing(queue) : t.order \in Nat
      BY <1>3, <2>1, ListPlaces
    <2>3. \A t, u \in Listing(queue) : t.order = u.order => t = u
      BY <1>3, <2>1, ListPlaces
    <2> QED
      BY <1>4, <2>2, <2>3 DEF InTurn
  <1> QED
    BY <1>2, <1>3, <1>4, <1>5
\* What may be offered, taken and reloaded keeps the queue.
LEMMA PushKeeps ==
    ASSUME QueueInv, NEW r \in Requests, Enqueue(r)
    PROVE  QueueInv'
  <1> DEFINE e == [request |-> r, order |-> counter + 1]
  <1>1. /\ queue' = queue \cup {e} /\ counter' = counter + 1
        /\ seen' = IF r.dontFilter THEN seen ELSE seen \cup {Fingerprint(r)}
    BY DEF Enqueue
  <1>2. r \in Request /\ counter \in Nat /\ e.request = r /\ e.order = counter + 1
    BY SchedulerEnvAssumption DEF QueueInv, SchedulerTypeOK
  <1>3. Fingerprint(r) \in Fingerprints
    BY <1>2 DEF Fingerprint, Fingerprints, Request
  <1>4. SchedulerTypeOK'
    <2>1. e \in Entry
      BY <1>2 DEF Entry
    <2> QED
      BY <1>1, <1>2, <1>3, <2>1 DEF QueueInv, SchedulerTypeOK
  <1>5. \A x \in queue : x.order \in Nat /\ x.order < e.order
    BY <1>2, QueueTypes DEF QueueInv
  <1>6. InTurn(queue')
    <2>1. InTurn(queue) /\ e.order \in Nat /\ \A x \in queue : x.order < e.order
      BY <1>2, <1>5 DEF QueueInv
    <2> HIDE DEF e
    <2>2. InTurn(queue \cup {e})
      BY <2>1, PushedLast
    <2> QED
      BY <1>1, <2>2
  <1>7. \A x \in queue' : x.request \in Requests /\ x.order <= counter'
    BY <1>1, <1>2, <1>5 DEF QueueInv
  <1>8. FilteredIn(queue') \subseteq seen'
    BY <1>1, <1>2 DEF QueueInv, FilteredIn
  <1> QED
    BY <1>4, <1>6, <1>7, <1>8 DEF QueueInv, InTurn, FilteredIn, Fingerprint

LEMMA TakeKeeps ==
    ASSUME QueueInv, NEW e, Dequeue(e)
    PROVE  QueueInv'
  <1>1. queue' \subseteq queue /\ UNCHANGED <<seen, counter>>
    BY DEF Dequeue
  <1>2. IsFiniteSet(queue')
    BY <1>1, FS_Subset DEF QueueInv, InTurn
  <1> QED
    BY <1>1, <1>2 DEF QueueInv, SchedulerTypeOK, InTurn, FilteredIn, Fingerprint

LEMMA ReloadKeeps ==
    ASSUME QueueInv, NEW kept \in SUBSET seen, Restore([Snapshot EXCEPT !.seen = kept])
    PROVE  /\ QueueInv'
           /\ queue' = Listing(queue)
           /\ FilteredIn(queue') = FilteredIn(queue)
           /\ seen' = kept \cup FilteredIn(queue)
  <1>1. /\ queue' = Listing(queue)
        /\ seen' = kept \cup FilteredIn(queue')
        /\ counter' = Cardinality(Listing(queue))
    BY DEF Restore, Snapshot
  <1>2. \A t \in queue' : \E e \in queue : t = [request |-> e.request, order |-> Listed(e)]
    BY <1>1 DEF Listing, Listed
  <1>3. \A e \in queue : \E t \in queue' : t.request = e.request
    BY <1>1, ListingRenumbers DEF Surjection
  <1>4. FilteredIn(queue') = FilteredIn(queue)
    BY <1>2, <1>3 DEF FilteredIn
  <1>5. \A t \in queue' : t \in Entry /\ t.request \in Requests /\ t.order <= Cardinality(queue)
    <2>1. \A e \in queue : e.request \in Request /\ e.request \in Requests
      BY DEF QueueInv, SchedulerTypeOK, Entry
    <2>2. \A e \in queue : Listed(e) \in Nat /\ Listed(e) <= Cardinality(queue)
      BY ListPlaces
    <2> QED
      BY <1>2, <2>1, <2>2 DEF Entry
  <1>6. counter' = Cardinality(queue) /\ counter' \in Nat
    BY <1>1, ListingRenumbers, ListPlaces
  <1>7. seen' = kept \cup FilteredIn(queue) /\ FilteredIn(queue) \subseteq seen /\ seen \subseteq Fingerprints
    BY <1>1, <1>4 DEF QueueInv, SchedulerTypeOK
  <1>8. SchedulerTypeOK'
    BY <1>5, <1>6, <1>7 DEF SchedulerTypeOK
  <1>9. InTurn(queue')
    BY <1>1, ListingRenumbers
  <1>10. FilteredIn(queue') \subseteq seen' /\ \A t \in queue' : t.order <= counter'
    BY <1>1, <1>5, <1>6
  <1> QED
    BY <1>1, <1>4, <1>5, <1>7, <1>8, <1>9, <1>10 DEF QueueInv, InTurn, FilteredIn, Fingerprint

LEMMA QueueInvInit == Init => QueueInv
  BY FS_EmptySet DEF Init, SchedulerInit, QueueInv, SchedulerTypeOK, InTurn, FilteredIn

LEMMA QueueInvStep == QueueInv /\ [Next]_schedVars => QueueInv'
  <1> SUFFICES ASSUME QueueInv, [Next]_schedVars
               PROVE  QueueInv'
    OBVIOUS
  <1>1. CASE UNCHANGED schedVars
    BY <1>1 DEF QueueInv, SchedulerTypeOK, InTurn, FilteredIn, Fingerprint, schedVars
  <1>2. CASE OfferAny
    BY <1>1, <1>2, PushKeeps DEF OfferAny, Offer
  <1>3. CASE DequeueNext
    BY <1>3, TakeKeeps DEF DequeueNext
  <1>4. CASE Reload
    BY <1>4, ReloadKeeps DEF Reload
  <1> QED
    BY <1>1, <1>2, <1>3, <1>4 DEF Next
----------------------------------------------------------------------------
(***************************************************************************)
(* The lanes.                                                              *)
(***************************************************************************)
\* What waits in the lanes is what is queued.
LEMMA LanesHoldQueue ==
    ASSUME QueueInv
    PROVE  /\ Lanes!Waiting = {e.request : e \in queue}
           /\ Lanes!MustKnow = FilteredIn(queue)
  <1> DEFINE lanes == [p \in Priorities |-> Lane(p)]
             InLane(p) == {lanes[p][i] : i \in 1..Len(lanes[p])}
             Queued(p) == {e.request : e \in OfPriority(p)}
  <1>1. \A p \in Priorities : InLane(p) = Queued(p)
    BY QueueTypes, PushOrder DEF Lane
  <1>2. Lanes!Waiting = UNION {InLane(p) : p \in Priorities}
    BY DEF Lanes!Waiting
  <1>3. Lanes!Waiting = UNION {Queued(p) : p \in Priorities}
    <2> HIDE DEF InLane, Queued
    <2> QED
      BY <1>1, <1>2
  <1>4. \A e \in queue : e.request.priority \in Priorities
    BY QueueTypes
  <1>5. Lanes!Waiting = {e.request : e \in queue}
    BY <1>3, <1>4 DEF OfPriority
  <1>6. \A e \in queue : e.request \in Requests
    BY DEF QueueInv
  <1>7. Lanes!MustKnow = FilteredIn(queue)
    BY <1>5, <1>6 DEF Lanes!MustKnow, FilteredIn
  <1> QED
    BY <1>5, <1>7\* A request that is enqueued joins the lane of its priority, after the last.
LEMMA PushJoins ==
    ASSUME QueueInv, NEW r \in Requests, Enqueue(r)
    PROVE  Lanes!Join(r)
  <1> DEFINE e == [request |-> r, order |-> counter + 1]
  <1>1. /\ Accepts(r) /\ queue' = queue \cup {e}
        /\ seen' = IF r.dontFilter THEN seen ELSE seen \cup {Fingerprint(r)}
    BY DEF Enqueue
  <1>2. r.priority \in Priorities
    BY DEF Priorities
  <1>3. e.request = r /\ e.order \in Nat /\ \A x \in queue : x.order < e.order
    BY QueueTypes DEF QueueInv, SchedulerTypeOK
  <1> HIDE DEF e
  <1>4. /\ OfPriority(r.priority)' = OfPriority(r.priority) \cup {e}
        /\ \A p \in Priorities : p # r.priority => OfPriority(p)' = OfPriority(p)
    BY <1>1, <1>3 DEF OfPriority
  <1>5. \A p \in Priorities : p # r.priority => Lane(p)' = Lane(p)
    BY <1>4 DEF Lane
  <1>6. Lane(r.priority)' = Append(Lane(r.priority), r)
    <2>1. InTurn(OfPriority(r.priority)) /\ Requested(OfPriority(r.priority))
      BY QueueTypes
    <2>2. \A x \in OfPriority(r.priority) : x.order < e.order
      BY <1>3 DEF OfPriority
    <2>3. InPushOrder(OfPriority(r.priority) \cup {e}) = Append(InPushOrder(OfPriority(r.priority)), r)
      BY <1>3, <2>1, <2>2, PushAppends
    <2> QED
      BY <1>4, <2>3 DEF Lane
  <1>7. [p \in Priorities |-> Lane(p)]' =
            [[p \in Priorities |-> Lane(p)] EXCEPT ![r.priority] = Append(@, r)]
    BY <1>2, <1>5, <1>6
  <1>8. [x \in Requests |-> Fingerprint(x)][r] = Fingerprint(r)
    OBVIOUS
  <1> QED
    BY <1>1, <1>7, <1>8 DEF Lanes!Join, Accepts

\* What Less puts first is the head of the highest lane that has any.
LEMMA TakeServes ==
    ASSUME QueueInv, NEW e, Dequeue(e)
    PROVE  Lanes!Serve(e.request.priority) /\ e.request.priority \in Priorities
  <1> DEFINE top == e.request.priority
  <1>1. /\ e \in queue /\ \A x \in queue \ {e} : Precedes(e, x)
        /\ queue' = queue \ {e} /\ seen' = seen
    BY DEF Dequeue
  <1>2. /\ top \in Priorities
        /\ \A x \in queue : x.order \in Nat /\ x.request.priority \in Int
        /\ Priorities \subseteq Int
    <2>1. Priorities \subseteq Int
      BY SchedulerEnvAssumption DEF Priorities, Request
    <2> QED
      BY <1>1, <2>1, QueueTypes
  <1>3. /\ e \in OfPriority(top)
        /\ \A x \in OfPriority(top) \ {e} : e.order < x.order
        /\ OfPriority(top)' = OfPriority(top) \ {e}
        /\ \A p \in Priorities : p # top => OfPriority(p)' = OfPriority(p)
        /\ \A p \in Priorities : p > top => OfPriority(p) = {}
    BY <1>1, <1>2 DEF OfPriority, Precedes
  <1>4. Lane(top) # <<>> /\ Lane(top)' = Tail(Lane(top))
    <2>1. InTurn(OfPriority(top)) /\ Requested(OfPriority(top))
      BY QueueTypes
    <2>2. /\ InPushOrder(OfPriority(top)) # <<>>
          /\ InPushOrder(OfPriority(top) \ {e}) = Tail(InPushOrder(OfPriority(top)))
      BY <1>3, <2>1, TakeLeavesTail
    <2> QED
      BY <1>3, <2>2 DEF Lane
  <1>5. \A p \in Priorities : p # top => Lane(p)' = Lane(p)
    BY <1>3 DEF Lane
  <1>6. \A p \in Priorities : p > top => Lane(p) = <<>>
    <2>1. InPushOrder({}) = <<>>
      BY FS_EmptySet DEF InPushOrder
    <2> QED
      BY <1>3, <2>1 DEF Lane
  <1> HIDE DEF top
  <1>7. [p \in Priorities |-> Lane(p)]' =
            [[p \in Priorities |-> Lane(p)] EXCEPT ![top] = Tail(@)]
    BY <1>2, <1>4, <1>5
  <1>8. Lanes!Serve(top)
    BY <1>1, <1>2, <1>4, <1>6, <1>7 DEF Lanes!Serve
  <1> QED
    BY <1>2, <1>8 DEF top

\* A snapshot and its restore move no request, and forget no fingerprint that is queued.
LEMMA ReloadForgets ==
    ASSUME QueueInv, NEW kept \in SUBSET seen, Restore([Snapshot EXCEPT !.seen = kept])
    PROVE  Lanes!Forget
  <1>1. queue' = Listing(queue) /\ seen' = kept \cup FilteredIn(queue)
    BY ReloadKeeps
  <1>2. ASSUME NEW p \in Priorities
        PROVE  Lane(p)' = Lane(p)
    <2> DEFINE S == OfPriority(p)
               T == {t \in Listing(queue) : t.request.priority = p}
               f == [x \in S |-> Relisted[x]]
    <2>1. InTurn(S) /\ S \subseteq queue /\ OfPriority(p)' = T
      BY <1>1, QueueTypes DEF OfPriority
    <2>2. \A x \in queue : Relisted[x].request = x.request /\ Relisted[x].order = Listed(x)
      BY ListingRenumbers
    <2>3. f \in Surjection(S, T)
      <3>1. Relisted \in [queue -> Listing(queue)] /\ \A t \in Listing(queue) : \E x \in queue : Relisted[x] = t
        BY ListingRenumbers DEF Surjection
      <3>2. \A x \in S : f[x] \in T
        BY <2>2, <3>1 DEF OfPriority
      <3>3. \A t \in T : \E x \in S : f[x] = t
        BY <2>2, <3>1 DEF OfPriority
      <3> QED
        BY <3>2, <3>3 DEF Surjection
    <2>4. \A x \in S : f[x].order \in Nat /\ f[x].request = x.request
      BY <2>1, <2>2, ListPlaces
    <2>5. \A x, y \in S : x.order < y.order => f[x].order < f[y].order
      <3>1. \A x, y \in S : x.order < y.order => Precedes(x, y)
        BY DEF OfPriority, Precedes
      <3> QED
        BY <2>1, <2>2, <3>1, ListPlaces
    <2> HIDE DEF S, T, f
    <2>6. InPushOrder(T) = InPushOrder(S)
      BY <2>1, <2>3, <2>4, <2>5, RenumberingKeeps
    <2> QED
      BY <2>1, <2>6 DEF Lane, S
  <1>3. Lanes!MustKnow = FilteredIn(queue)
    BY LanesHoldQueue
  <1>4. [p \in Priorities |-> Lane(p)]' = [p \in Priorities |-> Lane(p)]
    BY <1>2
  <1> QED
    BY <1>1, <1>3, <1>4 DEF Lanes!Forget, QueueInv

----------------------------------------------------------------------------
\* For any requests, priorities and bounds: whatever is offered, taken, saved and restored
\* from a list that lost fingerprints, the scheduler serves the highest lane first and
\* each lane in the order of its pushes, and refuses what it knows.
\* (priorityQueue.Less, Enqueue, Dequeue, Snapshot, Restore)
THEOREM LanesAlwaysServed == Spec => ServesInLaneOrder
  <1>1. Init => Lanes!Init
    BY FS_EmptySet DEF Init, SchedulerInit, Lanes!Init, Lane, InPushOrder, OfPriority
  <1>2. QueueInv /\ [Next]_schedVars => [Lanes!Next]_<<[p \in Priorities |-> Lane(p)], seen>>
    <2> SUFFICES ASSUME QueueInv, [Next]_schedVars
                 PROVE  [Lanes!Next]_<<[p \in Priorities |-> Lane(p)], seen>>
      OBVIOUS
    <2>1. CASE UNCHANGED schedVars
      BY <2>1 DEF schedVars, Lane, OfPriority
    <2>2. CASE OfferAny
      BY <2>1, <2>2, PushJoins DEF OfferAny, Offer, Lanes!Next
    <2>3. CASE DequeueNext
      BY <2>3, TakeServes DEF DequeueNext, Lanes!Next
    <2>4. CASE Reload
      BY <2>4, ReloadForgets DEF Reload, Lanes!Next
    <2> QED
      BY <2>1, <2>2, <2>3, <2>4 DEF Next
  <1> QED
    BY <1>1, <1>2, QueueInvInit, QueueInvStep, PTL DEF Spec, ServesInLaneOrder, Lanes!Spec
\* For any requests: a filtered request is queued once and recorded while it is queued,
\* also after a restore from a list that lost its fingerprint.
\* (acceptFingerprint, restoredSeenFingerprints)
THEOREM FilteredAlwaysOnce == Spec => []FilteredOnce
  <1> DEFINE Twins(a, b) == /\ ~a.request.dontFilter /\ ~b.request.dontFilter
                            /\ Fingerprint(a.request) = Fingerprint(b.request)
             Once(entries) == \A a, b \in entries : Twins(a, b) => a = b
  <1>1. QueueInv => (FilteredOnce <=> Once(queue))
    BY DEF FilteredOnce, QueueInv
  <1>2. Init => Once(queue)
    BY DEF Init, SchedulerInit
  <1>3. QueueInv /\ Once(queue) /\ [Next]_schedVars => Once(queue')
    <2> SUFFICES ASSUME QueueInv, Once(queue), [Next]_schedVars
                 PROVE  Once(queue')
      OBVIOUS
    <2>1. CASE UNCHANGED schedVars
      BY <2>1 DEF schedVars
    <2>2. ASSUME NEW r \in Requests, Enqueue(r)
          PROVE  Once(queue')
      <3>1. /\ queue' = queue \cup {[request |-> r, order |-> counter + 1]}
            /\ r.dontFilter \/ Fingerprint(r) \notin FilteredIn(queue)
        BY <2>2 DEF Enqueue, Accepts, QueueInv
      <3>2. \A x \in queue : ~x.request.dontFilter => Fingerprint(x.request) \in FilteredIn(queue)
        BY DEF FilteredIn
      <3> QED
        BY <3>1, <3>2
    <2>3. CASE OfferAny
      BY <2>1, <2>2, <2>3 DEF OfferAny, Offer
    <2>4. CASE DequeueNext
      BY <2>4 DEF DequeueNext, Dequeue
    <2>5. CASE Reload
      <3>1. queue' = Listing(queue)
        BY <2>5, ReloadKeeps DEF Reload
      <3>2. \A t \in queue' : \E x \in queue : t = Relisted[x] /\ t.request = x.request
        BY <3>1, ListingRenumbers DEF Surjection
      <3> QED
        BY <3>2
    <2> QED
      BY <2>1, <2>3, <2>4, <2>5 DEF Next
  <1>4. QueueInv' => (FilteredOnce' <=> Once(queue'))
    BY DEF FilteredOnce, QueueInv, Fingerprint
  <1>5. QueueInv /\ FilteredOnce /\ [Next]_schedVars => FilteredOnce'
    BY <1>1, <1>3, <1>4, QueueInvStep
  <1>6. Init => FilteredOnce
    BY <1>1, <1>2, QueueInvInit
  <1> QED
    BY <1>5, <1>6, QueueInvInit, QueueInvStep, PTL DEF Spec
============================================================================
